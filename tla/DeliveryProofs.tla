---------------------------- MODULE DeliveryProofs ----------------------------
(***************************************************************************)
(* Proofs about what is delivered late, twice or never: the mails of the   *)
(* outbox (module Outbox: OutboxInv is inductive), and the answers to the  *)
(* screens of the web application (module Web: BoardInv, ListInv and       *)
(* CatalogInv are), for any messages, any finite number of executions of   *)
(* the job, any rows, cards and days, and any bounds.                      *)
(***************************************************************************)
EXTENDS Outbox, Web, Sums

\* The count of copies still to be sent of a message falls when an execution on it
\* is past sending, and stays otherwise.
LEMMA YetToSendFinite ==
    ASSUME NEW m \in Messages
    PROVE  IsFiniteSet(YetToSend(m)) /\ Cardinality(YetToSend(m)) \in Nat
<1>1. YetToSend(m) \subseteq Workers
  BY DEF YetToSend
<1> QED
  BY <1>1, OutboxAssumption, FS_Subset, FS_CardinalityType

\* Fewer to send are not more.
LEMMA FewerToSend ==
    ASSUME NEW m \in Messages, YetToSend(m)' \subseteq YetToSend(m)
    PROVE  /\ Cardinality(YetToSend(m)') \in Nat
           /\ Cardinality(YetToSend(m)') <= Cardinality(YetToSend(m))
<1>1. IsFiniteSet(YetToSend(m))
  BY YetToSendFinite
<1> QED
  BY <1>1, YetToSendFinite, FS_Subset, FS_CardinalityType

\* One sent is one fewer.
LEMMA OneSent ==
    ASSUME NEW m \in Messages, NEW w \in YetToSend(m),
           YetToSend(m)' \subseteq YetToSend(m) \ {w}
    PROVE  /\ Cardinality(YetToSend(m)') \in Nat
           /\ Cardinality(YetToSend(m)') + 1 <= Cardinality(YetToSend(m))
<1>1. IsFiniteSet(YetToSend(m))
  BY YetToSendFinite
<1>2. /\ IsFiniteSet(YetToSend(m) \ {w})
      /\ Cardinality(YetToSend(m) \ {w}) = Cardinality(YetToSend(m)) - 1
  BY <1>1, FS_RemoveElement
<1>3. Cardinality(YetToSend(m)') <= Cardinality(YetToSend(m) \ {w})
  BY <1>2, FS_Subset
<1>4. IsFiniteSet(YetToSend(m)')
  BY <1>2, FS_Subset
<1> QED
  BY <1>1, <1>2, <1>3, <1>4, FS_CardinalityType

\* One claimed is at most one more.
LEMMA OneClaimed ==
    ASSUME NEW m \in Messages, NEW w,
           YetToSend(m)' \subseteq YetToSend(m) \cup {w}
    PROVE  /\ Cardinality(YetToSend(m)') \in Nat
           /\ Cardinality(YetToSend(m)') <= Cardinality(YetToSend(m)) + 1
<1>1. IsFiniteSet(YetToSend(m)) /\ Cardinality(YetToSend(m)) \in Nat
  BY YetToSendFinite
<1>2. /\ IsFiniteSet(YetToSend(m) \cup {w})
      /\ Cardinality(YetToSend(m) \cup {w}) <= Cardinality(YetToSend(m)) + 1
  <2>1. CASE w \in YetToSend(m)
    BY <1>1, <2>1, FS_AddElement
  <2>2. CASE w \notin YetToSend(m)
    BY <1>1, <2>2, FS_AddElement
  <2> QED
    BY <2>1, <2>2
<1>3. /\ IsFiniteSet(YetToSend(m)')
      /\ Cardinality(YetToSend(m)') <= Cardinality(YetToSend(m) \cup {w})
  BY <1>2, FS_Subset
<1>4. /\ Cardinality(YetToSend(m)') \in Nat
      /\ Cardinality(YetToSend(m) \cup {w}) \in Nat
  BY <1>2, <1>3, FS_CardinalityType
<1> QED
  BY <1>1, <1>2, <1>3, <1>4

-----------------------------------------------------------------------------
(* Type correctness                                                         *)

USE DEF Ends, Steps, Resting, AtLoop, Again, NoMail

\* What the handlers make of a row is a row.
LEMMA RowsTyped ==
    ASSUME NEW row \in MailRows
    PROVE  /\ [row EXCEPT !.due = TRUE] \in MailRows
           /\ [row EXCEPT !.lease = "over"] \in MailRows
           /\ [row EXCEPT !.status = "FAILED", !.lease = "none"] \in MailRows
  BY DEF MailRows

\* A claimed row is a row.
LEMMA ClaimTyped ==
    ASSUME NEW row \in MailRows
    PROVE  [row EXCEPT !.status = "PROCESSING", !.attempts = row.attempts + 1,
                       !.lease = "running"] \in MailRows
<1>1. row.attempts + 1 \in Nat
  BY DEF MailRows
<1>2. ASSUME NEW a \in Nat
      PROVE  [row EXCEPT !.status = "PROCESSING", !.attempts = a, !.lease = "running"] \in MailRows
  BY DEF MailRows
<1> QED
  BY <1>1, <1>2

\* A row that is left is a row.
LEMMA LeftTyped ==
    ASSUME NEW row \in MailRows, NEW status \in Ends \cup {"PENDING"}, NEW due \in BOOLEAN
    PROVE  [row EXCEPT !.status = status, !.lease = "none", !.due = due] \in MailRows
<1>1. CASE due = TRUE
  BY <1>1 DEF MailRows
<1>2. CASE due = FALSE
  BY <1>2 DEF MailRows
<1> QED
  BY <1>1, <1>2

\* The executions the steps make are executions.
LEMMA WorkersTyped ==
    /\ Resting \in WorkerRows /\ AtLoop \in WorkerRows /\ Again \in WorkerRows
    /\ \A m \in Messages : [Resting EXCEPT !.step = "claimed", !.id = m] \in WorkerRows
  BY DEF WorkerRows

\* So is one that moves on.
LEMMA WorkersMove ==
    ASSUME NEW row \in WorkerRows
    PROVE  /\ \A step \in Steps : [row EXCEPT !.step = step] \in WorkerRows
           /\ \A final \in BOOLEAN : [row EXCEPT !.step = "failing", !.final = final] \in WorkerRows
           /\ \A seen \in Nat : [row EXCEPT !.step = "failed", !.seen = seen] \in WorkerRows
  BY DEF WorkerRows

\* An execution that holds a message holds one of the messages.
LEMMA HeldIsMessage ==
    ASSUME TypeOK, WorkersKnow, NEW w \in Workers, worker[w].step \in Holding
    PROVE  /\ worker[w].id \in Messages /\ worker[w] \in WorkerRows
           /\ box[worker[w].id] \in MailRows /\ box[worker[w].id].attempts \in Nat
           /\ copies[worker[w].id] \in Nat
  BY DEF TypeOK, WorkersKnow, MailRows

\* Moving on keeps the executions in their domain.
LEMMA GoesTyped ==
    ASSUME TypeOK, NEW w \in Workers, NEW step \in Steps, Goes(w, step)
    PROVE  worker' \in [Workers -> WorkerRows]
  BY WorkersMove DEF TypeOK, Goes

\* So does failing.
LEMMA FailsTyped ==
    ASSUME TypeOK, NEW w \in Workers, NEW final \in BOOLEAN, Fails(w, final)
    PROVE  worker' \in [Workers -> WorkerRows]
  BY WorkersMove DEF TypeOK, Fails

\* Leaving a message keeps every variable in its domain.
LEMMA LeaveTyped ==
    ASSUME TypeOK, NEW w \in Workers, worker[w].id \in Messages,
           NEW status \in Ends \cup {"PENDING"}, NEW due \in BOOLEAN, Leave(w, status, due)
    PROVE  TypeOK'
<1>1. box[worker[w].id] \in MailRows
  BY DEF TypeOK
<1>2. [box[worker[w].id] EXCEPT !.status = status, !.lease = "none", !.due = due] \in MailRows
  BY <1>1, LeftTyped
<1> QED
  BY <1>2, WorkersTyped DEF TypeOK, Leave

\* What the statement before the loop does to a row.
LEMMA StartEffect ==
    ASSUME TypeOK, NEW w \in Workers, Start(w), NEW m \in Messages
    PROVE  \/ box'[m] = box[m]
           \/ /\ box[m].status = "PROCESSING" /\ box[m].lease = "over"
              /\ box'[m].status = "FAILED" /\ box'[m].attempts = box[m].attempts
<1>1. box'[m] = IF OutOfAttempts(m) THEN [box[m] EXCEPT !.status = "FAILED", !.lease = "none"]
                ELSE box[m]
  BY DEF Start
<1>2. CASE OutOfAttempts(m)
  <2>1. box[m] \in MailRows
    BY DEF TypeOK
  <2> QED
    BY <1>1, <1>2, <2>1 DEF OutOfAttempts, MailRows
<1>3. CASE ~OutOfAttempts(m)
  BY <1>1, <1>3
<1> QED
  BY <1>2, <1>3

\* Every step keeps every variable in its domain.
LEMMA TypesStay ==
    ASSUME TypeOK, WorkersKnow, [Next]_vars
    PROVE  TypeOK'
<1> USE OutboxAssumption DEF TypeOK
<1>1. ASSUME NEW m \in Messages, Enqueue(m)
      PROVE  TypeOK'
  <2>1. [box[m] EXCEPT !.status = "PENDING", !.due = TRUE] \in MailRows
    BY DEF MailRows
  <2> QED
    BY <1>1, <2>1 DEF Enqueue
<1>2. ASSUME NEW m \in Messages, BecomesVoid(m)
      PROVE  TypeOK'
  BY <1>2 DEF BecomesVoid
<1>3. ASSUME NEW m \in Messages, BecomesDue(m)
      PROVE  TypeOK'
  BY <1>3, RowsTyped DEF BecomesDue
<1>4. ASSUME NEW m \in Messages, LeaseRunsOut(m)
      PROVE  TypeOK'
  BY <1>4, RowsTyped DEF LeaseRunsOut
<1>5. ASSUME NEW w \in Workers, Start(w)
      PROVE  TypeOK'
  BY <1>5, RowsTyped, WorkersTyped DEF Start
<1>6. ASSUME NEW w \in Workers, Stop(w)
      PROVE  TypeOK'
  BY <1>6, WorkersTyped DEF Stop
<1>7. ASSUME NEW w \in Workers, NEW m \in Messages, Claim(w, m)
      PROVE  TypeOK'
  BY <1>7, ClaimTyped, WorkersTyped DEF Claim
<1>8. ASSUME NEW w \in Workers, Load(w)
      PROVE  TypeOK'
  <2>1. worker[w].step \in Holding
    BY <1>8 DEF Load, Holding
  <2> QED
    BY <1>8, <2>1, HeldIsMessage, GoesTyped, FailsTyped DEF Load
<1>9. ASSUME NEW w \in Workers, Look(w)
      PROVE  TypeOK'
  <2>1. worker[w].step \in Holding
    BY <1>9 DEF Look, Holding
  <2> QED
    BY <1>9, <2>1, HeldIsMessage, GoesTyped DEF Look
<1>10. ASSUME NEW w \in Workers, ReadAttempts(w)
      PROVE  TypeOK'
  <2>1. worker[w].step \in Holding
    BY <1>10 DEF ReadAttempts, Holding
  <2> QED
    BY <1>10, <2>1, HeldIsMessage, WorkersTyped, WorkersMove DEF ReadAttempts
<1>11. ASSUME NEW w \in Workers, StatementFails(w)
      PROVE  TypeOK'
  <2>1. worker[w].step \in Holding
    BY <1>11 DEF StatementFails, Holding
  <2> QED
    BY <1>11, <2>1, HeldIsMessage, FailsTyped DEF StatementFails
<1>12. ASSUME NEW w \in Workers, Send(w)
      PROVE  TypeOK'
  <2>1. worker[w].step \in Holding
    BY <1>12 DEF Send, Holding
  <2> QED
    <3>1. \/ Goes(w, "accepted")
          \/ \E final \in BOOLEAN : Fails(w, final)
      <4>1. FALSE \in BOOLEAN
        OBVIOUS
      <4> QED
        BY <1>12, <4>1, Zenon DEF Send
    <3>2. worker' \in [Workers -> WorkerRows]
      <4>1. CASE Goes(w, "accepted")
        BY <4>1, GoesTyped
      <4>2. ASSUME NEW final \in BOOLEAN, Fails(w, final)
            PROVE  worker' \in [Workers -> WorkerRows]
        BY <4>2, FailsTyped
      <4> QED
        BY <3>1, <4>1, <4>2
    <3>3. copies' \in [Messages -> Nat]
      <4>1. \/ copies' = copies
            \/ copies' = [copies EXCEPT ![worker[w].id] = @ + 1]
        BY <1>12, Zenon DEF Send
      <4> QED
        BY <2>1, <4>1, HeldIsMessage
    <3> QED
      BY <1>12, <2>1, <3>2, <3>3, HeldIsMessage DEF Send
<1>13. ASSUME NEW w \in Workers, Skip(w)
      PROVE  TypeOK'
  <2>1. worker[w].step \in Holding
    BY <1>13 DEF Skip, Holding
  <2>2. AvailableAt(w) \in BOOLEAN
    BY <2>1, HeldIsMessage DEF AvailableAt, MailRows
  <2> QED
    BY <1>13, <2>1, <2>2, HeldIsMessage, LeaveTyped DEF Skip
<1>14. ASSUME NEW w \in Workers, MarkSent(w)
      PROVE  TypeOK'
  <2>1. worker[w].step \in Holding
    BY <1>14 DEF MarkSent, Holding
  <2>2. AvailableAt(w) \in BOOLEAN
    BY <2>1, HeldIsMessage DEF AvailableAt, MailRows
  <2> QED
    BY <1>14, <2>1, <2>2, HeldIsMessage, LeaveTyped DEF MarkSent
<1>15. ASSUME NEW w \in Workers, Retire(w)
      PROVE  TypeOK'
  <2>1. worker[w].step \in Holding
    BY <1>15 DEF Retire, Holding
  <2> QED
    BY <1>15, <2>1, HeldIsMessage, LeaveTyped DEF Retire
<1>16. ASSUME NEW w \in Workers, Crash(w)
      PROVE  TypeOK'
  <2>1. worker[w].step = "accepted" => worker[w].id \in Messages
    BY HeldIsMessage DEF Holding
  <2>2. worker' \in [Workers -> WorkerRows]
    BY <1>16, WorkersTyped DEF Crash
  <2> QED
    BY <1>16, <2>1, <2>2 DEF Crash
<1>17. CASE UNCHANGED vars
  BY <1>17 DEF vars
<1> QED
  BY <1>1, <1>2, <1>3, <1>4, <1>5, <1>6, <1>7, <1>8, <1>9, <1>10, <1>11, <1>12, <1>13, <1>14,
     <1>15, <1>16, <1>17 DEF Next, Works

-----------------------------------------------------------------------------
(* The other conjuncts of the invariant, action by action                  *)

\* What an execution knows of its message stays so.
LEMMA WorkersKnowStays ==
    ASSUME OutboxInv, TypeOK', [Next]_vars
    PROVE  WorkersKnow'
<1> USE OutboxAssumption DEF OutboxInv, TypeOK, MailRows, WorkerRows, Holding, WorkersKnow
<1>1. ASSUME NEW m \in Messages, Enqueue(m)
      PROVE  WorkersKnow'
  BY <1>1 DEF Enqueue
<1>2. ASSUME NEW m \in Messages, BecomesVoid(m)
      PROVE  WorkersKnow'
  BY <1>2 DEF BecomesVoid
<1>3. ASSUME NEW m \in Messages, BecomesDue(m)
      PROVE  WorkersKnow'
  BY <1>3 DEF BecomesDue
<1>4. ASSUME NEW m \in Messages, LeaseRunsOut(m)
      PROVE  WorkersKnow'
  BY <1>4 DEF LeaseRunsOut, WorksOn
<1>5. ASSUME NEW w \in Workers, Start(w)
      PROVE  WorkersKnow'
  <2>1. /\ worker[w].step = "idle" /\ worker' = [worker EXCEPT ![w] = AtLoop]
        /\ UNCHANGED <<void, copies, crashes, overrun, unsure>>
    BY <1>5 DEF Start
  <2>2. \A m \in Messages :
           \/ box'[m] = box[m]
           \/ /\ box[m].status = "PROCESSING" /\ box[m].lease = "over"
              /\ box'[m].status = "FAILED" /\ box'[m].attempts = box[m].attempts
    BY <1>5, StartEffect
  <2> QED
    BY <2>1, <2>2
<1>6. ASSUME NEW w \in Workers, Stop(w)
      PROVE  WorkersKnow'
  BY <1>6 DEF Stop
<1>7. ASSUME NEW w \in Workers, NEW m \in Messages, Claim(w, m)
      PROVE  WorkersKnow'
  BY <1>7 DEF Claim, Claimable
<1>8. ASSUME NEW w \in Workers, Load(w)
      PROVE  WorkersKnow'
  BY <1>8 DEF Load, Goes, Fails
<1>9. ASSUME NEW w \in Workers, Look(w)
      PROVE  WorkersKnow'
  BY <1>9 DEF Look, Goes
<1>10. ASSUME NEW w \in Workers, ReadAttempts(w)
      PROVE  WorkersKnow'
  BY <1>10 DEF ReadAttempts
<1>11. ASSUME NEW w \in Workers, StatementFails(w)
      PROVE  WorkersKnow'
  BY <1>11 DEF StatementFails, Fails
<1>12. ASSUME NEW w \in Workers, Send(w)
      PROVE  WorkersKnow'
  <2>1. worker[w].step = "sending" /\ worker[w].id \in Messages /\ void' = void
    BY <1>12 DEF Send
  <2>2. \/ Goes(w, "accepted") /\ copies' = [copies EXCEPT ![worker[w].id] = @ + 1]
        \/ /\ \E final \in BOOLEAN : Fails(w, final)
           /\ copies' = copies \/ copies' = [copies EXCEPT ![worker[w].id] = @ + 1]
    <3>1. FALSE \in BOOLEAN
      OBVIOUS
    <3> QED
      BY <1>12, <3>1, Zenon DEF Send
  <2>3. \A m \in Messages : copies[m] > 0 => copies'[m] > 0
    BY <2>1, <2>2 DEF TypeOK
  <2>4. CASE Goes(w, "accepted") /\ copies' = [copies EXCEPT ![worker[w].id] = @ + 1]
    <3>1. copies'[worker[w].id] > 0
      BY <2>1, <2>4 DEF TypeOK
    <3> QED
      BY <2>1, <2>3, <2>4, <3>1 DEF Goes
  <2>5. ASSUME NEW final \in BOOLEAN, Fails(w, final)
        PROVE  WorkersKnow'
    BY <2>1, <2>3, <2>5 DEF Fails
  <2> QED
    BY <2>2, <2>4, <2>5
<1>13. ASSUME NEW w \in Workers, Skip(w)
      PROVE  WorkersKnow'
  BY <1>13 DEF Skip, Leave
<1>14. ASSUME NEW w \in Workers, MarkSent(w)
      PROVE  WorkersKnow'
  BY <1>14 DEF MarkSent, Leave
<1>15. ASSUME NEW w \in Workers, Retire(w)
      PROVE  WorkersKnow'
  <2>1. CASE Leave(w, "FAILED", TRUE)
    BY <1>15, <2>1 DEF Retire, Leave
  <2>2. CASE Leave(w, "PENDING", FALSE)
    BY <1>15, <2>2 DEF Retire, Leave
  <2> QED
    BY <1>15, <2>1, <2>2 DEF Retire
<1>16. ASSUME NEW w \in Workers, Crash(w)
      PROVE  WorkersKnow'
  BY <1>16 DEF Crash
<1>17. CASE UNCHANGED vars
  BY <1>17 DEF vars
<1> QED
  BY <1>1, <1>2, <1>3, <1>4, <1>5, <1>6, <1>7, <1>8, <1>9,
     <1>10, <1>11, <1>12, <1>13, <1>14, <1>15, <1>16, <1>17 DEF Next, Works

\* A lease stays with one execution.
LEMMA LeaseStays ==
    ASSUME OutboxInv, TypeOK', [Next]_vars
    PROVE  LeaseIsALock'
<1> USE OutboxAssumption DEF OutboxInv, TypeOK, MailRows, WorkerRows,
                                  Holding, WorkersKnow, LeaseIsALock, WorksOn
<1>1. ASSUME NEW m \in Messages, Enqueue(m)
      PROVE  LeaseIsALock'
  BY <1>1 DEF Enqueue
<1>2. ASSUME NEW m \in Messages, BecomesVoid(m)
      PROVE  LeaseIsALock'
  BY <1>2 DEF BecomesVoid
<1>3. ASSUME NEW m \in Messages, BecomesDue(m)
      PROVE  LeaseIsALock'
  BY <1>3 DEF BecomesDue
<1>4. ASSUME NEW m \in Messages, LeaseRunsOut(m)
      PROVE  LeaseIsALock'
  BY <1>4 DEF LeaseRunsOut, WorksOn
<1>5. ASSUME NEW w \in Workers, Start(w)
      PROVE  LeaseIsALock'
  <2>1. /\ worker[w].step = "idle" /\ worker' = [worker EXCEPT ![w] = AtLoop]
        /\ UNCHANGED <<void, copies, crashes, overrun, unsure>>
    BY <1>5 DEF Start
  <2>2. \A m \in Messages :
           \/ box'[m] = box[m]
           \/ /\ box[m].status = "PROCESSING" /\ box[m].lease = "over"
              /\ box'[m].status = "FAILED" /\ box'[m].attempts = box[m].attempts
    BY <1>5, StartEffect
  <2> QED
    BY <2>1, <2>2
<1>6. ASSUME NEW w \in Workers, Stop(w)
      PROVE  LeaseIsALock'
  BY <1>6 DEF Stop
<1>7. ASSUME NEW w \in Workers, NEW m \in Messages, Claim(w, m)
      PROVE  LeaseIsALock'
  BY <1>7 DEF Claim, Claimable
<1>8. ASSUME NEW w \in Workers, Load(w)
      PROVE  LeaseIsALock'
  BY <1>8 DEF Load, Goes, Fails
<1>9. ASSUME NEW w \in Workers, Look(w)
      PROVE  LeaseIsALock'
  BY <1>9 DEF Look, Goes
<1>10. ASSUME NEW w \in Workers, ReadAttempts(w)
      PROVE  LeaseIsALock'
  BY <1>10 DEF ReadAttempts
<1>11. ASSUME NEW w \in Workers, StatementFails(w)
      PROVE  LeaseIsALock'
  BY <1>11 DEF StatementFails, Fails
<1>12. ASSUME NEW w \in Workers, Send(w)
      PROVE  LeaseIsALock'
  BY <1>12 DEF Send, Goes, Fails
<1>13. ASSUME NEW w \in Workers, Skip(w)
      PROVE  LeaseIsALock'
  BY <1>13 DEF Skip, Leave
<1>14. ASSUME NEW w \in Workers, MarkSent(w)
      PROVE  LeaseIsALock'
  BY <1>14 DEF MarkSent, Leave
<1>15. ASSUME NEW w \in Workers, Retire(w)
      PROVE  LeaseIsALock'
  <2>1. CASE Leave(w, "FAILED", TRUE)
    BY <1>15, <2>1 DEF Retire, Leave
  <2>2. CASE Leave(w, "PENDING", FALSE)
    BY <1>15, <2>2 DEF Retire, Leave
  <2> QED
    BY <1>15, <2>1, <2>2 DEF Retire
<1>16. ASSUME NEW w \in Workers, Crash(w)
      PROVE  LeaseIsALock'
  BY <1>16 DEF Crash
<1>17. CASE UNCHANGED vars
  BY <1>17 DEF vars
<1> QED
  BY <1>1, <1>2, <1>3, <1>4, <1>5, <1>6, <1>7, <1>8, <1>9,
     <1>10, <1>11, <1>12, <1>13, <1>14, <1>15, <1>16, <1>17 DEF Next, Works

\* Every copy goes on being accounted for.
LEMMA AccountedStays ==
    ASSUME OutboxInv, TypeOK', [Next]_vars
    PROVE  CopiesAccounted'
<1> USE OutboxAssumption DEF OutboxInv, TypeOK, MailRows, WorkerRows,
                                  Holding, WorkersKnow, LeaseIsALock, WorksOn, CopiesAccounted
<1>1. ASSUME NEW m \in Messages, Enqueue(m)
      PROVE  CopiesAccounted'
  BY <1>1 DEF Enqueue
<1>2. ASSUME NEW m \in Messages, BecomesVoid(m)
      PROVE  CopiesAccounted'
  BY <1>2 DEF BecomesVoid
<1>3. ASSUME NEW m \in Messages, BecomesDue(m)
      PROVE  CopiesAccounted'
  BY <1>3 DEF BecomesDue
<1>4. ASSUME NEW m \in Messages, LeaseRunsOut(m)
      PROVE  CopiesAccounted'
  BY <1>4 DEF LeaseRunsOut, WorksOn
<1>5. ASSUME NEW w \in Workers, Start(w)
      PROVE  CopiesAccounted'
  <2>1. /\ worker[w].step = "idle" /\ worker' = [worker EXCEPT ![w] = AtLoop]
        /\ UNCHANGED <<void, copies, crashes, overrun, unsure>>
    BY <1>5 DEF Start
  <2>2. \A m \in Messages :
           \/ box'[m] = box[m]
           \/ /\ box[m].status = "PROCESSING" /\ box[m].lease = "over"
              /\ box'[m].status = "FAILED" /\ box'[m].attempts = box[m].attempts
    BY <1>5, StartEffect
  <2> QED
    BY <2>1, <2>2
<1>6. ASSUME NEW w \in Workers, Stop(w)
      PROVE  CopiesAccounted'
  BY <1>6 DEF Stop
<1>7. ASSUME NEW w \in Workers, NEW m \in Messages, Claim(w, m)
      PROVE  CopiesAccounted'
  BY <1>7 DEF Claim, Claimable
<1>8. ASSUME NEW w \in Workers, Load(w)
      PROVE  CopiesAccounted'
  BY <1>8 DEF Load, Goes, Fails
<1>9. ASSUME NEW w \in Workers, Look(w)
      PROVE  CopiesAccounted'
  BY <1>9 DEF Look, Goes
<1>10. ASSUME NEW w \in Workers, ReadAttempts(w)
      PROVE  CopiesAccounted'
  BY <1>10 DEF ReadAttempts
<1>11. ASSUME NEW w \in Workers, StatementFails(w)
      PROVE  CopiesAccounted'
  BY <1>11 DEF StatementFails, Fails
<1>12. ASSUME NEW w \in Workers, Send(w)
      PROVE  CopiesAccounted'
  BY <1>12 DEF Send, Goes, Fails
<1>13. ASSUME NEW w \in Workers, Skip(w)
      PROVE  CopiesAccounted'
  BY <1>13 DEF Skip, Leave
<1>14. ASSUME NEW w \in Workers, MarkSent(w)
      PROVE  CopiesAccounted'
  BY <1>14 DEF MarkSent, Leave
<1>15. ASSUME NEW w \in Workers, Retire(w)
      PROVE  CopiesAccounted'
  <2>1. CASE Leave(w, "FAILED", TRUE)
    BY <1>15, <2>1 DEF Retire, Leave
  <2>2. CASE Leave(w, "PENDING", FALSE)
    BY <1>15, <2>2 DEF Retire, Leave
  <2> QED
    BY <1>15, <2>1, <2>2 DEF Retire
<1>16. ASSUME NEW w \in Workers, Crash(w)
      PROVE  CopiesAccounted'
  BY <1>16 DEF Crash
<1>17. CASE UNCHANGED vars
  BY <1>17 DEF vars
<1> QED
  BY <1>1, <1>2, <1>3, <1>4, <1>5, <1>6, <1>7, <1>8, <1>9,
     <1>10, <1>11, <1>12, <1>13, <1>14, <1>15, <1>16, <1>17 DEF Next, Works

\* The outcome of a message goes on being true.
LEMMA OutcomeStays ==
    ASSUME OutboxInv, TypeOK', [Next]_vars
    PROVE  OutcomeIsTrue'
<1> USE OutboxAssumption DEF OutboxInv, TypeOK, MailRows, WorkerRows,
                                  Holding, WorkersKnow, LeaseIsALock, WorksOn, CopiesAccounted, OutcomeIsTrue
<1>1. ASSUME NEW m \in Messages, Enqueue(m)
      PROVE  OutcomeIsTrue'
  BY <1>1 DEF Enqueue
<1>2. ASSUME NEW m \in Messages, BecomesVoid(m)
      PROVE  OutcomeIsTrue'
  BY <1>2 DEF BecomesVoid
<1>3. ASSUME NEW m \in Messages, BecomesDue(m)
      PROVE  OutcomeIsTrue'
  BY <1>3 DEF BecomesDue
<1>4. ASSUME NEW m \in Messages, LeaseRunsOut(m)
      PROVE  OutcomeIsTrue'
  BY <1>4 DEF LeaseRunsOut, WorksOn
<1>5. ASSUME NEW w \in Workers, Start(w)
      PROVE  OutcomeIsTrue'
  <2>1. /\ worker[w].step = "idle" /\ worker' = [worker EXCEPT ![w] = AtLoop]
        /\ UNCHANGED <<void, copies, crashes, overrun, unsure>>
    BY <1>5 DEF Start
  <2>2. \A m \in Messages :
           \/ box'[m] = box[m]
           \/ /\ box[m].status = "PROCESSING" /\ box[m].lease = "over"
              /\ box'[m].status = "FAILED" /\ box'[m].attempts = box[m].attempts
    BY <1>5, StartEffect
  <2> QED
    BY <2>1, <2>2
<1>6. ASSUME NEW w \in Workers, Stop(w)
      PROVE  OutcomeIsTrue'
  BY <1>6 DEF Stop
<1>7. ASSUME NEW w \in Workers, NEW m \in Messages, Claim(w, m)
      PROVE  OutcomeIsTrue'
  BY <1>7 DEF Claim, Claimable
<1>8. ASSUME NEW w \in Workers, Load(w)
      PROVE  OutcomeIsTrue'
  BY <1>8 DEF Load, Goes, Fails
<1>9. ASSUME NEW w \in Workers, Look(w)
      PROVE  OutcomeIsTrue'
  BY <1>9 DEF Look, Goes
<1>10. ASSUME NEW w \in Workers, ReadAttempts(w)
      PROVE  OutcomeIsTrue'
  BY <1>10 DEF ReadAttempts
<1>11. ASSUME NEW w \in Workers, StatementFails(w)
      PROVE  OutcomeIsTrue'
  BY <1>11 DEF StatementFails, Fails
<1>12. ASSUME NEW w \in Workers, Send(w)
      PROVE  OutcomeIsTrue'
  BY <1>12 DEF Send, Goes, Fails
<1>13. ASSUME NEW w \in Workers, Skip(w)
      PROVE  OutcomeIsTrue'
  BY <1>13 DEF Skip, Leave
<1>14. ASSUME NEW w \in Workers, MarkSent(w)
      PROVE  OutcomeIsTrue'
  BY <1>14 DEF MarkSent, Leave
<1>15. ASSUME NEW w \in Workers, Retire(w)
      PROVE  OutcomeIsTrue'
  <2>1. CASE Leave(w, "FAILED", TRUE)
    BY <1>15, <2>1 DEF Retire, Leave
  <2>2. CASE Leave(w, "PENDING", FALSE)
    BY <1>15, <2>2 DEF Retire, Leave
  <2> QED
    BY <1>15, <2>1, <2>2 DEF Retire
<1>16. ASSUME NEW w \in Workers, Crash(w)
      PROVE  OutcomeIsTrue'
  BY <1>16 DEF Crash
<1>17. CASE UNCHANGED vars
  BY <1>17 DEF vars
<1> QED
  BY <1>1, <1>2, <1>3, <1>4, <1>5, <1>6, <1>7, <1>8, <1>9,
     <1>10, <1>11, <1>12, <1>13, <1>14, <1>15, <1>16, <1>17 DEF Next, Works

\* Without a new copy the count stays.
LEMMA CountKept ==
    ASSUME OutboxInv, TypeOK', copies' = copies,
           \A m \in Messages : /\ box'[m].attempts = box[m].attempts
                               /\ YetToSend(m)' \subseteq YetToSend(m)
    PROVE  OneCopyPerClaim'
<1> SUFFICES ASSUME NEW m \in Messages
             PROVE  /\ copies'[m] + Cardinality(YetToSend(m)') <= box'[m].attempts
                    /\ box'[m].attempts <= MaxAttempts
  BY DEF OneCopyPerClaim
<1>1. /\ Cardinality(YetToSend(m)') \in Nat
      /\ Cardinality(YetToSend(m)') <= Cardinality(YetToSend(m))
  BY FewerToSend
<1>2. Cardinality(YetToSend(m)) \in Nat
  BY YetToSendFinite
<1>3. /\ copies[m] + Cardinality(YetToSend(m)) <= box[m].attempts
      /\ box[m].attempts <= MaxAttempts
  BY DEF OutboxInv, OneCopyPerClaim
<1>4. copies[m] \in Nat /\ box[m].attempts \in Nat
  BY DEF OutboxInv, TypeOK, MailRows
<1> QED
  BY <1>1, <1>2, <1>3, <1>4

\* Every step keeps one copy for a claim.
LEMMA CountStays ==
    ASSUME OutboxInv, TypeOK', [Next]_vars
    PROVE  OneCopyPerClaim'
<1> USE OutboxAssumption DEF OutboxInv, TypeOK, MailRows, WorkerRows, Holding, WorkersKnow
<1>1. ASSUME NEW m \in Messages, Enqueue(m)
      PROVE  OneCopyPerClaim'
  <2>1. copies' = copies /\ \A n \in Messages : box'[n].attempts = box[n].attempts
    BY <1>1 DEF Enqueue
  <2>2. \A n \in Messages : YetToSend(n)' \subseteq YetToSend(n)
    BY <1>1 DEF Enqueue, YetToSend
  <2> QED
    BY <2>1, <2>2, CountKept
<1>2. ASSUME NEW m \in Messages, BecomesVoid(m)
      PROVE  OneCopyPerClaim'
  <2>1. copies' = copies /\ \A n \in Messages : box'[n].attempts = box[n].attempts
    BY <1>2 DEF BecomesVoid
  <2>2. \A n \in Messages : YetToSend(n)' \subseteq YetToSend(n)
    BY <1>2 DEF BecomesVoid, YetToSend
  <2> QED
    BY <2>1, <2>2, CountKept
<1>3. ASSUME NEW m \in Messages, BecomesDue(m)
      PROVE  OneCopyPerClaim'
  <2>1. copies' = copies /\ \A n \in Messages : box'[n].attempts = box[n].attempts
    BY <1>3 DEF BecomesDue
  <2>2. \A n \in Messages : YetToSend(n)' \subseteq YetToSend(n)
    BY <1>3 DEF BecomesDue, YetToSend
  <2> QED
    BY <2>1, <2>2, CountKept
<1>4. ASSUME NEW m \in Messages, LeaseRunsOut(m)
      PROVE  OneCopyPerClaim'
  <2>1. copies' = copies /\ \A n \in Messages : box'[n].attempts = box[n].attempts
    BY <1>4 DEF LeaseRunsOut, WorksOn
  <2>2. \A n \in Messages : YetToSend(n)' \subseteq YetToSend(n)
    BY <1>4 DEF LeaseRunsOut, WorksOn, YetToSend
  <2> QED
    BY <2>1, <2>2, CountKept
<1>5. ASSUME NEW w \in Workers, Start(w)
      PROVE  OneCopyPerClaim'
  <2>1. /\ copies' = copies /\ worker[w].step = "idle"
        /\ worker' = [worker EXCEPT ![w] = AtLoop]
    BY <1>5 DEF Start
  <2>2. \A m \in Messages : box'[m].attempts = box[m].attempts
    BY <1>5, StartEffect
  <2>3. \A m \in Messages : YetToSend(m)' \subseteq YetToSend(m)
    BY <2>1 DEF YetToSend
  <2> QED
    BY <2>1, <2>2, <2>3, CountKept
<1>6. ASSUME NEW w \in Workers, Stop(w)
      PROVE  OneCopyPerClaim'
  <2>1. copies' = copies /\ \A m \in Messages : box'[m].attempts = box[m].attempts
    BY <1>6 DEF Stop
  <2>2. \A m \in Messages : YetToSend(m)' \subseteq YetToSend(m)
    BY <1>6 DEF Stop, YetToSend
  <2> QED
    BY <2>1, <2>2, CountKept
<1>7. ASSUME NEW w \in Workers, NEW m \in Messages, Claim(w, m)
      PROVE  OneCopyPerClaim'
  <2>1. /\ worker' = [worker EXCEPT ![w] = [Resting EXCEPT !.step = "claimed", !.id = m]]
        /\ box[m].attempts < MaxAttempts /\ copies' = copies
        /\ box'[m].attempts = box[m].attempts + 1
        /\ \A n \in Messages \ {m} : box'[n] = box[n]
    BY <1>7 DEF Claim, Claimable
  <2>2. YetToSend(m)' \subseteq YetToSend(m) \cup {w}
    BY <2>1 DEF YetToSend
  <2>3. \A n \in Messages \ {m} : YetToSend(n)' \subseteq YetToSend(n)
    BY <2>1 DEF YetToSend
  <2>4. ASSUME NEW n \in Messages
        PROVE  /\ copies'[n] + Cardinality(YetToSend(n)') <= box'[n].attempts
               /\ box'[n].attempts <= MaxAttempts
    <3>1. /\ copies[n] + Cardinality(YetToSend(n)) <= box[n].attempts
          /\ box[n].attempts <= MaxAttempts /\ copies[n] \in Nat /\ box[n].attempts \in Nat
          /\ Cardinality(YetToSend(n)) \in Nat
      BY YetToSendFinite DEF OneCopyPerClaim
    <3>2. CASE n = m
      <4>1. /\ Cardinality(YetToSend(n)') \in Nat
            /\ Cardinality(YetToSend(n)') <= Cardinality(YetToSend(n)) + 1
        BY <2>2, <3>2, OneClaimed
      <4> QED
        BY <2>1, <3>1, <3>2, <4>1
    <3>3. CASE n # m
      <4>1. /\ Cardinality(YetToSend(n)') \in Nat
            /\ Cardinality(YetToSend(n)') <= Cardinality(YetToSend(n))
        BY <2>3, <3>3, FewerToSend
      <4> QED
        BY <2>1, <3>1, <3>3, <4>1
    <3> QED
      BY <3>2, <3>3
  <2> QED
    BY <2>4 DEF OneCopyPerClaim
<1>8. ASSUME NEW w \in Workers, Load(w)
      PROVE  OneCopyPerClaim'
  <2>1. copies' = copies /\ \A m \in Messages : box'[m].attempts = box[m].attempts
    BY <1>8 DEF Load, Goes, Fails
  <2>2. \A m \in Messages : YetToSend(m)' \subseteq YetToSend(m)
    BY <1>8 DEF Load, Goes, Fails, YetToSend
  <2> QED
    BY <2>1, <2>2, CountKept
<1>9. ASSUME NEW w \in Workers, Look(w)
      PROVE  OneCopyPerClaim'
  <2>1. copies' = copies /\ \A m \in Messages : box'[m].attempts = box[m].attempts
    BY <1>9 DEF Look, Goes
  <2>2. \A m \in Messages : YetToSend(m)' \subseteq YetToSend(m)
    BY <1>9 DEF Look, Goes, YetToSend
  <2> QED
    BY <2>1, <2>2, CountKept
<1>10. ASSUME NEW w \in Workers, ReadAttempts(w)
      PROVE  OneCopyPerClaim'
  <2>1. copies' = copies /\ \A m \in Messages : box'[m].attempts = box[m].attempts
    BY <1>10 DEF ReadAttempts
  <2>2. \A m \in Messages : YetToSend(m)' \subseteq YetToSend(m)
    BY <1>10 DEF ReadAttempts, YetToSend
  <2> QED
    BY <2>1, <2>2, CountKept
<1>11. ASSUME NEW w \in Workers, StatementFails(w)
      PROVE  OneCopyPerClaim'
  <2>1. copies' = copies /\ \A m \in Messages : box'[m].attempts = box[m].attempts
    BY <1>11 DEF StatementFails, Fails
  <2>2. \A m \in Messages : YetToSend(m)' \subseteq YetToSend(m)
    BY <1>11 DEF StatementFails, Fails, YetToSend
  <2> QED
    BY <2>1, <2>2, CountKept
<1>12. ASSUME NEW w \in Workers, Send(w)
      PROVE  OneCopyPerClaim'
  <2> DEFINE m == worker[w].id
  <2>1. m \in Messages /\ worker[w].step = "sending" /\ box' = box
    BY <1>12 DEF Send, WorkersKnow
  <2>2. \A n \in Messages : YetToSend(n)' \subseteq YetToSend(n) \ {w}
    BY <1>12 DEF Send, Goes, Fails, YetToSend
  <2>3. CASE copies' = copies
    BY <2>1, <2>2, <2>3, CountKept
  <2>4. CASE copies' = [copies EXCEPT ![m] = @ + 1]
    <3> SUFFICES ASSUME NEW n \in Messages
                 PROVE  /\ copies'[n] + Cardinality(YetToSend(n)') <= box'[n].attempts
                        /\ box'[n].attempts <= MaxAttempts
      BY DEF OneCopyPerClaim
    <3>1. /\ copies[n] + Cardinality(YetToSend(n)) <= box[n].attempts
          /\ box[n].attempts <= MaxAttempts /\ copies[n] \in Nat /\ box[n].attempts \in Nat
          /\ Cardinality(YetToSend(n)) \in Nat
      BY YetToSendFinite DEF OneCopyPerClaim
    <3>2. CASE n = m
      <4>1. w \in YetToSend(n)
        BY <2>1, <3>2 DEF YetToSend
      <4>2. /\ Cardinality(YetToSend(n)') \in Nat
            /\ Cardinality(YetToSend(n)') + 1 <= Cardinality(YetToSend(n))
        BY <2>2, <4>1, OneSent
      <4> QED
        BY <2>1, <2>4, <3>1, <3>2, <4>2
    <3>3. CASE n # m
      <4>1. /\ Cardinality(YetToSend(n)') \in Nat
            /\ Cardinality(YetToSend(n)') <= Cardinality(YetToSend(n))
        BY <2>2, FewerToSend
      <4> QED
        BY <2>1, <2>4, <3>1, <3>3, <4>1
    <3> QED
      BY <3>2, <3>3
  <2> QED
    BY <1>12, <2>3, <2>4 DEF Send
<1>13. ASSUME NEW w \in Workers, Skip(w)
      PROVE  OneCopyPerClaim'
  <2>1. copies' = copies /\ \A m \in Messages : box'[m].attempts = box[m].attempts
    BY <1>13 DEF Skip, Leave
  <2>2. \A m \in Messages : YetToSend(m)' \subseteq YetToSend(m)
    BY <1>13 DEF Skip, Leave, YetToSend
  <2> QED
    BY <2>1, <2>2, CountKept
<1>14. ASSUME NEW w \in Workers, MarkSent(w)
      PROVE  OneCopyPerClaim'
  <2>1. copies' = copies /\ \A m \in Messages : box'[m].attempts = box[m].attempts
    BY <1>14 DEF MarkSent, Leave
  <2>2. \A m \in Messages : YetToSend(m)' \subseteq YetToSend(m)
    BY <1>14 DEF MarkSent, Leave, YetToSend
  <2> QED
    BY <2>1, <2>2, CountKept
<1>15. ASSUME NEW w \in Workers, Retire(w)
      PROVE  OneCopyPerClaim'
  <2>1. copies' = copies /\ \A m \in Messages : box'[m].attempts = box[m].attempts
        /\ worker' = [worker EXCEPT ![w] = Again]
    <3>1. CASE Leave(w, "FAILED", TRUE)
      BY <3>1 DEF Leave
    <3>2. CASE Leave(w, "PENDING", FALSE)
      BY <3>2 DEF Leave
    <3> QED
      BY <1>15, <3>1, <3>2 DEF Retire
  <2>2. \A m \in Messages : YetToSend(m)' \subseteq YetToSend(m)
    <3>1. ASSUME NEW m \in Messages, NEW v \in YetToSend(m)'
          PROVE  v \in YetToSend(m)
      <4>1. v # w
        BY <2>1, <3>1 DEF YetToSend, TypeOK
      <4> QED
        BY <2>1, <3>1, <4>1 DEF YetToSend
    <3> QED
      BY <3>1
  <2> QED
    BY <2>1, <2>2, CountKept
<1>16. ASSUME NEW w \in Workers, Crash(w)
      PROVE  OneCopyPerClaim'
  <2>1. copies' = copies /\ \A m \in Messages : box'[m].attempts = box[m].attempts
    BY <1>16 DEF Crash
  <2>2. \A m \in Messages : YetToSend(m)' \subseteq YetToSend(m)
    BY <1>16 DEF Crash, YetToSend
  <2> QED
    BY <2>1, <2>2, CountKept
<1>17. CASE UNCHANGED vars
  <2>1. copies' = copies /\ box' = box /\ worker' = worker
    BY <1>17 DEF vars
  <2>2. \A m \in Messages : YetToSend(m)' \subseteq YetToSend(m)
    BY <2>1 DEF YetToSend
  <2> QED
    BY <2>1, <2>2, CountKept
<1> QED
  BY <1>1, <1>2, <1>3, <1>4, <1>5, <1>6, <1>7, <1>8, <1>9,
     <1>10, <1>11, <1>12, <1>13, <1>14, <1>15, <1>16, <1>17 DEF Next, Works

-----------------------------------------------------------------------------
(* The theorems                                                             *)

\* At the start the invariant holds.
LEMMA InvInitially ==
    ASSUME Init
    PROVE  OutboxInv
<1> USE OutboxAssumption
<1>1. TypeOK
  <2>1. NoMail \in MailRows
    BY DEF MailRows
  <2> QED
    BY <2>1, WorkersTyped DEF Init, TypeOK
<1>2. OneCopyPerClaim
  <2>1. \A m \in Messages : YetToSend(m) = {}
    BY DEF Init, YetToSend
  <2>2. Cardinality({}) = 0
    BY FS_EmptySet
  <2>3. \A m \in Messages : copies[m] = 0 /\ box[m].attempts = 0
    BY DEF Init
  <2>4. MaxAttempts \in Nat
    OBVIOUS
  <2> QED
    <3>1. \A m \in Messages : Cardinality(YetToSend(m)) = 0
      BY <2>1, <2>2
    <3> QED
      BY <2>3, <2>4, <3>1 DEF OneCopyPerClaim
<1>3. WorkersKnow /\ LeaseIsALock /\ CopiesAccounted /\ OutcomeIsTrue
  BY DEF Init, WorkersKnow, Holding, LeaseIsALock, WorksOn, CopiesAccounted, OutcomeIsTrue
<1> QED
  BY <1>1, <1>2, <1>3 DEF OutboxInv

\* The invariant of the outbox: every claim accounts for at most one copy, a lease
\* that is not outlived is a lock, and where nothing went wrong each copy is known
\* to its row or to the execution that is about to mark it (email-outbox.ts).
THEOREM InvariantHolds == Spec => []OutboxInv
<1>1. Init => OutboxInv
  BY InvInitially
<1>2. OutboxInv /\ [Next]_vars => OutboxInv'
  <2> SUFFICES ASSUME OutboxInv, [Next]_vars
               PROVE  OutboxInv'
    OBVIOUS
  <2>1. TypeOK'
    BY TypesStay DEF OutboxInv
  <2> QED
    BY <2>1, CountStays, WorkersKnowStays, LeaseStays, AccountedStays, OutcomeStays DEF OutboxInv
<1> QED
  BY <1>1, <1>2, PTL DEF Spec

\* Type correctness of the outbox.
THEOREM TypesHold == Spec => []TypeOK
<1>1. OutboxInv => TypeOK
  BY DEF OutboxInv
<1> QED
  BY <1>1, InvariantHolds, PTL

\* No message is accepted by the provider more often than MAX_ATTEMPTS, whatever
\* leases are outlived and whatever executions die (claimNext counts first).
THEOREM CopiesStayBounded == Spec => []CopiesBounded
<1>1. OutboxInv => CopiesBounded
  <2> SUFFICES ASSUME OutboxInv, NEW m \in Messages
               PROVE  copies[m] <= box[m].attempts /\ box[m].attempts <= MaxAttempts
    BY DEF CopiesBounded
  <2>1. /\ copies[m] \in Nat /\ box[m].attempts \in Nat
        /\ Cardinality(YetToSend(m)) \in Nat
    BY YetToSendFinite DEF OutboxInv, TypeOK, MailRows
  <2> QED
    BY <2>1 DEF OutboxInv, OneCopyPerClaim
<1> QED
  BY <1>1, InvariantHolds, PTL

\* While no lease is outlived, one execution at a time works on a message.
THEOREM LeaseLocks == Spec => []LeaseIsALock
<1>1. OutboxInv => LeaseIsALock
  BY DEF OutboxInv
<1> QED
  BY <1>1, InvariantHolds, PTL

\* A message is sent again only when its row could not know that it was accepted, or
\* after a lease was outlived, and never more often than MAX_ATTEMPTS.
THEOREM SentAgainIsExcused == Spec => []SentAgainOnlyIfUnsure
<1>1. OutboxInv /\ CopiesBounded => SentAgainOnlyIfUnsure
  <2> SUFFICES ASSUME OutboxInv, NEW m \in Messages \ (overrun \cup unsure)
               PROVE  ~(copies[m] > 1)
    BY DEF SentAgainOnlyIfUnsure
  <2> QED
    BY DEF OutboxInv, TypeOK, CopiesAccounted
<1> QED
  BY <1>1, InvariantHolds, CopiesStayBounded, PTL

\* SENT means accepted, SKIPPED means void, and no message that was certainly
\* accepted waits to be sent.
THEOREM OutcomesAreTrue == Spec => []OutcomeIsTrue
<1>1. OutboxInv => OutcomeIsTrue
  BY DEF OutboxInv
<1> QED
  BY <1>1, InvariantHolds, PTL

\* A step leaves a message that ended, unless its lease ran over.
LEMMA EndsStayInStep ==
    ASSUME OutboxInv, [Next]_vars, NEW m \in Messages \ overrun', box[m].status \in Ends
    PROVE  box'[m].status = box[m].status
<1> USE OutboxAssumption DEF OutboxInv, TypeOK, MailRows
<1>1. \A w \in Workers : worker[w].id # m
  <2>1. m \notin overrun
    BY DEF Next, Works, Enqueue, BecomesVoid, BecomesDue, LeaseRunsOut, Start, Stop, Claim,
           Load, Look, Send, Skip, MarkSent, Retire, Leave, ReadAttempts, StatementFails,
           Crash, vars
  <2> QED
    BY <2>1 DEF LeaseIsALock, WorksOn
<1>2. ASSUME NEW w \in Workers, NEW status, NEW due, Leave(w, status, due)
      PROVE  box'[m] = box[m]
  BY <1>1, <1>2 DEF Leave
<1>3. ASSUME NEW n \in Messages, Enqueue(n) \/ BecomesVoid(n) \/ BecomesDue(n) \/ LeaseRunsOut(n)
      PROVE  box'[m].status = box[m].status
  BY <1>3 DEF Enqueue, BecomesVoid, BecomesDue, LeaseRunsOut
<1>4. ASSUME NEW w \in Workers, Start(w)
      PROVE  box'[m].status = box[m].status
  BY <1>4, StartEffect
<1>5. ASSUME NEW w \in Workers, NEW n \in Messages, Claim(w, n)
      PROVE  box'[m].status = box[m].status
  BY <1>5 DEF Claim, Claimable
<1>6. ASSUME NEW w \in Workers, Skip(w) \/ MarkSent(w) \/ Retire(w)
      PROVE  box'[m].status = box[m].status
  BY <1>2, <1>6 DEF Skip, MarkSent, Retire
<1>7. ASSUME NEW w \in Workers, Stop(w) \/ Load(w) \/ Look(w) \/ Send(w) \/ ReadAttempts(w)
                                \/ StatementFails(w) \/ Crash(w)
      PROVE  box'[m].status = box[m].status
  BY <1>7 DEF Stop, Load, Look, Send, ReadAttempts, StatementFails, Crash
<1>8. CASE UNCHANGED vars
  BY <1>8 DEF vars
<1> QED
  BY <1>3, <1>4, <1>5, <1>6, <1>7, <1>8 DEF Next, Works

\* SENT, SKIPPED and FAILED are final while no lease is outlived.
THEOREM EndedStays == Spec => EndsStay
<1>1. OutboxInv /\ [Next]_vars =>
         [\A m \in Messages \ overrun' :
             box[m].status \in Ends => box'[m].status = box[m].status]_vars
  BY EndsStayInStep
<1> QED
  BY <1>1, InvariantHolds, PTL DEF Spec, EndsStay

(***************************************************************************)
(* Dashboard                                                               *)
(***************************************************************************)
Places == Slots \cup {FirstSlot}
Puts == [slot : Places, by : {"import", "other", "me"},
         kind : {"first", "move", "edit", "undo", "form"}]
RowType == [slot : Places, version : Nat]

\* the row was true of the card at its version
Placed(c, r) ==
    /\ r \in RowType /\ c \in D!BoardCards
    /\ r.version <= D!Version(c) /\ r.slot = log[c][r.version + 1].slot
RowsTrue(rows) == \A c \in DOMAIN rows : Placed(c, rows[c])
\* rows of the board of the request, all read since
RowsSince(since, rows, request) ==
    /\ DOMAIN rows = D!CardsOf(request.board)
    /\ \A c \in DOMAIN rows : since[c] <= rows[c].version
\* the version next to n of the card is a move of the clerk away from this place
OwnMove(c, n, to) ==
    /\ c \in Histories /\ n \in Nat \ {0} /\ n <= D!Version(c) /\ to \in Places
    /\ log[c][n + 1].by = "me" /\ log[c][n + 1].kind = "move" /\ to = log[c][n].slot

LogOK == log \in [D!BoardCards -> Seq(Puts)] /\ \A c \in D!BoardCards : Len(log[c]) >= 1

ScreenIsRecord(x) ==
    x = [at |-> x.at, reads |-> x.reads, writes |-> x.writes, loading |-> x.loading,
         failed |-> x.failed, asked |-> x.asked, since |-> x.since, of |-> x.of,
         shown |-> x.shown, editor |-> x.editor, drag |-> x.drag, undo |-> x.undo]

EditorOK(e) ==
    e = D!None \/ (e = [kind |-> e.kind, card |-> e.card, busy |-> e.busy] /\ e.card \in Lives)
DragOK(d) ==
    d = D!None \/ (d.context \in D!Contexts /\ Placed(d.card, d.row))
UndoOK(u) == u = D!None \/ OwnMove(u.card, u.expected, u.to)

ScreenOK(x) ==
    /\ ScreenIsRecord(x)
    /\ x.at \in D!Contexts /\ x.asked \in Nat
    /\ x.reads \in BOOLEAN /\ x.loading \in BOOLEAN /\ x.failed \in BOOLEAN
    /\ x.since \in [D!BoardCards -> Int]
    /\ \A c \in D!BoardCards : x.since[c] <= D!Version(c)
    /\ RowsTrue(x.shown)
    /\ EditorOK(x.editor) /\ DragOK(x.drag) /\ UndoOK(x.undo)

AtRest(x) ==
    x.reads /\ ~x.loading /\ ~x.failed =>
        x.of = D!Request(x.at) /\ RowsSince(x.since, x.shown, x.of)

PreloadIsRecord(p) ==
    p = [seed |-> p.seed, props |-> p.props, refreshed |-> p.refreshed, key |-> p.key,
         invalidated |-> p.invalidated]
\* what is remembered of the seed is the last run of the load effect, and a seed that
\* may still be taken is that of the document, before the first refresh
PreloadOK(x, p) ==
    /\ PreloadIsRecord(p) /\ p.key = D!RequestKey(x, p)
    /\ ~p.invalidated => ~p.refreshed /\ p.props = "document"

LoadIsRecord(l) == l = [n |-> l.n, request |-> l.request, rows |-> l.rows, stage |-> l.stage]

LoadsKnown(asked) ==
    \A l \in loads : /\ LoadIsRecord(l) /\ l.n \in 1 .. asked /\ RowsTrue(l.rows)
                     /\ l.stage \in {"sent", "read"}
LoadsAsked(x) ==
    \A l \in loads : l.n = x.asked =>
        /\ l.request = D!Request(x.at)
        /\ l.stage = "read" => RowsSince(x.since, l.rows, l.request)

SaveOK ==
    save = D!None \/
    /\ save = [kind |-> save.kind, context |-> save.context, card |-> save.card, row |-> save.row,
               to |-> save.to, expected |-> save.expected, stage |-> save.stage,
               result |-> save.result]
    /\ save.kind \in {"move", "edit", "undo"} /\ save.stage \in {"sent", "saved", "stale"}
    /\ save.to \in Places /\ save.card \in D!BoardCards
    /\ save.kind = "undo" => OwnMove(save.card, save.expected, save.to)
    /\ save.kind = "move" => /\ save.card \in Histories /\ Placed(save.card, save.row)
                             /\ save.expected = save.row.version
    /\ save.kind = "edit" => save.card \in Lives
    /\ save.stage = "saved" =>
          LET n == save.result IN
          /\ n \in Nat \ {0} /\ n <= D!Version(save.card)
          /\ log[save.card][n + 1] = [slot |-> save.to, by |-> "me", kind |-> save.kind]
          /\ save.kind = "move" => n = save.expected + 1

FormOK ==
    form = D!None \/
    /\ form = [kind |-> form.kind, context |-> form.context, card |-> form.card, row |-> form.row,
               to |-> form.to, expected |-> form.expected, stage |-> form.stage,
               result |-> form.result]
    /\ form.to \in Places /\ form.card \in Lives

ViewInv ==
    /\ ScreenOK(screen) /\ AtRest(screen) /\ PreloadOK(screen, preload)
    /\ LoadsKnown(screen.asked) /\ LoadsAsked(screen)
BoardInv == LogOK /\ ViewInv /\ SaveOK /\ FormOK

\* what happened before stays
Grows ==
    \A c \in D!BoardCards : /\ Len(log'[c]) \in Nat /\ Len(log[c]) <= Len(log'[c])
                            /\ \A i \in 1 .. Len(log[c]) : log'[c][i] = log[c][i]

\* A move is put behind what happened to the card, and behind nothing else.
LEMMA Putting ==
    ASSUME LogOK, NEW c \in D!BoardCards, NEW to \in Places, NEW who \in {"other", "me"},
           NEW kind \in {"move", "edit", "undo", "form"}, D!Put(c, to, who, kind)
    PROVE  /\ LogOK' /\ Grows
           /\ log'[c] = Append(log[c], [slot |-> to, by |-> who, kind |-> kind])
           /\ D!Version(c)' = D!Version(c) + 1 /\ D!Version(c) \in Nat
           /\ log'[c][D!Version(c)' + 1] = [slot |-> to, by |-> who, kind |-> kind]
           /\ \A d \in D!BoardCards \ {c} : log'[d] = log[d]
<1> DEFINE e == [slot |-> to, by |-> who, kind |-> kind]
<1>1. e \in Puts
  BY DEF Puts
<1>2. log' = [log EXCEPT ![c] = Append(log[c], e)]
  BY DEF D!Put
<1> HIDE DEF e
<1>3. /\ log'[c] = Append(log[c], e) /\ \A d \in D!BoardCards \ {c} : log'[d] = log[d]
      /\ log' \in [D!BoardCards -> Seq(Puts)] /\ log[c] \in Seq(Puts)
  BY <1>1, <1>2 DEF LogOK
<1>4. /\ Len(log'[c]) = Len(log[c]) + 1 /\ log'[c][Len(log[c]) + 1] = e /\ Len(log[c]) \in Nat
      /\ \A i \in 1 .. Len(log[c]) : log'[c][i] = log[c][i]
  BY <1>1, <1>3
<1>5. Grows
  <2> SUFFICES ASSUME NEW d \in D!BoardCards
               PROVE  /\ Len(log'[d]) \in Nat /\ Len(log[d]) <= Len(log'[d])
                      /\ \A i \in 1 .. Len(log[d]) : log'[d][i] = log[d][i]
    BY DEF Grows
  <2>1. CASE d = c
    BY <2>1, <1>4
  <2>2. CASE d # c
    <3>1. log'[d] = log[d] /\ Len(log[d]) \in Nat
      BY <1>3, <2>2 DEF LogOK
    <3> QED BY <3>1
  <2> QED BY <2>1, <2>2
<1>6. LogOK'
  <2>1. ASSUME NEW d \in D!BoardCards PROVE Len(log'[d]) >= 1
    <3>1. Len(log[d]) \in Nat /\ Len(log[d]) >= 1
      BY DEF LogOK
    <3> QED BY <3>1, <1>5 DEF Grows
  <2> QED BY <2>1, <1>3 DEF LogOK
<1>7. D!Version(c)' = D!Version(c) + 1 /\ D!Version(c) \in Nat
  BY <1>4 DEF D!Version, LogOK
<1>8. log'[c][D!Version(c)' + 1] = e
  BY <1>4 DEF D!Version
<1> QED BY <1>3, <1>5, <1>6, <1>7, <1>8 DEF e

\* A row that was true of a version of a card stays so.
LEMMA PlacedStays ==
    ASSUME LogOK, Grows, NEW c, NEW r, Placed(c, r) PROVE Placed(c, r)'
<1>1. /\ c \in D!BoardCards /\ r \in RowType /\ r.version \in Nat /\ r.version + 1 <= Len(log[c])
      /\ Len(log[c]) \in Nat /\ r.slot = log[c][r.version + 1].slot
  BY DEF Placed, D!Version, LogOK, RowType
<1>2. r.version + 1 <= Len(log'[c]) /\ log'[c][r.version + 1] = log[c][r.version + 1]
      /\ Len(log'[c]) \in Nat
  BY <1>1 DEF Grows
<1> QED BY <1>1, <1>2 DEF Placed, D!Version

\* A move of the clerk stays the move of the clerk.
LEMMA OwnMoveStays ==
    ASSUME LogOK, Grows, NEW c, NEW n, NEW to, OwnMove(c, n, to) PROVE OwnMove(c, n, to)'
<1>1. /\ c \in D!BoardCards /\ n \in Nat /\ n > 0 /\ n + 1 <= Len(log[c]) /\ Len(log[c]) \in Nat
  BY DEF OwnMove, D!Version, LogOK, D!BoardCards
<1>2. /\ n + 1 <= Len(log'[c]) /\ log'[c][n + 1] = log[c][n + 1] /\ log'[c][n] = log[c][n]
      /\ Len(log'[c]) \in Nat
  BY <1>1 DEF Grows
<1> QED BY <1>1, <1>2 DEF OwnMove, D!Version

\* What others do leaves what is shown and what is asked for in order.
LEMMA ViewStays ==
    ASSUME LogOK, LogOK', Grows, ViewInv, UNCHANGED <<screen, preload, loads>>
    PROVE  ViewInv'
<1>1. RowsTrue(screen.shown)'
  BY PlacedStays DEF RowsTrue, ViewInv, ScreenOK
<1>2. \A c \in D!BoardCards : screen'.since[c] <= D!Version(c)'
  <2> TAKE c \in D!BoardCards
  <2>1. screen.since[c] \in Int /\ screen.since[c] <= Len(log[c]) - 1 /\ Len(log[c]) \in Nat
        /\ Len(log'[c]) \in Nat /\ Len(log[c]) <= Len(log'[c])
    BY DEF ViewInv, ScreenOK, Grows, D!Version, LogOK
  <2> QED BY <2>1 DEF D!Version
<1>3. DragOK(screen.drag)'
  BY PlacedStays DEF DragOK, ViewInv, ScreenOK
<1>4. UndoOK(screen.undo)'
  BY OwnMoveStays DEF UndoOK, ViewInv, ScreenOK
<1>5. ScreenOK(screen)'
  BY <1>1, <1>2, <1>3, <1>4 DEF ScreenOK, ViewInv, ScreenIsRecord, RowsSince, EditorOK
<1>6. LoadsKnown(screen.asked)'
  <2>1. ASSUME NEW l \in loads PROVE RowsTrue(l.rows)'
    BY PlacedStays DEF RowsTrue, ViewInv, LoadsKnown
  <2> QED BY <2>1 DEF LoadsKnown, ViewInv
<1>7. AtRest(screen)' /\ LoadsAsked(screen)' /\ PreloadOK(screen, preload)'
  BY DEF ViewInv, AtRest, LoadsAsked, RowsSince, PreloadOK, PreloadIsRecord, D!RequestKey,
         D!Request
<1> QED BY <1>5, <1>6, <1>7 DEF ViewInv

\* What others do leaves the save on its way in order.
LEMMA SaveStays ==
    ASSUME LogOK, LogOK', Grows, SaveOK, UNCHANGED save PROVE SaveOK'
<1>1. CASE save = D!None
  BY <1>1 DEF SaveOK
<1>2. CASE save # D!None
  <2>1. save.kind = "undo" => OwnMove(save.card, save.expected, save.to)'
    BY <1>2, OwnMoveStays DEF SaveOK
  <2>2. save.kind = "move" => Placed(save.card, save.row)'
    BY <1>2, PlacedStays DEF SaveOK
  <2>3. ASSUME save.stage = "saved"
        PROVE  /\ save.result <= D!Version(save.card)'
               /\ log'[save.card][save.result + 1] = log[save.card][save.result + 1]
    <3> DEFINE c == save.card
               n == save.result
    <3>1. c \in D!BoardCards /\ n \in Nat /\ n + 1 <= Len(log[c]) /\ Len(log[c]) \in Nat
      BY <1>2, <2>3 DEF SaveOK, D!Version, LogOK
    <3> HIDE DEF c, n
    <3>2. n + 1 <= Len(log'[c]) /\ log'[c][n + 1] = log[c][n + 1] /\ Len(log'[c]) \in Nat
      BY <3>1 DEF Grows
    <3> QED BY <3>1, <3>2 DEF c, n, D!Version
  <2> QED BY <1>2, <2>1, <2>2, <2>3 DEF SaveOK
<1> QED BY <1>1, <1>2

\* A load begins: nothing is read, the seed is taken, or a request of its own is sent.
LEMMA LoadingIs ==
    ASSUME NEW x, ScreenIsRecord(x), NEW p, NEW y, y = D!Loading(x, p)
    PROVE  /\ ScreenIsRecord(y) /\ y.at = x.at /\ y.reads = x.reads /\ y.undo = x.undo
           /\ y.drag = D!None /\ y.editor = D!None
           /\ y.asked = x.asked + 1 /\ y.since = D!Versions
           /\ \/ /\ ~x.reads /\ y.loading = FALSE /\ y.failed = x.failed
                 /\ y.shown = D!Nothing
              \/ /\ x.reads /\ D!TakeDashboardPreload(x, p) /\ y.loading = FALSE
                 /\ y.failed = FALSE /\ y.of = D!Request(x.at) /\ y.shown = p.seed.rows
              \/ x.reads /\ y.loading = TRUE /\ y.failed = FALSE /\ y.shown = x.shown
<1> DEFINE request == D!Request(x.at)
           none == D!None
           no == FALSE
           yes == TRUE
           nothing == D!Nothing
           rows == p.seed.rows
           n == x.asked + 1
           now == D!Versions
           begun == [x EXCEPT !.asked = n, !.since = now, !.drag = none, !.editor = none]
           still == [begun EXCEPT !.of = request, !.loading = no]
           Is(of, shown, loading, failed) ==
             [at |-> x.at, reads |-> x.reads, writes |-> x.writes, loading |-> loading,
              failed |-> failed, asked |-> n, since |-> now, of |-> of, shown |-> shown,
              editor |-> none, drag |-> none, undo |-> x.undo]
<1>1. y = IF ~x.reads THEN [still EXCEPT !.shown = nothing]
          ELSE IF D!TakeDashboardPreload(x, p) THEN [still EXCEPT !.shown = rows, !.failed = no]
          ELSE [begun EXCEPT !.loading = yes, !.failed = no]
  BY DEF D!Loading
<1>2. begun = [x EXCEPT !.asked = n, !.since = now, !.drag = none, !.editor = none]
      /\ still = [begun EXCEPT !.of = request, !.loading = no]
  OBVIOUS
<1> HIDE DEF begun, still, none, no, yes, nothing, rows, n, now, request
<1>3. begun = Is(x.of, x.shown, x.loading, x.failed)
  BY <1>2 DEF ScreenIsRecord
<1>4. still = Is(request, x.shown, no, x.failed)
  BY <1>2, <1>3
<1>5. \A of, shown, loading, failed :
        LET z == Is(of, shown, loading, failed) IN
        /\ ScreenIsRecord(z) /\ z.at = x.at /\ z.reads = x.reads /\ z.undo = x.undo
        /\ z.drag = none /\ z.editor = none /\ z.asked = n /\ z.since = now
        /\ z.of = of /\ z.shown = shown /\ z.loading = loading /\ z.failed = failed
  BY DEF ScreenIsRecord
<1>6. CASE ~x.reads
  <2>1. y = Is(request, nothing, no, x.failed)
    BY <1>1, <1>4, <1>6
  <2> HIDE DEF Is
  <2>2. /\ ScreenIsRecord(y) /\ y.at = x.at /\ y.reads = x.reads /\ y.undo = x.undo
        /\ y.drag = none /\ y.editor = none /\ y.asked = n /\ y.since = now
        /\ y.loading = no /\ y.failed = x.failed /\ y.shown = nothing
    BY <1>5, <2>1
  <2> QED BY <1>6, <2>2 DEF none, n, now, no, nothing
<1>7. CASE x.reads /\ D!TakeDashboardPreload(x, p)
  <2>1. y = Is(request, rows, no, no)
    BY <1>1, <1>4, <1>7
  <2> HIDE DEF Is
  <2>2. /\ ScreenIsRecord(y) /\ y.at = x.at /\ y.reads = x.reads /\ y.undo = x.undo
        /\ y.drag = none /\ y.editor = none /\ y.asked = n /\ y.since = now
        /\ y.loading = no /\ y.failed = no /\ y.of = request /\ y.shown = rows
    BY <1>5, <2>1
  <2> QED BY <1>7, <2>2 DEF none, n, now, no, rows, request
<1>8. CASE x.reads /\ ~D!TakeDashboardPreload(x, p)
  <2>1. y = Is(x.of, x.shown, yes, no)
    BY <1>1, <1>3, <1>8
  <2> HIDE DEF Is
  <2>2. /\ ScreenIsRecord(y) /\ y.at = x.at /\ y.reads = x.reads /\ y.undo = x.undo
        /\ y.drag = none /\ y.editor = none /\ y.asked = n /\ y.since = now
        /\ y.loading = yes /\ y.failed = no /\ y.shown = x.shown
    BY <1>5, <2>1
  <2> QED BY <1>8, <2>2 DEF none, n, now, no, yes
<1> QED BY <1>6, <1>7, <1>8

\* The versions of the cards, as they are now.
LEMMA VersionsAre ==
    ASSUME LogOK
    PROVE  /\ D!Versions \in [D!BoardCards -> Nat]
           /\ \A c \in D!BoardCards : D!Versions[c] = D!Version(c)
<1>1. \A c \in D!BoardCards : D!Version(c) \in Nat
  <2> TAKE c \in D!BoardCards
  <2>1. Len(log[c]) \in Nat /\ Len(log[c]) >= 1
    BY DEF LogOK
  <2> QED BY <2>1 DEF D!Version
<1> QED BY <1>1 DEF D!Versions

\* The rows of the board as the server has them now.
LEMMA RowsAreTrue ==
    ASSUME LogOK, NEW b
    PROVE  /\ RowsTrue(D!Rows(b)) /\ DOMAIN D!Rows(b) = D!CardsOf(b)
           /\ \A c \in D!CardsOf(b) : D!Rows(b)[c].version = D!Version(c)
<1>1. D!CardsOf(b) \subseteq D!BoardCards
  BY DEF D!CardsOf
<1>2. \A c \in D!BoardCards : /\ D!Version(c) \in Nat /\ D!Where(c) = log[c][D!Version(c) + 1].slot
                             /\ D!Where(c) \in Places
  <2> TAKE c \in D!BoardCards
  <2>1. log[c] \in Seq(Puts) /\ Len(log[c]) \in Nat /\ Len(log[c]) >= 1
    BY DEF LogOK
  <2>2. log[c][Len(log[c])] \in Puts
    BY <2>1
  <2> QED BY <2>1, <2>2 DEF D!Version, D!Where, D!Last, Puts
<1> QED BY <1>1, <1>2 DEF D!Rows, RowsTrue, Placed, RowType

\* A component that was just put on the page.
LEMMA MountedIs ==
    ASSUME NEW at, NEW reads, NEW may, NEW asked, NEW x,
           x = D!Mounted(at, reads, may, asked)
    PROVE  /\ ScreenIsRecord(x) /\ x.at = at /\ x.reads = reads /\ x.asked = asked
           /\ x.loading \in BOOLEAN /\ x.failed \in BOOLEAN /\ ~x.loading /\ ~x.failed
           /\ x.since = D!Versions
           /\ x.shown = D!Nothing /\ x.editor = D!None /\ x.drag = D!None /\ x.undo = D!None
<1> DEFINE no == FALSE
           none == D!None
<1>1. x = [at |-> at, reads |-> reads, writes |-> may, loading |-> no, failed |-> no,
           asked |-> asked, since |-> D!Versions, of |-> D!Request(at), shown |-> D!Nothing,
           editor |-> none, drag |-> none, undo |-> none]
  BY DEF D!Mounted
<1> HIDE DEF no, none
<1>2. /\ ScreenIsRecord(x) /\ x.at = at /\ x.reads = reads /\ x.asked = asked
      /\ x.loading = no /\ x.failed = no /\ x.since = D!Versions
      /\ x.shown = D!Nothing /\ x.editor = none /\ x.drag = none /\ x.undo = none
  BY <1>1 DEF ScreenIsRecord
<1> QED BY <1>2 DEF no, none

\* A run of the load effect that may not take the seed leaves a view in order, whatever
\* the screen was at rest with.
LEMMA RerenderKeeps ==
    ASSUME LogOK, NEW x, ScreenOK(x), LoadsKnown(x.asked), NEW p, PreloadIsRecord(p),
           D!Invalidated(x, p), D!Rerender(x, p), UNCHANGED log
    PROVE  ViewInv'
<1> DEFINE y == D!Loading(x, p)
<1>1. screen' = y /\ loads' = loads \cup D!Sending(y) /\ preload' = D!Remembered(x, p)
  BY DEF D!Rerender
<1> HIDE DEF y
<1>2. /\ ScreenIsRecord(y) /\ y.at = x.at /\ y.reads = x.reads /\ y.undo = x.undo
      /\ y.drag = D!None /\ y.editor = D!None /\ y.asked = x.asked + 1 /\ y.since = D!Versions
      /\ \/ /\ ~x.reads /\ y.loading = FALSE /\ y.failed = x.failed /\ y.shown = D!Nothing
         \/ x.reads /\ y.loading = TRUE /\ y.failed = FALSE /\ y.shown = x.shown
  <2>1. ScreenIsRecord(x) /\ ~D!TakeDashboardPreload(x, p)
    BY DEF ScreenOK, D!TakeDashboardPreload
  <2> QED BY <2>1, LoadingIs DEF y
<1>3. D!Versions \in [D!BoardCards -> Int] /\ \A c \in D!BoardCards : D!Versions[c] <= D!Version(c)
  <2>1. \A c \in D!BoardCards : D!Versions[c] \in Nat /\ D!Versions[c] = D!Version(c)
    BY VersionsAre
  <2> QED BY <2>1, VersionsAre
<1>4. ScreenOK(y) /\ AtRest(y)
  <2>1. y.since \in [D!BoardCards -> Int] /\ \A c \in D!BoardCards : y.since[c] <= D!Version(c)
    BY <1>2, <1>3
  <2>2. y.asked \in Nat /\ y.at \in D!Contexts
    BY <1>2 DEF ScreenOK
  <2>3. AtRest(y)
    BY <1>2 DEF AtRest
  <2>4. EditorOK(y.editor) /\ DragOK(y.drag) /\ UndoOK(y.undo)
    BY <1>2 DEF ScreenOK, EditorOK, DragOK
  <2>5. RowsTrue(y.shown)
    BY <1>2 DEF ScreenOK, RowsTrue, D!Nothing
  <2>6. y.reads \in BOOLEAN /\ y.loading \in BOOLEAN /\ y.failed \in BOOLEAN
    <3>1. x.reads \in BOOLEAN /\ x.failed \in BOOLEAN
      BY DEF ScreenOK
    <3> QED BY <1>2, <3>1, Zenon
  <2> QED BY <1>2, <2>1, <2>2, <2>3, <2>4, <2>5, <2>6 DEF ScreenOK
<1>5. PreloadOK(y, preload')
  <2> DEFINE key == D!RequestKey(x, p)
             out == D!Invalidated(x, p)
  <2>1. preload' = [p EXCEPT !.key = key, !.invalidated = out]
    BY <1>1 DEF D!Remembered
  <2>2. out
    OBVIOUS
  <2> HIDE DEF key, out
  <2>3. preload' = [seed |-> p.seed, props |-> p.props, refreshed |-> p.refreshed, key |-> key,
                    invalidated |-> out]
    BY <2>1 DEF PreloadIsRecord
  <2>4. /\ PreloadIsRecord(preload') /\ preload'.key = key /\ preload'.invalidated = out
        /\ preload'.props = p.props /\ preload'.refreshed = p.refreshed
    BY <2>3 DEF PreloadIsRecord
  <2>5. key = D!RequestKey(y, preload')
    BY <1>2, <2>4 DEF key, D!RequestKey
  <2> QED BY <2>2, <2>4, <2>5 DEF PreloadOK
<1>6. \A k \in loads : k.n \in 1 .. y.asked /\ k.n # y.asked
  <2> TAKE k \in loads
  <2>1. k.n \in 1 .. x.asked /\ x.asked \in Nat
    BY DEF LoadsKnown, ScreenOK
  <2> QED BY <1>2, <2>1
<1>7. \A k \in loads' : /\ LoadIsRecord(k) /\ k.n \in 1 .. y.asked /\ RowsTrue(k.rows)
                        /\ k.stage \in {"sent", "read"}
                        /\ k.n = y.asked => k.request = D!Request(y.at) /\ k.stage = "sent"
  <2> DEFINE l == [n |-> y.asked, request |-> D!Request(y.at), rows |-> D!Nothing, stage |-> "sent"]
  <2>1. /\ LoadIsRecord(l) /\ l.n = y.asked /\ RowsTrue(l.rows) /\ l.stage = "sent"
        /\ l.request = D!Request(y.at)
    BY DEF LoadIsRecord, RowsTrue, D!Nothing
  <2>2. \A k \in loads' : k \in loads \/ k = l
    BY <1>1 DEF D!Sending
  <2> HIDE DEF l
  <2>3. y.asked \in 1 .. y.asked
    <3>1. y.asked \in Nat \ {0}
      BY <1>2 DEF ScreenOK
    <3> QED BY <3>1
  <2> QED BY <1>6, <2>1, <2>2, <2>3 DEF LoadsKnown
<1>8. ScreenOK(screen)' /\ AtRest(screen)' /\ PreloadOK(screen, preload)'
  BY <1>1, <1>4, <1>5
     DEF ScreenOK, ScreenIsRecord, AtRest, RowsTrue, Placed, RowsSince, EditorOK, DragOK, UndoOK,
         OwnMove, D!Version, PreloadOK, PreloadIsRecord, D!RequestKey, D!Request
<1>9. LoadsKnown(screen.asked)' /\ LoadsAsked(screen)'
  <2>1. \A k \in loads' : RowsTrue(k.rows)'
    BY <1>7 DEF RowsTrue, Placed, D!Version
  <2> QED BY <1>1, <1>7, <2>1 DEF LoadsKnown, LoadsAsked, LoadIsRecord, D!Request
<1> QED BY <1>8, <1>9 DEF ViewInv

\* At first the seed of the server is shown, or the board is asked for.
LEMMA BoardBegins == D!Init => BoardInv
<1> SUFFICES ASSUME D!Init PROVE BoardInv
  OBVIOUS
<1>1. /\ log = [c \in D!BoardCards |-> <<[slot |-> FirstSlot, by |-> "import", kind |-> "first"]>>]
      /\ loads = D!Sending(screen) /\ save = D!None /\ form = D!None
  BY DEF D!Init
<1>2. PICK at \in D!Entrances, seed \in {D!None} \cup
                {[kind |-> "seed", board |-> b, rows |-> D!Rows(b)] : b \in D!Boards} :
        /\ preload = D!DashboardPreloadState(D!Mounted(at, TRUE, TRUE, 0), seed, "document", TRUE)
        /\ screen = D!Loading(D!Mounted(at, TRUE, TRUE, 0), preload)
  BY DEF D!Init
<1> DEFINE first == [slot |-> FirstSlot, by |-> "import", kind |-> "first"]
           x == D!Mounted(at, TRUE, TRUE, 0)
<1>3. LogOK /\ \A c \in D!BoardCards : Len(log[c]) = 1 /\ D!Last(log[c]) = log[c][1]
  <2>1. first \in Puts
    BY DEF Puts, Places
  <2> HIDE DEF first
  <2>2. <<first>> \in Seq(Puts) /\ Len(<<first>>) = 1
    BY <2>1
  <2>3. log = [c \in D!BoardCards |-> <<first>>]
    BY <1>1 DEF first
  <2> QED BY <2>2, <2>3 DEF LogOK, D!Last
<1>4. \A c \in D!BoardCards : D!Version(c) = 0
  BY <1>3 DEF D!Version
<1>5. D!Versions \in [D!BoardCards -> Int] /\ \A c \in D!BoardCards : D!Versions[c] = 0
  BY <1>4 DEF D!Versions
<1>6. at \in D!Contexts
  BY DEF D!Entrances
<1>7. /\ ScreenIsRecord(x) /\ x.at = at /\ x.reads = TRUE /\ x.asked = 0 /\ x.undo = D!None
      /\ x.shown = D!Nothing
  <2> DEFINE yes == TRUE
  <2>1. x = D!Mounted(at, yes, yes, 0)
    OBVIOUS
  <2> HIDE DEF x, yes
  <2>2. /\ ScreenIsRecord(x) /\ x.at = at /\ x.reads = yes /\ x.asked = 0 /\ x.undo = D!None
        /\ x.shown = D!Nothing
    BY <2>1, MountedIs
  <2> QED BY <2>2 DEF yes
<1>8. screen = D!Loading(x, preload)
  BY <1>2
<1>9. preload = D!DashboardPreloadState(x, seed, "document", TRUE)
  BY <1>2
<1> HIDE DEF x
<1>10. /\ ScreenIsRecord(screen) /\ screen.at = at /\ screen.reads = TRUE
       /\ screen.undo = D!None /\ screen.drag = D!None /\ screen.editor = D!None
       /\ screen.asked = 1 /\ screen.since = D!Versions /\ screen.failed = FALSE
       /\ \/ /\ D!TakeDashboardPreload(x, preload) /\ screen.loading = FALSE
             /\ screen.of = D!Request(at) /\ screen.shown = preload.seed.rows
          \/ screen.loading = TRUE /\ screen.shown = D!Nothing
  <2>1. /\ ScreenIsRecord(screen) /\ screen.at = x.at /\ screen.reads = x.reads
        /\ screen.undo = x.undo /\ screen.drag = D!None /\ screen.editor = D!None
        /\ screen.asked = x.asked + 1 /\ screen.since = D!Versions
        /\ \/ /\ ~x.reads /\ screen.loading = FALSE /\ screen.failed = x.failed
              /\ screen.shown = D!Nothing
           \/ /\ x.reads /\ D!TakeDashboardPreload(x, preload) /\ screen.loading = FALSE
              /\ screen.failed = FALSE /\ screen.of = D!Request(x.at)
              /\ screen.shown = preload.seed.rows
           \/ /\ x.reads /\ screen.loading = TRUE /\ screen.failed = FALSE
              /\ screen.shown = x.shown
    <3> DEFINE y == D!Loading(x, preload)
    <3>1. ScreenIsRecord(x) /\ screen = y
      BY <1>7, <1>8
    <3>2. /\ ScreenIsRecord(y) /\ y.at = x.at /\ y.reads = x.reads
          /\ y.undo = x.undo /\ y.drag = D!None /\ y.editor = D!None
          /\ y.asked = x.asked + 1 /\ y.since = D!Versions
          /\ \/ ~x.reads /\ y.loading = FALSE /\ y.failed = x.failed /\ y.shown = D!Nothing
             \/ /\ x.reads /\ D!TakeDashboardPreload(x, preload) /\ y.loading = FALSE
                /\ y.failed = FALSE /\ y.of = D!Request(x.at) /\ y.shown = preload.seed.rows
             \/ x.reads /\ y.loading = TRUE /\ y.failed = FALSE /\ y.shown = x.shown
      BY <3>1, LoadingIs DEF y
    <3> HIDE DEF y
    <3> QED BY <3>1, <3>2
  <2> QED BY <1>7, <2>1
<1>11. /\ PreloadIsRecord(preload) /\ preload.seed = seed /\ preload.props = "document"
       /\ preload.refreshed = FALSE /\ preload.key = D!RequestKey(x, preload)
  <2> DEFINE no == FALSE
             key == D!RequestKey(x, [props |-> "document", refreshed |-> no])
             out == ~TRUE
  <2>1. preload = [seed |-> seed, props |-> "document", refreshed |-> no, key |-> key,
                   invalidated |-> out]
    BY <1>9 DEF D!DashboardPreloadState
  <2> HIDE DEF key, out
  <2>2. /\ PreloadIsRecord(preload) /\ preload.seed = seed /\ preload.props = "document"
        /\ preload.refreshed = no /\ preload.key = key
    BY <2>1 DEF PreloadIsRecord
  <2> QED BY <2>2 DEF key, D!RequestKey
<1>12. PreloadOK(screen, preload)
  BY <1>7, <1>10, <1>11 DEF PreloadOK, D!RequestKey
<1>13. screen.shown # D!Nothing \/ screen.loading = FALSE =>
         RowsTrue(screen.shown) /\ RowsSince(screen.since, screen.shown, D!Request(at))
  <2> SUFFICES ASSUME screen.shown # D!Nothing \/ screen.loading = FALSE
               PROVE  /\ RowsTrue(screen.shown)
                      /\ RowsSince(screen.since, screen.shown, D!Request(at))
    OBVIOUS
  <2>1. D!TakeDashboardPreload(x, preload) /\ screen.shown = preload.seed.rows
    BY <1>10
  <2>2. seed # D!None /\ seed.board = at.board
    BY <1>7, <1>11, <2>1 DEF D!TakeDashboardPreload, D!MatchingDashboardPreload
  <2>3. screen.shown = D!Rows(at.board)
    BY <1>11, <2>1, <2>2
  <2>4. D!Request(at).board = at.board /\ D!CardsOf(at.board) \subseteq D!BoardCards
    BY DEF D!Request, D!CardsOf
  <2>5. /\ RowsTrue(screen.shown) /\ DOMAIN screen.shown = D!CardsOf(at.board)
        /\ \A c \in D!CardsOf(at.board) : screen.shown[c].version = D!Version(c)
    BY <1>3, <2>3, RowsAreTrue
  <2>6. \A c \in D!CardsOf(at.board) : screen.since[c] <= screen.shown[c].version
    BY <1>4, <1>5, <1>10, <2>4, <2>5
  <2> QED BY <2>4, <2>5, <2>6 DEF RowsSince
<1>14. ScreenOK(screen)
  <2>1. \A c \in D!BoardCards : screen.since[c] <= D!Version(c)
    BY <1>4, <1>5, <1>10
  <2>2. /\ screen.asked \in Nat /\ screen.reads \in BOOLEAN /\ screen.loading \in BOOLEAN
        /\ screen.failed \in BOOLEAN
    <3>1. screen.asked \in Nat
      BY <1>10
    <3>2. screen.reads \in {TRUE, FALSE} /\ screen.loading \in {TRUE, FALSE}
          /\ screen.failed \in {TRUE, FALSE}
      BY <1>10, Zenon
    <3> QED BY <3>1, <3>2
  <2>3. EditorOK(screen.editor) /\ DragOK(screen.drag) /\ UndoOK(screen.undo)
    BY <1>10 DEF EditorOK, DragOK, UndoOK
  <2>4. RowsTrue(screen.shown)
    <3>1. RowsTrue(D!Nothing)
      BY DEF RowsTrue, D!Nothing
    <3> QED BY <1>13, <3>1
  <2>5. screen.since \in [D!BoardCards -> Int] /\ screen.at \in D!Contexts
        /\ ScreenIsRecord(screen)
    BY <1>5, <1>6, <1>10
  <2> QED BY <2>1, <2>2, <2>3, <2>4, <2>5 DEF ScreenOK
<1>15. AtRest(screen)
  BY <1>10, <1>13 DEF AtRest
<1>16. LoadsKnown(screen.asked) /\ LoadsAsked(screen)
  <2> DEFINE l == [n |-> screen.asked, request |-> D!Request(screen.at), rows |-> D!Nothing,
                   stage |-> "sent"]
  <2>1. /\ LoadIsRecord(l) /\ l.n = screen.asked /\ RowsTrue(l.rows) /\ l.stage = "sent"
        /\ l.request = D!Request(screen.at)
    BY DEF LoadIsRecord, RowsTrue, D!Nothing
  <2>2. \A k \in loads : k = l
    BY <1>1 DEF D!Sending
  <2> HIDE DEF l
  <2>3. screen.asked \in 1 .. screen.asked
    BY <1>10
  <2> QED BY <2>1, <2>2, <2>3 DEF LoadsKnown, LoadsAsked
<1> QED BY <1>1, <1>3, <1>12, <1>14, <1>15, <1>16 DEF BoardInv, ViewInv, SaveOK, FormOK

\* A step that leaves what is asked for and what is shown leaves the view in order.
LEMMA ViewKeeps ==
    ASSUME ViewInv, ScreenIsRecord(screen)', screen'.at \in D!Contexts,
           D!Request(screen.at)' = D!Request(screen.at), screen'.asked = screen.asked,
           screen'.loading = screen.loading, screen'.failed = screen.failed,
           screen'.since = screen.since, screen'.of = screen.of, screen'.shown = screen.shown,
           screen'.reads = screen.reads, EditorOK(screen.editor)', DragOK(screen.drag)',
           UndoOK(screen.undo)', UNCHANGED <<log, preload, loads>>
    PROVE  ViewInv'
<1>1. ScreenOK(screen)'
  <2>1. RowsTrue(screen.shown)'
    BY DEF ViewInv, ScreenOK, RowsTrue, Placed, D!Version
  <2>2. \A c \in D!BoardCards : screen'.since[c] <= D!Version(c)'
    BY DEF ViewInv, ScreenOK, D!Version
  <2> QED BY <2>1, <2>2 DEF ViewInv, ScreenOK, RowsSince
<1>2. AtRest(screen)' /\ LoadsAsked(screen)'
  BY DEF ViewInv, AtRest, LoadsAsked, RowsSince
<1>3. LoadsKnown(screen.asked)'
  BY DEF ViewInv, LoadsKnown, RowsTrue, Placed, D!Version
<1>4. PreloadOK(screen, preload)'
  BY DEF ViewInv, PreloadOK, PreloadIsRecord, D!RequestKey
<1> QED BY <1>1, <1>2, <1>3, <1>4 DEF ViewInv

\* What is left alone stays in order.
LEMMA ScreenRests ==
    ASSUME ScreenOK(screen), AtRest(screen), PreloadOK(screen, preload),
           UNCHANGED <<log, screen, preload>>
    PROVE  ScreenOK(screen)' /\ AtRest(screen)' /\ PreloadOK(screen, preload)'
BY DEF ScreenOK, ScreenIsRecord, AtRest, RowsTrue, Placed, RowsSince, EditorOK, DragOK, UndoOK,
       OwnMove, D!Version, PreloadOK, PreloadIsRecord, D!RequestKey, D!Request

\* The cards, the save and the form, left alone.
LEMMA RestRests ==
    ASSUME LogOK, SaveOK, FormOK, UNCHANGED <<log, save, form>>
    PROVE  LogOK' /\ SaveOK' /\ FormOK'
BY DEF LogOK, SaveOK, FormOK, OwnMove, Placed, D!Version

\* The props with another rendering, or with a refresh.
PropsAre(props, refreshed) ==
    [seed |-> preload.seed, props |-> props, refreshed |-> refreshed, key |-> preload.key,
     invalidated |-> preload.invalidated]

\* The seed cannot be taken again once the request, the rendering or the refresh is another.
LEMMA SeedIsOver ==
    ASSUME ViewInv, NEW x, NEW props, NEW refreshed,
           NEW p, p = PropsAre(props, refreshed),
           \/ D!Request(x.at) # D!Request(screen.at)
           \/ x.reads # screen.reads
           \/ refreshed = TRUE
           \/ preload.props = "document" => props # "document"
    PROVE  PreloadIsRecord(p) /\ D!Invalidated(x, p)
<1>1. /\ PreloadIsRecord(p) /\ p.props = props /\ p.refreshed = refreshed
      /\ p.key = preload.key /\ p.invalidated = preload.invalidated
  BY DEF PropsAre, PreloadIsRecord
<1>2. /\ preload.key = D!RequestKey(screen, preload)
      /\ ~preload.invalidated => ~preload.refreshed /\ preload.props = "document"
  BY DEF ViewInv, PreloadOK
<1>3. ASSUME ~preload.invalidated PROVE D!RequestKey(x, p) # preload.key
  <2>1. ~preload.refreshed /\ preload.props = "document"
    BY <1>2, <1>3
  <2>2. ASSUME D!RequestKey(x, p) = D!RequestKey(screen, preload)
        PROVE  /\ D!Request(x.at) = D!Request(screen.at) /\ x.reads = screen.reads
               /\ refreshed = preload.refreshed /\ props = preload.props
    BY <1>1, <2>2 DEF D!RequestKey
  <2> QED BY <1>2, <2>1, <2>2
<1> QED BY <1>1, <1>3 DEF D!Invalidated

\* The clerk goes to another day, salon, search or view.
LEMMA NavigateStep ==
    ASSUME BoardInv, NEW at \in D!Contexts, NEW props, D!Navigate(at, props) PROVE BoardInv'
<1> DEFINE none == D!None
           x == [screen EXCEPT !.at = at, !.drag = none, !.undo = none]
           p == [preload EXCEPT !.props = props]
<1>1. /\ IF D!Request(at) = D!Request(screen.at) THEN screen' = x /\ UNCHANGED <<preload, loads>>
         ELSE D!Rerender(x, p)
      /\ UNCHANGED <<log, save, form>>
  BY DEF D!Navigate
<1>2. x = [screen EXCEPT !.at = at, !.drag = none, !.undo = none]
      /\ p = [preload EXCEPT !.props = props]
  OBVIOUS
<1> HIDE DEF x, p, none
<1>3. /\ ScreenIsRecord(x) /\ x.at = at /\ x.drag = none /\ x.undo = none
      /\ x.asked = screen.asked /\ x.loading = screen.loading /\ x.failed = screen.failed
      /\ x.since = screen.since /\ x.of = screen.of /\ x.shown = screen.shown
      /\ x.reads = screen.reads /\ x.editor = screen.editor
  <2>1. ScreenIsRecord(screen)
    BY DEF BoardInv, ViewInv, ScreenOK
  <2>2. x = [at |-> at, reads |-> screen.reads, writes |-> screen.writes,
             loading |-> screen.loading, failed |-> screen.failed, asked |-> screen.asked,
             since |-> screen.since, of |-> screen.of, shown |-> screen.shown,
             editor |-> screen.editor, drag |-> none, undo |-> none]
    BY <1>2, <2>1 DEF ScreenIsRecord
  <2> QED BY <2>2 DEF ScreenIsRecord
<1>4. ScreenOK(x) /\ LoadsKnown(x.asked)
  BY <1>3 DEF BoardInv, ViewInv, ScreenOK, DragOK, UndoOK, none
<1>5. CASE D!Request(at) = D!Request(screen.at)
  <2>1. screen' = x /\ UNCHANGED <<preload, loads>>
    BY <1>1, <1>5
  <2>2. EditorOK(screen.editor)' /\ DragOK(screen.drag)' /\ UndoOK(screen.undo)'
    BY <1>3, <2>1 DEF BoardInv, ViewInv, ScreenOK, EditorOK, DragOK, UndoOK, none
  <2>3. ScreenIsRecord(screen)' /\ D!Request(screen.at)' = D!Request(screen.at)
    BY <1>3, <1>5, <2>1 DEF ScreenIsRecord, D!Request
  <2> QED BY <1>1, <1>3, <2>1, <2>2, <2>3, ViewKeeps, RestRests DEF BoardInv
<1>6. CASE D!Request(at) # D!Request(screen.at)
  <2>1. D!Rerender(x, p)
    BY <1>1, <1>6
  <2>2. p = PropsAre(props, preload.refreshed)
    BY <1>2 DEF PropsAre, BoardInv, ViewInv, PreloadOK, PreloadIsRecord
  <2>3. PreloadIsRecord(p) /\ D!Invalidated(x, p)
    BY <1>3, <1>6, <2>2, SeedIsOver DEF BoardInv
  <2> QED BY <1>1, <1>4, <2>1, <2>3, RerenderKeeps, RestRests DEF BoardInv
<1> QED BY <1>5, <1>6

\* The server renders the page again.
LEMMA RenderedStep ==
    ASSUME BoardInv, NEW props, D!Rendered(props) PROVE BoardInv'
<1> DEFINE p == [preload EXCEPT !.props = props]
<1>1. /\ preload.props = "document" => props # "document"
      /\ D!Rerender(screen, p) /\ UNCHANGED <<log, save, form>>
  BY DEF D!Rendered
<1>2. p = PropsAre(props, preload.refreshed)
  BY DEF PropsAre, BoardInv, ViewInv, PreloadOK, PreloadIsRecord
<1> HIDE DEF p
<1>3. PreloadIsRecord(p) /\ D!Invalidated(screen, p)
  BY <1>1, <1>2, SeedIsOver DEF BoardInv
<1> QED BY <1>1, <1>3, RerenderKeeps, RestRests DEF BoardInv, ViewInv

\* The right to read is given or taken.
LEMMA ChangeReadingStep ==
    ASSUME BoardInv, D!ChangeReading PROVE BoardInv'
<1> DEFINE reads == ~screen.reads
           x == [screen EXCEPT !.reads = reads]
<1>1. D!Rerender(x, preload) /\ UNCHANGED <<log, save, form>>
  BY DEF D!ChangeReading
<1>2. reads \in BOOLEAN /\ reads # screen.reads /\ x = [screen EXCEPT !.reads = reads]
  BY DEF BoardInv, ViewInv, ScreenOK
<1> HIDE DEF reads, x
<1>3. x = [at |-> screen.at, reads |-> reads, writes |-> screen.writes,
           loading |-> screen.loading, failed |-> screen.failed, asked |-> screen.asked,
           since |-> screen.since, of |-> screen.of, shown |-> screen.shown,
           editor |-> screen.editor, drag |-> screen.drag, undo |-> screen.undo]
  BY <1>2 DEF BoardInv, ViewInv, ScreenOK, ScreenIsRecord
<1>4. /\ ScreenIsRecord(x) /\ x.at = screen.at /\ x.reads = reads
      /\ x.asked = screen.asked /\ x.loading = screen.loading /\ x.failed = screen.failed
      /\ x.since = screen.since /\ x.shown = screen.shown /\ x.editor = screen.editor
      /\ x.drag = screen.drag /\ x.undo = screen.undo
  BY <1>3 DEF ScreenIsRecord
<1>5. ScreenOK(x) /\ LoadsKnown(x.asked)
  BY <1>2, <1>4 DEF BoardInv, ViewInv, ScreenOK
<1>6. preload = PropsAre(preload.props, preload.refreshed)
  BY DEF PropsAre, BoardInv, ViewInv, PreloadOK, PreloadIsRecord
<1>7. PreloadIsRecord(preload) /\ D!Invalidated(x, preload)
  BY <1>2, <1>4, <1>6, SeedIsOver DEF BoardInv
<1> QED BY <1>1, <1>5, <1>7, RerenderKeeps, RestRests DEF BoardInv

\* The clerk comes back to a new component, to which no earlier answer comes.
LEMMA ReturnStep ==
    ASSUME BoardInv, NEW at \in D!Entrances, NEW props, D!Return(at, props) PROVE BoardInv'
<1> DEFINE x == D!Mounted(at, screen.reads, screen.writes, screen.asked)
           p == D!DashboardPreloadState(x, preload.seed, props, FALSE)
<1>1. /\ D!Rerender(x, p) /\ UNCHANGED log
      /\ save' = D!Unawaited(save) /\ form' = D!Unawaited(form)
  BY DEF D!Return
<1>2. /\ ScreenIsRecord(x) /\ x.at = at /\ x.reads = screen.reads /\ x.asked = screen.asked
      /\ x.loading \in BOOLEAN /\ x.failed \in BOOLEAN /\ ~x.loading /\ ~x.failed
      /\ x.since = D!Versions
      /\ x.shown = D!Nothing /\ x.editor = D!None /\ x.drag = D!None /\ x.undo = D!None
  <2>1. x = D!Mounted(at, screen.reads, screen.writes, screen.asked)
    OBVIOUS
  <2> HIDE DEF x
  <2> QED BY <2>1, MountedIs
<1> HIDE DEF x
<1>3. PreloadIsRecord(p) /\ D!Invalidated(x, p)
  <2> DEFINE key == D!RequestKey(x, [props |-> props, refreshed |-> FALSE])
             no == FALSE
             out == ~FALSE
  <2>1. p = [seed |-> preload.seed, props |-> props, refreshed |-> no, key |-> key,
             invalidated |-> out]
    BY DEF D!DashboardPreloadState
  <2> HIDE DEF p, key, no, out
  <2>2. PreloadIsRecord(p) /\ p.invalidated = out
    BY <2>1 DEF PreloadIsRecord
  <2> QED BY <2>2 DEF out, D!Invalidated
<1> HIDE DEF p
<1>4. ScreenOK(x) /\ LoadsKnown(x.asked)
  <2>1. D!Versions \in [D!BoardCards -> Int] /\ \A c \in D!BoardCards : D!Versions[c] <= D!Version(c)
    <3>1. \A c \in D!BoardCards : D!Versions[c] \in Nat /\ D!Versions[c] = D!Version(c)
      BY VersionsAre DEF BoardInv
    <3> QED BY <3>1, VersionsAre DEF BoardInv
  <2>2. at \in D!Contexts
    BY DEF D!Entrances
  <2>3. RowsTrue(D!Nothing) /\ EditorOK(D!None) /\ DragOK(D!None) /\ UndoOK(D!None)
    BY DEF RowsTrue, D!Nothing, EditorOK, DragOK, UndoOK
  <2> QED BY <1>2, <2>1, <2>2, <2>3 DEF BoardInv, ViewInv, ScreenOK
<1>5. ViewInv'
  BY <1>1, <1>3, <1>4, RerenderKeeps DEF BoardInv
<1>6. SaveOK'
  <2>1. CASE save = D!None
    BY <1>1, <2>1 DEF D!Unawaited, SaveOK
  <2>2. CASE save # D!None
    <3>1. save' = [save EXCEPT !.context = D!None]
      BY <1>1, <2>2 DEF D!Unawaited
    <3>2. save' = [kind |-> save.kind, context |-> D!None, card |-> save.card, row |-> save.row,
                   to |-> save.to, expected |-> save.expected, stage |-> save.stage,
                   result |-> save.result]
      BY <2>2, <3>1 DEF BoardInv, SaveOK
    <3>3. /\ save'.kind = save.kind /\ save'.card = save.card /\ save'.row = save.row
          /\ save'.to = save.to /\ save'.expected = save.expected /\ save'.stage = save.stage
          /\ save'.result = save.result
          /\ save' = [kind |-> save'.kind, context |-> save'.context, card |-> save'.card,
                      row |-> save'.row, to |-> save'.to, expected |-> save'.expected,
                      stage |-> save'.stage, result |-> save'.result]
      BY <3>2
    <3> QED BY <1>1, <2>2, <3>3 DEF BoardInv, SaveOK, OwnMove, Placed, D!Version
  <2> QED BY <2>1, <2>2
<1>7. FormOK'
  <2>1. CASE form = D!None
    BY <1>1, <2>1 DEF D!Unawaited, FormOK
  <2>2. CASE form # D!None
    <3>1. form' = [form EXCEPT !.context = D!None]
      BY <1>1, <2>2 DEF D!Unawaited
    <3>2. form' = [kind |-> form.kind, context |-> D!None, card |-> form.card, row |-> form.row,
                   to |-> form.to, expected |-> form.expected, stage |-> form.stage,
                   result |-> form.result]
      BY <2>2, <3>1 DEF BoardInv, FormOK
    <3> QED BY <2>2, <3>2 DEF BoardInv, FormOK
  <2> QED BY <2>1, <2>2
<1> QED BY <1>1, <1>5, <1>6, <1>7 DEF BoardInv, LogOK

\* A load that is neither taken nor lost stays as asked for.
LEMMA LoadsKept ==
    ASSUME ViewInv, loads' \subseteq loads, screen'.asked = screen.asked,
           screen'.since = screen.since, screen'.at = screen.at, UNCHANGED log
    PROVE  LoadsKnown(screen.asked)' /\ LoadsAsked(screen)'
BY DEF ViewInv, LoadsKnown, LoadsAsked, RowsTrue, Placed, RowsSince, D!Version

\* The board is read for a load.
LEMMA ReadStep ==
    ASSUME BoardInv, NEW l \in loads, D!Read(l) PROVE BoardInv'
<1> DEFINE rows == D!Rows(l.request.board)
           m == [n |-> l.n, request |-> l.request, rows |-> rows, stage |-> "read"]
<1>1. LoadIsRecord(l) /\ l.n \in 1 .. screen.asked
  BY DEF BoardInv, ViewInv, LoadsKnown
<1>2. m = [l EXCEPT !.rows = rows, !.stage = "read"]
  <2> DEFINE w == [l EXCEPT !.rows = rows, !.stage = "read"]
  <2>1. w = [l EXCEPT !.rows = rows, !.stage = "read"]
    OBVIOUS
  <2> HIDE DEF rows, w
  <2>2. w = [n |-> l.n, request |-> l.request, rows |-> rows, stage |-> "read"]
    BY <1>1, <2>1 DEF LoadIsRecord
  <2> QED BY <2>2 DEF w
<1>3. loads' = (loads \ {l}) \cup {m} /\ UNCHANGED <<log, screen, preload, save, form>>
  BY <1>2 DEF D!Read
<1>4. /\ RowsTrue(rows) /\ DOMAIN rows = D!CardsOf(l.request.board)
      /\ \A c \in D!CardsOf(l.request.board) : rows[c].version = D!Version(c)
  BY RowsAreTrue DEF BoardInv
<1>5. m.n = l.n /\ m.request = l.request /\ m.rows = rows /\ m.stage = "read" /\ LoadIsRecord(m)
  BY DEF LoadIsRecord
<1> HIDE DEF rows, m
<1>6. RowsSince(screen.since, rows, l.request)
  <2>1. \A c \in D!CardsOf(l.request.board) : c \in D!BoardCards
    BY DEF D!CardsOf
  <2> QED BY <1>4, <2>1 DEF RowsSince, BoardInv, ViewInv, ScreenOK
<1>7. LoadsKnown(screen.asked)'
  BY <1>1, <1>3, <1>4, <1>5 DEF BoardInv, ViewInv, LoadsKnown, RowsTrue, Placed, D!Version
<1>8. LoadsAsked(screen)'
  BY <1>3, <1>5, <1>6 DEF BoardInv, ViewInv, LoadsAsked, RowsSince
<1>9. ScreenOK(screen)' /\ AtRest(screen)' /\ PreloadOK(screen, preload)'
  BY <1>3, ScreenRests DEF BoardInv, ViewInv
<1> QED BY <1>3, <1>7, <1>8, <1>9, RestRests DEF BoardInv, ViewInv

\* An answer is taken by the effect that asked for it, or the loading has failed.
LEMMA TakenStep ==
    ASSUME BoardInv, NEW l \in loads, NEW rows, NEW of, NEW failed \in {TRUE, FALSE},
           D!Ignored(l) \/ RowsTrue(rows),
           D!Ignored(l) \/ failed = TRUE
             \/ (of = D!Request(screen.at) /\ RowsSince(screen.since, rows, of)),
           loads' = loads \ {l}, UNCHANGED <<log, preload, save, form>>,
           screen' = IF D!Ignored(l) THEN screen
                     ELSE [screen EXCEPT !.of = of, !.shown = rows, !.failed = failed,
                                         !.loading = FALSE]
    PROVE  BoardInv'
<1>1. CASE D!Ignored(l)
  <2>1. UNCHANGED screen
    BY <1>1
  <2> QED BY <2>1, LoadsKept, ScreenRests, RestRests DEF BoardInv, ViewInv
<1>2. CASE ~D!Ignored(l)
  <2>1. screen' = [screen EXCEPT !.of = of, !.shown = rows, !.failed = failed, !.loading = FALSE]
    BY <1>2
  <2>2. ScreenIsRecord(screen)
    BY DEF BoardInv, ViewInv, ScreenOK
  <2>3. screen' = [at |-> screen.at, reads |-> screen.reads, writes |-> screen.writes,
                   loading |-> FALSE, failed |-> failed, asked |-> screen.asked,
                   since |-> screen.since, of |-> of, shown |-> rows,
                   editor |-> screen.editor, drag |-> screen.drag, undo |-> screen.undo]
    BY <2>1, <2>2 DEF ScreenIsRecord
  <2>4. /\ ScreenIsRecord(screen)' /\ screen'.at = screen.at /\ screen'.asked = screen.asked
        /\ screen'.since = screen.since /\ screen'.of = of /\ screen'.shown = rows
        /\ screen'.reads = screen.reads /\ screen'.editor = screen.editor
        /\ screen'.drag = screen.drag /\ screen'.undo = screen.undo
        /\ screen'.failed = failed /\ screen'.loading = FALSE
    <3>1. screen'.failed = failed /\ screen'.loading = FALSE
      BY <2>3
    <3>2. /\ screen'.at = screen.at /\ screen'.asked = screen.asked
          /\ screen'.since = screen.since /\ screen'.of = of /\ screen'.shown = rows
          /\ screen'.reads = screen.reads /\ screen'.editor = screen.editor
          /\ screen'.drag = screen.drag /\ screen'.undo = screen.undo
          /\ screen'.writes = screen.writes
      BY <2>3
    <3>3. ScreenIsRecord(screen)'
      BY <2>3, <3>1, <3>2 DEF ScreenIsRecord
    <3> QED BY <3>1, <3>2, <3>3
  <2>5. RowsTrue(rows)' /\ RowsTrue(screen.shown)'
    <3>1. RowsTrue(rows)
      BY <1>2
    <3>2. RowsTrue(rows)'
      BY <2>4, <3>1 DEF RowsTrue, Placed, D!Version
    <3> QED BY <2>4, <3>2
  <2>6. ScreenOK(screen)'
    BY <2>4, <2>5 DEF BoardInv, ViewInv, ScreenOK, RowsSince, EditorOK, DragOK, UndoOK, OwnMove,
                      Placed, D!Version
  <2>7. AtRest(screen)'
    BY <1>2, <2>4 DEF AtRest, RowsSince
  <2>8. LoadsKnown(screen.asked)' /\ LoadsAsked(screen)'
    BY <2>4, LoadsKept DEF BoardInv
  <2>9. PreloadOK(screen, preload)'
    BY <2>4 DEF BoardInv, ViewInv, PreloadOK, PreloadIsRecord, D!RequestKey, D!Request
  <2> QED BY <2>6, <2>7, <2>8, <2>9, RestRests DEF BoardInv, ViewInv
<1> QED BY <1>1, <1>2

\* The answer of a load comes: it is taken, or it is one of an earlier request.
LEMMA ReceiveStep ==
    ASSUME BoardInv, NEW l \in loads, D!Receive(l) PROVE BoardInv'
<1> DEFINE rows == l.rows
           of == l.request
           failed == screen.failed
<1>1. D!Ignored(l) \/ (of = D!Request(screen.at) /\ RowsSince(screen.since, rows, of))
  BY DEF D!Receive, D!Ignored, BoardInv, ViewInv, LoadsAsked
<1>2. RowsTrue(rows) /\ failed \in {TRUE, FALSE}
  BY DEF BoardInv, ViewInv, LoadsKnown, ScreenOK
<1>3. /\ loads' = loads \ {l} /\ UNCHANGED <<log, preload, save, form>>
      /\ screen' = IF D!Ignored(l) THEN screen
                   ELSE [screen EXCEPT !.of = of, !.shown = rows, !.loading = FALSE]
  BY DEF D!Receive
<1>4. ScreenIsRecord(screen)
  BY DEF BoardInv, ViewInv, ScreenOK
<1> HIDE DEF rows, of
<1>5. [screen EXCEPT !.of = of, !.shown = rows, !.loading = FALSE]
        = [screen EXCEPT !.of = of, !.shown = rows, !.failed = failed, !.loading = FALSE]
  BY <1>4 DEF ScreenIsRecord
<1> HIDE DEF failed
<1>6. screen' = IF D!Ignored(l) THEN screen
                ELSE [screen EXCEPT !.of = of, !.shown = rows, !.failed = failed, !.loading = FALSE]
  BY <1>3, <1>5
<1> QED BY <1>1, <1>2, <1>3, <1>6, TakenStep

\* A load fails: the rows go away if it is the last one.
LEMMA LoseLoadStep ==
    ASSUME BoardInv, NEW l \in loads, D!LoseLoad(l) PROVE BoardInv'
<1> DEFINE rows == D!Nothing
           of == D!Request(screen.at)
           failed == TRUE
<1>1. RowsTrue(rows) /\ failed \in {TRUE, FALSE} /\ failed = TRUE
  BY DEF RowsTrue, D!Nothing
<1>2. /\ loads' = loads \ {l} /\ UNCHANGED <<log, preload, save, form>>
      /\ screen' = IF D!Ignored(l) THEN screen
                   ELSE [screen EXCEPT !.of = of, !.shown = rows, !.failed = failed,
                                       !.loading = FALSE]
  BY DEF D!LoseLoad
<1> HIDE DEF rows, of, failed
<1> QED BY <1>1, <1>2, TakenStep

\* The screen with other rights, another editor, card in the hand or move to take back.
Touched(w, e, d, u) ==
    [at |-> screen.at, reads |-> screen.reads, writes |-> w, loading |-> screen.loading,
     failed |-> screen.failed, asked |-> screen.asked, since |-> screen.since,
     of |-> screen.of, shown |-> screen.shown, editor |-> e, drag |-> d, undo |-> u]

\* That leaves what is shown and asked for in order.
LEMMA TouchedKeeps ==
    ASSUME ViewInv, NEW w, NEW e, NEW d, NEW u, screen' = Touched(w, e, d, u),
           EditorOK(e), DragOK(d), UndoOK(u), UNCHANGED <<log, preload, loads>>
    PROVE  ViewInv'
<1>1. /\ ScreenIsRecord(screen)' /\ screen'.at = screen.at /\ screen'.asked = screen.asked
      /\ screen'.loading = screen.loading /\ screen'.failed = screen.failed
      /\ screen'.since = screen.since /\ screen'.of = screen.of /\ screen'.shown = screen.shown
      /\ screen'.reads = screen.reads /\ screen'.editor = e /\ screen'.drag = d /\ screen'.undo = u
  BY DEF Touched, ScreenIsRecord
<1>2. EditorOK(screen.editor)' /\ DragOK(screen.drag)' /\ UndoOK(screen.undo)'
  BY <1>1 DEF EditorOK, DragOK, UndoOK, OwnMove, Placed, D!Version
<1>3. D!Request(screen.at)' = D!Request(screen.at) /\ screen'.at \in D!Contexts
  BY <1>1 DEF D!Request, ViewInv, ScreenOK
<1> QED BY <1>1, <1>2, <1>3, ViewKeeps

\* The rights of the clerk change.
LEMMA ChangeRightsStep ==
    ASSUME BoardInv, D!ChangeRights PROVE BoardInv'
<1> DEFINE none == D!None
           w == ~screen.writes
<1>1. screen' = [screen EXCEPT !.writes = w, !.drag = none, !.undo = none, !.editor = none]
  BY DEF D!ChangeRights
<1>2. EditorOK(none) /\ DragOK(none) /\ UndoOK(none)
  BY DEF EditorOK, DragOK, UndoOK
<1> HIDE DEF none, w
<1>3. screen' = Touched(w, none, none, none)
  BY <1>1 DEF Touched, ScreenIsRecord, BoardInv, ViewInv, ScreenOK
<1> QED BY <1>2, <1>3, TouchedKeeps, RestRests DEF BoardInv, D!ChangeRights

\* A card of the board is taken in the hand.
LEMMA GrabStep ==
    ASSUME BoardInv, NEW c \in D!BoardCards, D!Grab(c) PROVE BoardInv'
<1> DEFINE d == [kind |-> "drag", context |-> screen.at, card |-> c, row |-> screen.shown[c]]
<1>1. screen' = [screen EXCEPT !.drag = d]
  BY DEF D!Grab
<1>2. DragOK(d)
  BY DEF D!Grab, D!InReach, DragOK, BoardInv, ViewInv, ScreenOK, RowsTrue
<1> HIDE DEF d
<1>3. screen' = Touched(screen.writes, screen.editor, d, screen.undo)
  BY <1>1 DEF Touched, ScreenIsRecord, BoardInv, ViewInv, ScreenOK
<1>4. EditorOK(screen.editor) /\ UndoOK(screen.undo)
  BY DEF BoardInv, ViewInv, ScreenOK
<1> QED BY <1>2, <1>3, <1>4, TouchedKeeps, RestRests DEF BoardInv, D!Grab

\* The hand is empty again.
LEMMA LetGo ==
    ASSUME BoardInv, screen' = [screen EXCEPT !.drag = D!None], UNCHANGED <<log, preload, loads>>
    PROVE  ViewInv'
<1> DEFINE none == D!None
<1>1. screen' = [screen EXCEPT !.drag = none]
  OBVIOUS
<1>2. DragOK(none)
  BY DEF DragOK
<1> HIDE DEF none
<1>3. screen' = Touched(screen.writes, screen.editor, none, screen.undo)
  BY <1>1 DEF Touched, ScreenIsRecord, BoardInv, ViewInv, ScreenOK
<1>4. EditorOK(screen.editor) /\ UndoOK(screen.undo)
  BY DEF BoardInv, ViewInv, ScreenOK
<1> QED BY <1>2, <1>3, <1>4, TouchedKeeps DEF BoardInv

\* The clerk lets the card go where it was.
LEMMA CancelStep ==
    ASSUME BoardInv, D!CancelInteraction PROVE BoardInv'
BY LetGo, RestRests DEF BoardInv, D!CancelInteraction

\* A card is dropped: its new place is sent.
LEMMA DropStep ==
    ASSUME BoardInv, NEW to \in Slots, D!Drop(to) PROVE BoardInv'
<1> DEFINE d == screen.drag
           kind == IF d.card \in Histories THEN "move" ELSE "edit"
<1>1. ViewInv'
  BY LetGo DEF D!Drop
<1>2. LogOK' /\ FormOK'
  BY RestRests DEF D!Drop, BoardInv, LogOK, FormOK
<1>3. /\ d.card \in D!BoardCards /\ Placed(d.card, d.row) /\ d.context = screen.at
      /\ screen.at \in D!Contexts
  BY DEF D!Drop, BoardInv, ViewInv, ScreenOK, DragOK, Placed
<1>4. save' = [kind |-> kind, context |-> screen.at, card |-> d.card, row |-> d.row, to |-> to,
               expected |-> d.row.version, stage |-> "sent", result |-> 0]
  BY DEF D!Drop, D!Sent
<1>5. /\ kind = "move" => d.card \in Histories
      /\ kind = "edit" => d.card \in Lives
      /\ kind \in {"move", "edit"}
  BY <1>3 DEF D!BoardCards
<1> HIDE DEF d, kind
<1>6. /\ save'.kind = kind /\ save'.context = screen.at /\ save'.card = d.card /\ save'.row = d.row
      /\ save'.to = to /\ save'.expected = d.row.version /\ save'.stage = "sent"
      /\ save' = [kind |-> save'.kind, context |-> save'.context, card |-> save'.card,
                  row |-> save'.row, to |-> save'.to, expected |-> save'.expected,
                  stage |-> save'.stage, result |-> save'.result]
  BY <1>4
<1>7. UNCHANGED log
  BY DEF D!Drop
<1>8. \A c, r : Placed(c, r) => Placed(c, r)'
  BY <1>7 DEF Placed, D!Version
<1>9. SaveOK'
  BY <1>3, <1>5, <1>6, <1>8 DEF SaveOK, Places
<1> QED BY <1>1, <1>2, <1>9 DEF BoardInv

\* The editor opens, by a key or by a click.
LEMMA OpenEditorStep ==
    ASSUME BoardInv, NEW c, D!OpenEditor(c) PROVE BoardInv'
<1> DEFINE e == D!Editing(c)
<1>1. screen' = [screen EXCEPT !.editor = e]
  BY DEF D!OpenEditor
<1>2. EditorOK(e)
  BY DEF D!OpenEditor, EditorOK, D!Editing
<1> HIDE DEF e
<1>3. screen' = Touched(screen.writes, e, screen.drag, screen.undo)
  BY <1>1 DEF Touched, ScreenIsRecord, BoardInv, ViewInv, ScreenOK
<1>4. DragOK(screen.drag) /\ UndoOK(screen.undo)
  BY DEF BoardInv, ViewInv, ScreenOK
<1> QED BY <1>2, <1>3, <1>4, TouchedKeeps, RestRests DEF BoardInv, D!OpenEditor

\* The card in the hand is let go where it is.
LEMMA ClickStep ==
    ASSUME BoardInv, D!Click PROVE BoardInv'
<1> DEFINE none == D!None
           e == D!Editing(screen.drag.card)
<1>1. screen' = [screen EXCEPT !.drag = none, !.editor = e]
  BY DEF D!Click
<1>2. EditorOK(e) /\ DragOK(none)
  BY DEF D!Click, EditorOK, DragOK, D!Editing
<1> HIDE DEF none, e
<1>3. screen' = Touched(screen.writes, e, none, screen.undo)
  BY <1>1 DEF Touched, ScreenIsRecord, BoardInv, ViewInv, ScreenOK
<1>4. UndoOK(screen.undo)
  BY DEF BoardInv, ViewInv, ScreenOK
<1> QED BY <1>2, <1>3, <1>4, TouchedKeeps, RestRests DEF BoardInv, D!Click

\* The editor is closed.
LEMMA CloseEditorStep ==
    ASSUME BoardInv, D!CloseEditor PROVE BoardInv'
<1> DEFINE none == D!None
<1>1. screen' = [screen EXCEPT !.editor = none]
  BY DEF D!CloseEditor
<1>2. EditorOK(none)
  BY DEF EditorOK
<1> HIDE DEF none
<1>3. screen' = Touched(screen.writes, none, screen.drag, screen.undo)
  BY <1>1 DEF Touched, ScreenIsRecord, BoardInv, ViewInv, ScreenOK
<1>4. DragOK(screen.drag) /\ UndoOK(screen.undo)
  BY DEF BoardInv, ViewInv, ScreenOK
<1> QED BY <1>2, <1>3, <1>4, TouchedKeeps, RestRests DEF BoardInv, D!CloseEditor

\* The editor is sent, or its answer has come.
LEMMA EditorBusy ==
    ASSUME ViewInv, screen.editor # D!None, NEW busy,
           screen' = [screen EXCEPT !.editor.busy = busy], UNCHANGED <<log, preload, loads>>
    PROVE  ViewInv'
<1> DEFINE e == [screen.editor EXCEPT !.busy = busy]
<1>1. screen' = [screen EXCEPT !.editor = e]
  OBVIOUS
<1>2. EditorOK(e)
  <2>1. EditorOK(screen.editor)
    BY DEF ViewInv, ScreenOK
  <2>2. e = [kind |-> screen.editor.kind, card |-> screen.editor.card, busy |-> busy]
    BY <2>1 DEF EditorOK
  <2> QED BY <2>1, <2>2 DEF EditorOK
<1> HIDE DEF e
<1>3. screen' = Touched(screen.writes, e, screen.drag, screen.undo)
  BY <1>1 DEF Touched, ScreenIsRecord, ViewInv, ScreenOK
<1>4. DragOK(screen.drag) /\ UndoOK(screen.undo)
  BY DEF ViewInv, ScreenOK
<1> QED BY <1>2, <1>3, <1>4, TouchedKeeps

\* Nothing of the view changes.
LEMMA ViewRests ==
    ASSUME ViewInv, UNCHANGED <<log, screen, preload, loads>> PROVE ViewInv'
<1>1. ScreenOK(screen)' /\ AtRest(screen)' /\ PreloadOK(screen, preload)'
  BY ScreenRests DEF ViewInv
<1>2. LoadsKnown(screen.asked)' /\ LoadsAsked(screen)'
  BY LoadsKept DEF ViewInv
<1> QED BY <1>1, <1>2 DEF ViewInv

\* The editor is sent.
LEMMA SubmitStep ==
    ASSUME BoardInv, NEW to \in Slots, D!SubmitEditor(to) PROVE BoardInv'
<1>1. ViewInv'
  BY EditorBusy DEF BoardInv, D!SubmitEditor
<1>2. LogOK' /\ SaveOK'
  BY DEF D!SubmitEditor, BoardInv, LogOK, SaveOK, OwnMove, Placed, D!Version
<1>3. FormOK'
  BY DEF D!SubmitEditor, D!Sent, BoardInv, ViewInv, ScreenOK, EditorOK, FormOK, Places
<1> QED BY <1>1, <1>2, <1>3 DEF BoardInv

\* The clerk takes back the last move: the request names it.
LEMMA UndoStep ==
    ASSUME BoardInv, D!UndoHistoryMove PROVE BoardInv'
<1> DEFINE u == screen.undo
<1>1. ViewInv'
  BY ViewRests DEF BoardInv, D!UndoHistoryMove
<1>2. LogOK' /\ FormOK'
  BY DEF D!UndoHistoryMove, BoardInv, LogOK, FormOK
<1>3. OwnMove(u.card, u.expected, u.to) 
  BY DEF D!UndoHistoryMove, BoardInv, ViewInv, ScreenOK, UndoOK
<1>4. save' = [kind |-> "undo", context |-> screen.at, card |-> u.card, row |-> D!None,
               to |-> u.to, expected |-> u.expected, stage |-> "sent", result |-> 0]
  BY DEF D!UndoHistoryMove, D!Sent, D!UndoVersion
<1> HIDE DEF u
<1>5. /\ save'.kind = "undo" /\ save'.context = screen.at /\ save'.card = u.card
      /\ save'.to = u.to /\ save'.expected = u.expected /\ save'.stage = "sent"
      /\ save' = [kind |-> save'.kind, context |-> save'.context, card |-> save'.card,
                  row |-> save'.row, to |-> save'.to, expected |-> save'.expected,
                  stage |-> save'.stage, result |-> save'.result]
  BY <1>4
<1>6. \A c, n, to : OwnMove(c, n, to) =>
        OwnMove(c, n, to)' /\ c \in D!BoardCards /\ to \in Places
  <2>1. UNCHANGED log
    BY DEF D!UndoHistoryMove
  <2> QED BY <2>1 DEF OwnMove, D!Version, D!BoardCards
<1>7. SaveOK'
  BY <1>3, <1>5, <1>6 DEF SaveOK
<1> QED BY <1>1, <1>2, <1>7 DEF BoardInv

\* What others put, and what the server does with what is sent.
LEMMA ElsewhereStep ==
    ASSUME BoardInv, NEW c \in D!BoardCards, NEW to \in Slots, D!Elsewhere(c, to) PROVE BoardInv'
<1>1. LogOK' /\ Grows
  BY Putting DEF D!Elsewhere, BoardInv, Places
<1>2. UNCHANGED <<screen, preload, loads, save, form>>
  BY DEF D!Elsewhere
<1>3. FormOK'
  BY <1>2 DEF BoardInv, FormOK
<1> QED BY <1>1, <1>2, <1>3, ViewStays, SaveStays DEF BoardInv

\* The form is written, of a card that is live.
LEMMA ServeFormStep ==
    ASSUME BoardInv, D!ServeForm PROVE BoardInv'
<1>1. form # D!None /\ form.to \in Places /\ form.card \in D!BoardCards /\ form.card \in Lives
  BY DEF D!ServeForm, BoardInv, FormOK, D!BoardCards
<1>2. LogOK' /\ Grows
  BY <1>1, Putting DEF D!ServeForm, BoardInv
<1>3. UNCHANGED <<screen, preload, loads, save>> /\ form' = [form EXCEPT !.stage = "saved"]
  BY DEF D!ServeForm
<1>4. form' = [kind |-> form.kind, context |-> form.context, card |-> form.card, row |-> form.row,
               to |-> form.to, expected |-> form.expected, stage |-> "saved",
               result |-> form.result]
  BY <1>1, <1>3 DEF BoardInv, FormOK
<1>5. FormOK'
  BY <1>1, <1>4 DEF FormOK
<1> QED BY <1>2, <1>3, <1>5, ViewStays, SaveStays DEF BoardInv

\* The save on its way, at its next stage.
LEMMA SaveIs ==
    ASSUME SaveOK, save # D!None, NEW stage, NEW result,
           save' = [save EXCEPT !.stage = stage, !.result = result]
    PROVE  /\ save'.kind = save.kind /\ save'.context = save.context /\ save'.card = save.card
           /\ save'.row = save.row /\ save'.to = save.to /\ save'.expected = save.expected
           /\ save'.stage = stage /\ save'.result = result
           /\ save' = [kind |-> save'.kind, context |-> save'.context, card |-> save'.card,
                       row |-> save'.row, to |-> save'.to, expected |-> save'.expected,
                       stage |-> save'.stage, result |-> save'.result]
<1>1. save' = [kind |-> save.kind, context |-> save.context, card |-> save.card,
               row |-> save.row, to |-> save.to, expected |-> save.expected,
               stage |-> stage, result |-> result]
  BY DEF SaveOK
<1> QED BY <1>1

\* The save is written, or refused as stale.
LEMMA ServeStep ==
    ASSUME BoardInv, D!Serve PROVE BoardInv'
<1>0. PICK c : c = save.card
  OBVIOUS
<1> DEFINE n == D!Version(c) + 1
<1>1. /\ save # D!None /\ c \in D!BoardCards /\ save.to \in Places
      /\ save.kind \in {"move", "edit", "undo"}
      /\ save.kind = "undo" => OwnMove(c, save.expected, save.to)
      /\ save.kind = "move" => /\ c \in Histories /\ Placed(c, save.row)
                               /\ save.expected = save.row.version
      /\ save.kind = "edit" => c \in Lives
  BY <1>0 DEF D!Serve, BoardInv, SaveOK
<1>2. UNCHANGED <<screen, preload, loads, form>>
  BY DEF D!Serve
<1>3. FormOK'
  BY <1>2 DEF BoardInv, FormOK
<1>4. CASE c \in Lives \/ D!CurrentVersion(c, save.expected)
  <2>1. D!Put(c, save.to, "me", save.kind) /\ save' = [save EXCEPT !.stage = "saved", !.result = n]
    BY <1>0, <1>4 DEF D!Serve
  <2>2. /\ LogOK' /\ Grows /\ D!Version(c)' = n /\ n \in Nat \ {0}
        /\ log'[c][n + 1] = [slot |-> save.to, by |-> "me", kind |-> save.kind]
    <3>1. /\ LogOK' /\ Grows /\ D!Version(c)' = D!Version(c) + 1 /\ D!Version(c) \in Nat
          /\ log'[c][D!Version(c)' + 1] = [slot |-> save.to, by |-> "me", kind |-> save.kind]
      <4>1. LogOK /\ "me" \in {"other", "me"} /\ save.kind \in {"move", "edit", "undo", "form"}
        BY <1>1 DEF BoardInv
      <4> QED BY <1>1, <2>1, <4>1, Putting
    <3> QED BY <3>1
  <2>3. save.kind = "move" => n = save.expected + 1
    BY <1>1, <1>4, WebAssumption DEF D!CurrentVersion
  <2> HIDE DEF n
  <2>4. /\ save'.kind = save.kind /\ save'.context = save.context /\ save'.card = c
        /\ save'.row = save.row /\ save'.to = save.to /\ save'.expected = save.expected
        /\ save'.stage = "saved" /\ save'.result = n
        /\ save' = [kind |-> save'.kind, context |-> save'.context, card |-> save'.card,
                    row |-> save'.row, to |-> save'.to, expected |-> save'.expected,
                    stage |-> save'.stage, result |-> save'.result]
    BY <1>0, <1>1, <2>1, SaveIs DEF BoardInv
  <2>5. \A d, m, to : OwnMove(d, m, to) => OwnMove(d, m, to)'
    BY <2>2, OwnMoveStays DEF BoardInv
  <2>6. \A d, r : Placed(d, r) => Placed(d, r)'
    BY <2>2, PlacedStays DEF BoardInv
  <2>7. SaveOK'
    BY <1>1, <2>2, <2>3, <2>4, <2>5, <2>6 DEF SaveOK
  <2> QED BY <1>2, <1>3, <2>2, <2>7, ViewStays DEF BoardInv
<1>5. CASE ~(c \in Lives \/ D!CurrentVersion(c, save.expected))
  <2>1. save' = [save EXCEPT !.stage = "stale"] /\ UNCHANGED log
    BY <1>0, <1>5 DEF D!Serve
  <2>2. save' = [kind |-> save.kind, context |-> save.context, card |-> save.card,
               row |-> save.row, to |-> save.to, expected |-> save.expected,
               stage |-> "stale", result |-> save.result]
    BY <1>1, <2>1 DEF SaveOK, BoardInv
  <2>3. /\ save.kind = "undo" => OwnMove(c, save.expected, save.to)'
        /\ save.kind = "move" => Placed(c, save.row)'
    BY <1>1, <2>1 DEF OwnMove, Placed, D!Version
  <2>4. SaveOK'
    BY <1>0, <1>1, <2>2, <2>3 DEF SaveOK
  <2>5. ViewInv' /\ LogOK'
    BY <1>2, <2>1, ViewRests DEF BoardInv, LogOK
  <2> QED BY <1>3, <2>4, <2>5 DEF BoardInv
<1> QED BY <1>4, <1>5

\* The save fails.
LEMMA FailStep ==
    ASSUME BoardInv, D!Fail PROVE BoardInv'
<1>1. UNCHANGED <<log, screen, preload, loads, form>> /\ save' = D!None
  BY DEF D!Fail
<1>2. SaveOK' /\ FormOK' /\ LogOK'
  BY <1>1 DEF BoardInv, SaveOK, FormOK, LogOK
<1> QED BY <1>1, <1>2, ViewRests DEF BoardInv

\* The form fails, and can be sent again.
LEMMA FailFormStep ==
    ASSUME BoardInv, D!FailForm PROVE BoardInv'
<1>1. UNCHANGED <<log, preload, loads, save>> /\ form' = D!None
      /\ screen' = (IF screen.editor = D!None THEN screen ELSE [screen EXCEPT !.editor.busy = FALSE])
  BY DEF D!FailForm
<1>2. SaveOK' /\ FormOK' /\ LogOK'
  BY <1>1 DEF BoardInv, SaveOK, FormOK, LogOK, OwnMove, Placed, D!Version
<1>3. CASE screen.editor = D!None
  BY <1>1, <1>2, <1>3, ViewRests DEF BoardInv
<1>4. CASE screen.editor # D!None
  BY <1>1, <1>2, <1>4, EditorBusy DEF BoardInv
<1> QED BY <1>3, <1>4

\* The number that is in the key of a load moves.
LEMMA RefreshedIs ==
    ASSUME ViewInv, NEW x PROVE PreloadIsRecord(D!Refreshed) /\ D!Invalidated(x, D!Refreshed)
<1> DEFINE yes == TRUE
<1>1. D!Refreshed = [preload EXCEPT !.refreshed = yes]
  BY DEF D!Refreshed
<1>2. yes = TRUE
  OBVIOUS
<1> HIDE DEF yes
<1>3. D!Refreshed = PropsAre(preload.props, yes)
  BY <1>1 DEF PropsAre, ViewInv, PreloadOK, PreloadIsRecord
<1> QED BY <1>2, <1>3, SeedIsOver

\* A screen with other rows, another move to take back and editor, and otherwise the same, loads.
LEMMA LoadsAgain ==
    ASSUME BoardInv, NEW shown, NEW e, NEW u,
           D!Rerender([at |-> screen.at, reads |-> screen.reads, writes |-> screen.writes,
                       loading |-> screen.loading, failed |-> screen.failed,
                       asked |-> screen.asked, since |-> screen.since, of |-> screen.of,
                       shown |-> shown, editor |-> e, drag |-> screen.drag, undo |-> u],
                      D!Refreshed),
           RowsTrue(shown), EditorOK(e), UndoOK(u), UNCHANGED log
    PROVE  ViewInv'
<1> DEFINE x == [at |-> screen.at, reads |-> screen.reads, writes |-> screen.writes,
                 loading |-> screen.loading, failed |-> screen.failed, asked |-> screen.asked,
                 since |-> screen.since, of |-> screen.of, shown |-> shown, editor |-> e,
                 drag |-> screen.drag, undo |-> u]
<1>1. /\ ScreenIsRecord(x) /\ x.at = screen.at /\ x.asked = screen.asked /\ x.since = screen.since
      /\ x.reads = screen.reads /\ x.loading = screen.loading /\ x.failed = screen.failed
      /\ x.shown = shown /\ x.editor = e /\ x.drag = screen.drag /\ x.undo = u
  BY DEF ScreenIsRecord
<1>2. D!Rerender(x, D!Refreshed)
  OBVIOUS
<1> HIDE DEF x
<1>3. ScreenOK(x) /\ LoadsKnown(x.asked)
  BY <1>1 DEF ScreenOK, BoardInv, ViewInv
<1>4. PreloadIsRecord(D!Refreshed) /\ D!Invalidated(x, D!Refreshed)
  BY RefreshedIs DEF BoardInv
<1> QED BY <1>2, <1>3, <1>4, RerenderKeeps DEF BoardInv

\* The clerk loads again.
LEMMA RefreshStep ==
    ASSUME BoardInv, D!Refresh PROVE BoardInv'
<1>1. D!Rerender(screen, D!Refreshed) /\ UNCHANGED <<log, save, form>>
  BY DEF D!Refresh
<1>2. PreloadIsRecord(D!Refreshed) /\ D!Invalidated(screen, D!Refreshed)
  BY RefreshedIs DEF BoardInv
<1> QED BY <1>1, <1>2, RerenderKeeps, RestRests DEF BoardInv, ViewInv

\* The answer of the form comes, and the board loads again.
LEMMA AnswerFormStep ==
    ASSUME BoardInv, D!AnswerForm PROVE BoardInv'
<1> DEFINE none == D!None
           x == [screen EXCEPT !.undo = none, !.editor = none]
<1>1. /\ UNCHANGED <<log, save>> /\ form' = none
      /\ UNCHANGED <<screen, preload, loads>> \/ D!Rerender(x, D!Refreshed)
  BY DEF D!AnswerForm
<1>2. EditorOK(none) /\ UndoOK(none) /\ RowsTrue(screen.shown)
  BY DEF EditorOK, UndoOK, BoardInv, ViewInv, ScreenOK
<1>3. x = [screen EXCEPT !.undo = none, !.editor = none]
  OBVIOUS
<1>4. LogOK' /\ SaveOK' /\ FormOK'
  BY <1>1 DEF BoardInv, LogOK, SaveOK, FormOK, OwnMove, Placed, D!Version
<1> HIDE DEF none, x
<1>5. x = [at |-> screen.at, reads |-> screen.reads, writes |-> screen.writes,
           loading |-> screen.loading, failed |-> screen.failed, asked |-> screen.asked,
           since |-> screen.since, of |-> screen.of, shown |-> screen.shown, editor |-> none,
           drag |-> screen.drag, undo |-> none]
  BY <1>3 DEF BoardInv, ViewInv, ScreenOK, ScreenIsRecord
<1>6. CASE UNCHANGED <<screen, preload, loads>>
  BY <1>1, <1>4, <1>6, ViewRests DEF BoardInv
<1>7. CASE D!Rerender(x, D!Refreshed)
  <2>1. ViewInv'
    BY <1>1, <1>2, <1>5, <1>7, LoadsAgain
  <2> QED BY <1>4, <2>1 DEF BoardInv
<1> QED BY <1>1, <1>6, <1>7

\* What the answer makes of the rows that are shown.
PatchedRows ==
    IF save.kind = "move" /\ save.card \in DOMAIN screen.shown
    THEN [screen.shown EXCEPT ![save.card] = [slot |-> save.to, version |-> save.result]]
    ELSE screen.shown

\* The screen with those rows, as a record.
LEMMA PatchedIs ==
    ASSUME BoardInv
    PROVE  D!Patched(screen) =
             [at |-> screen.at, reads |-> screen.reads, writes |-> screen.writes,
              loading |-> screen.loading, failed |-> screen.failed, asked |-> screen.asked,
              since |-> screen.since, of |-> screen.of, shown |-> PatchedRows,
              editor |-> screen.editor, drag |-> screen.drag, undo |-> screen.undo]
<1> DEFINE row == [slot |-> save.to, version |-> save.result]
           rows == [screen.shown EXCEPT ![save.card] = row]
<1>1. ScreenIsRecord(screen)
  BY DEF BoardInv, ViewInv, ScreenOK
<1>2. CASE save.kind = "move" /\ save.card \in DOMAIN screen.shown
  <2>1. D!Patched(screen) = [screen EXCEPT !.shown = rows] /\ PatchedRows = rows
    BY <1>2 DEF D!Patched, PatchedRows
  <2> HIDE DEF rows
  <2>2. [screen EXCEPT !.shown = rows] =
             [at |-> screen.at, reads |-> screen.reads, writes |-> screen.writes,
              loading |-> screen.loading, failed |-> screen.failed, asked |-> screen.asked,
              since |-> screen.since, of |-> screen.of, shown |-> rows,
              editor |-> screen.editor, drag |-> screen.drag, undo |-> screen.undo]
    BY <1>1 DEF ScreenIsRecord
  <2> QED BY <2>1, <2>2
<1>3. CASE ~(save.kind = "move" /\ save.card \in DOMAIN screen.shown)
  <2>1. D!Patched(screen) = screen /\ PatchedRows = screen.shown
    BY <1>3 DEF D!Patched, PatchedRows
  <2> QED BY <1>1, <2>1 DEF ScreenIsRecord
<1> QED BY <1>2, <1>3

\* A move that is saved is a move to take back, and its card has the place it shows.
LEMMA SavedIsTrue ==
    ASSUME BoardInv, save # D!None, save.stage = "saved"
    PROVE  /\ RowsTrue(PatchedRows)
           /\ UndoOK(IF save.kind = "move" THEN D!UndoOf(save) ELSE D!None)
<1> DEFINE c == save.card
           n == save.result
           row == [slot |-> save.to, version |-> n]
<1>1. /\ c \in D!BoardCards /\ n \in Nat \ {0} /\ n <= D!Version(c) /\ save.to \in Places
      /\ log[c][n + 1].slot = save.to /\ log[c][n + 1].by = "me" /\ log[c][n + 1].kind = save.kind
      /\ save.kind = "move" => /\ n = save.expected + 1 /\ c \in Histories
                               /\ save.expected = save.row.version /\ Placed(c, save.row)
  BY DEF BoardInv, SaveOK
<1>2. Placed(c, row)
  BY <1>1 DEF Placed, RowType
<1>3. RowsTrue(PatchedRows)
  <2>1. RowsTrue(screen.shown)
    BY DEF BoardInv, ViewInv, ScreenOK
  <2>2. CASE save.kind = "move" /\ c \in DOMAIN screen.shown
    <3>1. PatchedRows = [screen.shown EXCEPT ![c] = row]
      BY <2>2 DEF PatchedRows
    <3> HIDE DEF row, c
    <3> QED BY <1>2, <2>1, <3>1 DEF RowsTrue
  <2>3. CASE ~(save.kind = "move" /\ c \in DOMAIN screen.shown)
    BY <2>1, <2>3 DEF PatchedRows
  <2> QED BY <2>2, <2>3
<1>4. ASSUME save.kind = "move" PROVE OwnMove(c, n, save.row.slot)
  <2>1. save.row.version + 1 = n /\ save.row.slot = log[c][n].slot /\ save.row.slot \in Places
    BY <1>1, <1>4 DEF Placed, RowType
  <2> QED BY <1>1, <1>4, <2>1 DEF OwnMove
<1>5. D!UndoOf(save).card = c /\ D!UndoOf(save).expected = n /\ D!UndoOf(save).to = save.row.slot
  BY DEF D!UndoOf
<1> QED BY <1>3, <1>4, <1>5 DEF UndoOK

\* The answer of the save comes: the row is patched, the move can be taken back.
LEMMA AnswerStep ==
    ASSUME BoardInv, D!Answer PROVE BoardInv'
<1>1. /\ save # D!None /\ save' = D!None /\ UNCHANGED <<log, form>>
      /\ save.stage \in {"saved", "stale"}
  BY DEF D!Answer
<1>2. LogOK' /\ SaveOK' /\ FormOK'
  BY <1>1 DEF BoardInv, LogOK, SaveOK, FormOK
<1>3. EditorOK(screen.editor) /\ RowsTrue(screen.shown) /\ ScreenIsRecord(screen)
  BY DEF BoardInv, ViewInv, ScreenOK
<1>4. CASE save.context # screen.at
  <2>1. UNCHANGED <<screen, preload, loads>>
    BY <1>4 DEF D!Answer
  <2> QED BY <1>1, <1>2, <2>1, ViewRests DEF BoardInv
<1>5. CASE save.context = screen.at /\ save.stage = "saved"
  <2> DEFINE u == IF save.kind = "move" THEN D!UndoOf(save) ELSE D!None
             p == D!Patched(screen)
             x == [p EXCEPT !.undo = u]
  <2>1. D!Rerender(x, D!Refreshed)
    BY <1>5 DEF D!Answer
  <2>2. RowsTrue(PatchedRows) /\ UndoOK(u)
    BY <1>1, <1>5, SavedIsTrue
  <2>3. x = [p EXCEPT !.undo = u]
    OBVIOUS
  <2> HIDE DEF u, p, x
  <2>4. x = [at |-> screen.at, reads |-> screen.reads, writes |-> screen.writes,
             loading |-> screen.loading, failed |-> screen.failed, asked |-> screen.asked,
             since |-> screen.since, of |-> screen.of, shown |-> PatchedRows,
             editor |-> screen.editor, drag |-> screen.drag, undo |-> u]
    BY <2>3, PatchedIs DEF p
  <2>5. ViewInv'
    BY <1>1, <1>3, <2>1, <2>2, <2>4, LoadsAgain
  <2> QED BY <1>2, <2>5 DEF BoardInv
<1>6. CASE save.context = screen.at /\ save.stage # "saved"
  <2> DEFINE u == D!None
             x == [screen EXCEPT !.undo = u]
  <2>1. D!Rerender(x, D!Refreshed)
    BY <1>6 DEF D!Answer
  <2>2. UndoOK(u)
    BY DEF UndoOK
  <2>3. x = [screen EXCEPT !.undo = u]
    OBVIOUS
  <2> HIDE DEF u, x
  <2>4. x = [at |-> screen.at, reads |-> screen.reads, writes |-> screen.writes,
             loading |-> screen.loading, failed |-> screen.failed, asked |-> screen.asked,
             since |-> screen.since, of |-> screen.of, shown |-> screen.shown,
             editor |-> screen.editor, drag |-> screen.drag, undo |-> u]
    BY <1>3, <2>3 DEF ScreenIsRecord
  <2>5. ViewInv'
    BY <1>1, <1>3, <2>1, <2>2, <2>4, LoadsAgain
  <2> QED BY <1>2, <2>5 DEF BoardInv
<1> QED BY <1>4, <1>5, <1>6

\* Every step of the board keeps the invariant.
LEMMA BoardStep == BoardInv /\ [D!Next]_(D!vars) => BoardInv'
<1> SUFFICES ASSUME BoardInv, [D!Next]_(D!vars) PROVE BoardInv'
  OBVIOUS
<1>1. CASE UNCHANGED D!vars
  BY <1>1, ViewRests, RestRests DEF D!vars, BoardInv
<1>2. ASSUME NEW at \in D!Contexts, NEW props, D!Navigate(at, props) PROVE BoardInv'
  BY <1>2, NavigateStep
<1>3. CASE \/ D!Refresh \/ D!ChangeRights \/ D!CancelInteraction \/ D!Click \/ D!CloseEditor
           \/ D!UndoHistoryMove
  BY <1>3, RefreshStep, ChangeRightsStep, CancelStep, ClickStep, CloseEditorStep, UndoStep
<1>4. ASSUME NEW c \in D!BoardCards,
             D!Grab(c) \/ D!OpenEditor(c) \/ \E to \in Slots : D!Elsewhere(c, to)
      PROVE  BoardInv'
  BY <1>4, GrabStep, OpenEditorStep, ElsewhereStep
<1>5. ASSUME NEW to \in Slots, D!Drop(to) \/ D!SubmitEditor(to) PROVE BoardInv'
  BY <1>5, DropStep, SubmitStep
<1>6. CASE D!Serve \/ D!ServeForm \/ D!Fail \/ D!FailForm \/ D!Answer \/ D!AnswerForm
  BY <1>6, ServeStep, ServeFormStep, FailStep, FailFormStep, AnswerStep, AnswerFormStep
<1>7. ASSUME NEW l \in loads, D!Read(l) \/ D!Receive(l) \/ D!LoseLoad(l) PROVE BoardInv'
  BY <1>7, ReadStep, ReceiveStep, LoseLoadStep
<1>8. CASE D!PageNext
  <2>1. ASSUME NEW props, D!Rendered(props) PROVE BoardInv'
    BY <2>1, RenderedStep
  <2>2. ASSUME NEW at \in D!Entrances, NEW props, D!Return(at, props) PROVE BoardInv'
    BY <2>2, ReturnStep
  <2> QED BY <1>8, <2>1, <2>2, ChangeReadingStep DEF D!PageNext
<1> QED BY <1>1, <1>2, <1>3, <1>4, <1>5, <1>6, <1>7, <1>8 DEF D!Next, D!BoardNext

\* The invariant of the board: every row shown or on its way was true of its card at its
\* version, the load whose answer will be taken asks for what the clerk asked for last,
\* and the seed of the document is over with the first change of the request or props.
THEOREM BoardSafe == D!Spec => []BoardInv
<1>1. D!Init => BoardInv
  BY BoardBegins
<1> QED BY <1>1, BoardStep, PTL DEF D!Spec

\* At rest the board shows the day, salon and search that were asked for last, with no
\* row older than the last run of the load effect: a refresh, a save or another rendering
\* never leaves an earlier board, or the seed of the document, on the screen.
THEOREM BoardShowsTheContext == D!Spec => []ShowsTheContext
<1>1. BoardInv => ShowsTheContext
  <2> SUFFICES ASSUME BoardInv PROVE ShowsTheContext
    OBVIOUS
  <2>1. ASSUME screen.reads, ~screen.loading, ~screen.failed
        PROVE  /\ screen.of = D!Request(screen.at)
               /\ DOMAIN screen.shown = D!CardsOf(screen.at.board)
               /\ \A c \in DOMAIN screen.shown :
                     LET row == screen.shown[c] IN
                     /\ screen.since[c] <= row.version /\ row.version <= D!Version(c)
                     /\ row.slot = log[c][row.version + 1].slot
    <3>1. screen.of = D!Request(screen.at) /\ RowsSince(screen.since, screen.shown, screen.of)
          /\ RowsTrue(screen.shown)
      BY <2>1 DEF BoardInv, ViewInv, AtRest, ScreenOK
    <3>2. screen.of.board = screen.at.board
      BY <3>1 DEF D!Request
    <3> QED BY <3>1, <3>2 DEF RowsSince, RowsTrue, Placed
  <2> QED BY <2>1 DEF ShowsTheContext, D!ShowsTheContext
<1> QED BY <1>1, BoardSafe, PTL

\* Who put a card where, and why, when its log grows.
THEOREM UndoIsOfOwnMove == D!Spec => UndoTakesBackOwnMove
<1> DEFINE Undone(c) ==
        log'[c] # log[c] /\ D!Last(log'[c]).kind = "undo" =>
          /\ D!Last(log[c]).kind = "move" /\ D!Last(log[c]).by = "me"
          /\ D!Last(log'[c]).slot = log[c][D!Version(c)].slot
<1>1. ASSUME BoardInv, [D!Next]_(D!vars), NEW c \in D!BoardCards PROVE Undone(c)
  <2>1. ASSUME NEW d \in D!BoardCards, NEW to \in Places, NEW who \in {"other", "me"},
               NEW kind \in {"move", "edit", "form"}, D!Put(d, to, who, kind)
        PROVE  Undone(c)
    <3>1. /\ log'[d] = Append(log[d], [slot |-> to, by |-> who, kind |-> kind])
          /\ log[d] \in Seq(Puts) /\ (c # d => log'[c] = log[c])
      <4>1. LogOK /\ kind \in {"move", "edit", "undo", "form"} /\ log[d] \in Seq(Puts)
        BY <1>1 DEF BoardInv, LogOK
      <4>2. /\ log'[d] = Append(log[d], [slot |-> to, by |-> who, kind |-> kind])
            /\ \A b \in D!BoardCards \ {d} : log'[b] = log[b]
        BY <2>1, <4>1, Putting
      <4> QED BY <4>1, <4>2
    <3>2. D!Last(log'[d]).kind = kind
      BY <3>1 DEF D!Last
    <3> QED BY <3>1, <3>2
  <2>2. ASSUME NEW d \in D!BoardCards, NEW to \in Slots, D!Elsewhere(d, to) PROVE Undone(c)
    BY <2>1, <2>2 DEF D!Elsewhere, Places
  <2>3. ASSUME D!ServeForm PROVE Undone(c)
    <3>1. form.to \in Places /\ form.card \in D!BoardCards
      BY <1>1, <2>3 DEF D!ServeForm, BoardInv, FormOK, D!BoardCards
    <3> QED BY <2>1, <2>3, <3>1 DEF D!ServeForm
  <2>4. ASSUME D!Serve PROVE Undone(c)
    <3>1. /\ save # D!None /\ SaveOK /\ save.card \in D!BoardCards /\ save.to \in Places
          /\ save.kind \in {"move", "edit", "undo"}
      BY <1>1, <2>4 DEF D!Serve, BoardInv, SaveOK
    <3>2. CASE UNCHANGED log
      BY <3>2
    <3>3. CASE D!Put(save.card, save.to, "me", save.kind) /\ save.kind # "undo"
      BY <2>1, <3>1, <3>3
    <3>4. CASE D!Put(save.card, save.to, "me", save.kind) /\ save.kind = "undo"
                 /\ (save.card \in Lives \/ D!CurrentVersion(save.card, save.expected))
      <4> DEFINE d == save.card
                 n == save.expected
      <4>1. OwnMove(d, n, save.to)
        BY <3>1, <3>4 DEF SaveOK
      <4>2. n = D!Version(d)
        BY <3>4, <4>1, WebAssumption DEF OwnMove, D!CurrentVersion
      <4>3. /\ log'[d] = Append(log[d], [slot |-> save.to, by |-> "me", kind |-> "undo"])
            /\ log[d] \in Seq(Puts) /\ (c # d => log'[c] = log[c])
        BY <1>1, <3>1, <3>4, Putting DEF BoardInv, LogOK
      <4>4. /\ log[d][n + 1].by = "me" /\ log[d][n + 1].kind = "move" /\ save.to = log[d][n].slot
            /\ n + 1 = Len(log[d])
        BY <4>1, <4>2, <4>3 DEF OwnMove, D!Version
      <4>5. D!Last(log'[d]).slot = save.to /\ D!Last(log[d]) = log[d][n + 1]
        BY <4>3, <4>4 DEF D!Last
      <4> QED BY <4>2, <4>3, <4>4, <4>5
    <3> QED BY <2>4, <3>2, <3>3, <3>4 DEF D!Serve
  <2>5. CASE UNCHANGED log
    BY <2>5
  <2> QED BY <1>1, <2>2, <2>3, <2>4, <2>5
          DEF D!Next, D!BoardNext, D!PageNext, D!vars, D!Navigate, D!Rerender, D!Refresh,
              D!Rendered, D!Return, D!ChangeRights, D!ChangeReading, D!CancelInteraction,
              D!Click, D!CloseEditor, D!UndoHistoryMove, D!Grab, D!OpenEditor, D!Drop,
              D!SubmitEditor, D!Fail, D!FailForm, D!Answer, D!AnswerForm, D!Read, D!Receive,
              D!LoseLoad
<1>2. BoardInv /\ [D!Next]_(D!vars) => [\A c \in D!BoardCards : Undone(c)]_(D!vars)
  BY <1>1
<1> QED BY <1>2, BoardSafe, PTL DEF D!Spec, UndoTakesBackOwnMove, D!UndoTakesBackOwnMove

-----------------------------------------------------------------------------
(* Catalog: why no card of a day is without a row or outside its hours.    *)

States == {"absent", "active", "stopped", "deleted"}

\* the row of a card, and its minutes, in a day that was read or is kept
Placing(card) ==
    /\ card.row \in Staff \cup {Nobody}
    /\ card.start \in Nat /\ (card.end = NoEnd \/ card.end \in Nat)

\* no card is of staff that is deleted or not there yet
CardsOK ==
    /\ DOMAIN cards \subseteq Cards
    /\ \A c \in DOMAIN cards :
          Placing(cards[c]) /\ (cards[c].row \in Staff => C!Exists(cards[c].row))

\* a day that was read refers to staff that was not deleted when the reading began
DayOK(day) ==
    /\ DOMAIN day \subseteq Cards
    /\ \A c \in DOMAIN day :
          /\ Placing(day[c])
          /\ day[c].row \in Staff => reading.staff[day[c].row] # "deleted"

ReadingOK ==
    reading = C!None \/
    /\ reading = [kind |-> "reading", staff |-> reading.staff, missing |-> reading.missing,
                  live |-> reading.live, history |-> reading.history, shifts |-> reading.shifts]
    /\ reading.staff \in [Staff -> States]
    /\ \A s \in Staff : reading.staff[s] = "deleted" => entry[s] = "deleted"
    /\ DayOK(reading.live) /\ DayOK(reading.history)

RemovingOK == removing = C!None \/ removing.of \in Staff \cup Menus

CatalogInv == entry \in [C!Entries -> States] /\ CardsOK /\ ReadingOK /\ RemovingOK

\* What is deleted stays so, and cards keep their rows.
LEMMA StaffStays ==
    ASSUME CatalogInv, entry' \in [C!Entries -> States], UNCHANGED <<cards, reading>>, RemovingOK',
           \A s \in Staff : entry[s] = "deleted" => entry'[s] = "deleted",
           \A c \in DOMAIN cards : cards[c].row \in Staff => C!Exists(cards[c].row)'
    PROVE  CatalogInv'
<1>1. CardsOK'
  BY DEF CatalogInv, CardsOK, Placing
<1>2. ReadingOK'
  BY DEF CatalogInv, ReadingOK, DayOK, Placing
<1> QED BY <1>1, <1>2 DEF CatalogInv

\* The invariant holds of what there is at first.
LEMMA CatalogBegins == C!Init => CatalogInv
<1> SUFFICES ASSUME C!Init PROVE CatalogInv
  OBVIOUS
<1>1. entry \in [C!Entries -> States]
  BY DEF C!Init, States
<1> QED BY <1>1 DEF C!Init, CatalogInv, CardsOK, ReadingOK, RemovingOK

\* An entry is written that was not deleted.
LEMMA SaveStep ==
    ASSUME CatalogInv, NEW e \in C!Entries, NEW state \in {"active", "stopped"}, C!Save(e, state)
    PROVE  CatalogInv'
<1>1. /\ entry' = [entry EXCEPT ![e] = state] /\ UNCHANGED <<cards, shifts, removing, reading>>
      /\ entry[e] # "deleted"
  BY DEF C!Save
<1>2. entry' \in [C!Entries -> States]
  BY <1>1 DEF CatalogInv, States
<1>3. \A s \in Staff : entry[s] = "deleted" => entry'[s] = "deleted"
  BY <1>1 DEF CatalogInv, C!Entries
<1>4. \A c \in DOMAIN cards : cards[c].row \in Staff => C!Exists(cards[c].row)'
  BY <1>1 DEF CatalogInv, CardsOK, C!Exists, C!Entries
<1> QED BY <1>1, <1>2, <1>3, <1>4, StaffStays DEF CatalogInv, RemovingOK

\* An entry that is no staff is deleted.
LEMMA CatalogDropStep ==
    ASSUME CatalogInv, NEW e \in Categories \cup Equipment \cup Customers, C!Drop(e)
    PROVE  CatalogInv'
<1>1. entry' = [entry EXCEPT ![e] = "deleted"] /\ UNCHANGED <<cards, shifts, removing, reading>>
  BY DEF C!Drop
<1>2. e \notin Staff
  BY WebAssumption
<1>3. entry' \in [C!Entries -> States] /\ \A s \in Staff : entry'[s] = entry[s]
  BY <1>1, <1>2 DEF CatalogInv, States, C!Entries
<1>4. \A c \in DOMAIN cards : cards[c].row \in Staff => C!Exists(cards[c].row)'
  BY <1>1, <1>3 DEF CatalogInv, CardsOK, C!Exists
<1> QED BY <1>1, <1>3, <1>4, StaffStays DEF CatalogInv, RemovingOK

\* Staff is deleted only when nothing refers to it.
LEMMA StopOrDeleteStep ==
    ASSUME CatalogInv, C!StopOrDelete PROVE CatalogInv'
<1> DEFINE e == removing.of
<1>1. /\ removing # C!None /\ removing' = C!None /\ UNCHANGED <<cards, shifts, reading>>
      /\ \/ entry' = entry
         \/ C!Exists(e) /\ entry' = [entry EXCEPT ![e] = "stopped"]
         \/ C!Free(e) /\ entry' = [entry EXCEPT ![e] = "deleted"]
  BY DEF C!StopOrDelete
<1>2. e \in C!Entries
  BY <1>1 DEF CatalogInv, RemovingOK, C!Entries
<1> HIDE DEF e
<1>3. /\ entry' \in [C!Entries -> States]
      /\ \A s \in Staff : entry[s] = "deleted" => entry'[s] = "deleted"
  BY <1>1, <1>2 DEF CatalogInv, States, C!Entries, C!Exists
<1>4. ASSUME NEW c \in DOMAIN cards, cards[c].row \in Staff
      PROVE  C!Exists(cards[c].row)'
  <2>1. C!Exists(cards[c].row) /\ cards[c].row \in C!Entries
    BY <1>4 DEF CatalogInv, CardsOK, C!Entries
  <2>2. CASE C!Free(e)
    <3>1. cards[c].row # e
      BY <2>2, <1>4 DEF C!Free, C!Refer
    <3> QED BY <1>1, <1>2, <2>1, <3>1 DEF C!Exists, CatalogInv
  <2>3. CASE ~C!Free(e)
    BY <1>1, <1>2, <2>1, <2>3 DEF C!Exists, CatalogInv
  <2> QED BY <2>2, <2>3
<1>5. RemovingOK'
  BY <1>1 DEF RemovingOK
<1> QED BY <1>1, <1>3, <1>4, <1>5, StaffStays

\* A card is put on a row.
LEMMA PutOnRow ==
    ASSUME CatalogInv, NEW c \in Cards, NEW card, Placing(card),
           card.row \in Staff => C!Exists(card.row),
           cards' = [d \in DOMAIN cards \cup {c} |-> IF d = c THEN card ELSE cards[d]],
           UNCHANGED <<entry, shifts, removing, reading>>
    PROVE  CatalogInv'
<1>1. CardsOK'
  <2>1. DOMAIN cards' \subseteq Cards
    BY DEF CatalogInv, CardsOK
  <2>2. ASSUME NEW d \in DOMAIN cards'
        PROVE  Placing(cards'[d]) /\ (cards'[d].row \in Staff => C!Exists(cards'[d].row))
    <3>1. CASE d = c
      <4>1. cards'[d] = card
        BY <3>1
      <4> QED BY <4>1
    <3>2. CASE d # c
      <4>1. cards'[d] = cards[d] /\ d \in DOMAIN cards
        BY <3>2
      <4> QED BY <4>1 DEF CatalogInv, CardsOK
    <3> QED BY <3>1, <3>2
  <2> QED BY <2>1, <2>2 DEF CardsOK, C!Exists, Placing
<1>2. ReadingOK' /\ RemovingOK' /\ entry' \in [C!Entries -> States]
  BY DEF CatalogInv, ReadingOK, RemovingOK, DayOK, Placing
<1> QED BY <1>1, <1>2 DEF CatalogInv

\* A reservation is booked, or moved, for staff that is active.
LEMMA BookStep ==
    ASSUME CatalogInv, NEW s \in Staff \cup {Nobody}, NEW start \in CardStarts,
           NEW end \in CardEnds,
           NEW c \in Cards, NEW menu \in Menus, NEW customer \in Customers,
           C!Book(c, s, menu, customer, start, end)
    PROVE  CatalogInv'
<1> DEFINE card == [row |-> s, menu |-> menu, customer |-> customer, start |-> start, end |-> end]
<1>1. card.row = s /\ card.start = start /\ card.end = end
  OBVIOUS
<1>2. /\ cards' = [d \in DOMAIN cards \cup {c} |-> IF d = c THEN card ELSE cards[d]]
      /\ UNCHANGED <<entry, shifts, removing, reading>> /\ (s \in Staff => C!Exists(s))
  BY DEF C!Book, C!Exists
<1> HIDE DEF card
<1>3. Placing(card)
  BY <1>1, WebAssumption DEF Placing
<1> QED BY <1>1, <1>2, <1>3, PutOnRow

\* A record of the history is put on the day, of staff that may be stopped.
LEMMA PlaceStep ==
    ASSUME CatalogInv, NEW s \in Staff \cup {Nobody}, NEW start \in CardStarts,
           NEW end \in CardEnds \cup {NoEnd}, NEW c \in Cards, C!Place(c, s, start, end)
    PROVE  CatalogInv'
<1> DEFINE card == [row |-> s, menu |-> Nobody, customer |-> Nobody, start |-> start, end |-> end]
<1>1. card.row = s /\ card.start = start /\ card.end = end
  OBVIOUS
<1>2. /\ cards' = [d \in DOMAIN cards \cup {c} |-> IF d = c THEN card ELSE cards[d]]
      /\ UNCHANGED <<entry, shifts, removing, reading>> /\ (s \in Staff => C!Exists(s))
  BY DEF C!Place
<1> HIDE DEF card
<1>3. Placing(card)
  BY <1>1, WebAssumption DEF Placing
<1> QED BY <1>1, <1>2, <1>3, PutOnRow

\* A reading begins, and goes on.
LEMMA ReadSalonStep ==
    ASSUME CatalogInv, C!ReadSalon PROVE CatalogInv'
<1> DEFINE staff == [s \in Staff |-> entry[s]]
           none == C!Day({})
<1>1. /\ reading' = [kind |-> "reading", staff |-> staff, missing |-> C!Parts, live |-> none,
                     history |-> none, shifts |-> {}]
      /\ UNCHANGED <<entry, cards, shifts, removing, writes>>
  BY DEF C!ReadSalon
<1>2. /\ staff \in [Staff -> States] /\ DOMAIN none = {}
      /\ \A s \in Staff : staff[s] = entry[s]
  BY DEF CatalogInv, C!Entries, C!Day
<1> HIDE DEF staff, none
<1>3. ReadingOK'
  BY <1>1, <1>2 DEF ReadingOK, DayOK
<1> QED BY <1>1, <1>3 DEF CatalogInv, CardsOK, Placing, C!Exists, RemovingOK

\* A day that is read now refers to staff that is there.
LEMMA DayIs ==
    ASSUME CatalogInv, reading # C!None, NEW of PROVE DayOK(C!Day(of))
<1>1. ASSUME NEW c \in DOMAIN C!Day(of)
      PROVE  /\ c \in DOMAIN cards /\ C!Day(of)[c].row = cards[c].row
             /\ C!Day(of)[c].start = cards[c].start /\ C!Day(of)[c].end = cards[c].end
  BY DEF C!Day
<1> QED BY <1>1 DEF CatalogInv, CardsOK, ReadingOK, DayOK, Placing, C!Exists

\* A part of the day is read: its cards are of no staff deleted before the reading began.
LEMMA ReadPartStep ==
    ASSUME CatalogInv, NEW part \in C!Parts, C!ReadPart(part) PROVE CatalogInv'
<1> DEFINE missing == reading.missing \ {part}
           live == IF part = "live" THEN C!Day(Cards \ Records) ELSE reading.live
           history == IF part = "history" THEN C!Day(Records) ELSE reading.history
           onShift == IF part = "shifts" THEN shifts ELSE reading.shifts
<1>1. /\ reading # C!None /\ UNCHANGED <<entry, cards, shifts, removing, writes>>
      /\ reading' = [reading EXCEPT !.missing = missing, !.live = live, !.history = history,
                                    !.shifts = onShift]
  BY DEF C!ReadPart
<1>2. /\ reading = [kind |-> "reading", staff |-> reading.staff, missing |-> reading.missing,
                    live |-> reading.live, history |-> reading.history, shifts |-> reading.shifts]
      /\ reading.staff \in [Staff -> States]
      /\ \A s \in Staff : reading.staff[s] = "deleted" => entry[s] = "deleted"
      /\ DayOK(reading.live) /\ DayOK(reading.history)
  BY <1>1 DEF CatalogInv, ReadingOK
<1>3. DayOK(live) /\ DayOK(history)
  BY <1>1, <1>2, DayIs
<1> HIDE DEF missing, live, history, onShift
<1>4. reading' = [kind |-> "reading", staff |-> reading.staff, missing |-> missing,
                  live |-> live, history |-> history, shifts |-> onShift]
  <2>1. PICK staff, m, l, h, n :
          reading = [kind |-> "reading", staff |-> staff, missing |-> m, live |-> l,
                     history |-> h, shifts |-> n]
    BY <1>2
  <2>2. reading.staff = staff
    BY <2>1
  <2>3. reading' = [kind |-> "reading", staff |-> staff, missing |-> missing, live |-> live,
                    history |-> history, shifts |-> onShift]
    BY <1>1, <2>1
  <2> QED BY <2>2, <2>3
<1>5. /\ reading'.staff = reading.staff /\ reading'.live = live /\ reading'.history = history
      /\ reading' = [kind |-> "reading", staff |-> reading'.staff, missing |-> reading'.missing,
                     live |-> reading'.live, history |-> reading'.history,
                     shifts |-> reading'.shifts]
  BY <1>4
<1>6. DayOK(reading.live)' /\ DayOK(reading.history)'
  BY <1>3, <1>5 DEF DayOK, Placing
<1>7. ReadingOK'
  BY <1>1, <1>2, <1>5, <1>6 DEF ReadingOK
<1> QED BY <1>1, <1>7 DEF CatalogInv, CardsOK, Placing, C!Exists, RemovingOK

\* Every step of the catalog keeps the invariant.
LEMMA CatalogStep == CatalogInv /\ [C!Next]_(C!vars) => CatalogInv'
<1> SUFFICES ASSUME CatalogInv, [C!Next]_(C!vars) PROVE CatalogInv'
  OBVIOUS
<1> USE DEF C!Flags
<1>1. CASE UNCHANGED C!vars
  BY <1>1 DEF C!vars, CatalogInv, CardsOK, ReadingOK, DayOK, Placing, C!Exists, RemovingOK
<1>2. CASE C!SaveStaff \/ C!SaveMenu \/ C!SaveCategory \/ C!SaveEquipment \/ C!SaveCustomer
  BY <1>2, SaveStep
     DEF C!SaveStaff, C!SaveMenu, C!SaveCategory, C!SaveEquipment, C!SaveCustomer, C!Entries
<1>3. CASE C!DeleteStaff \/ C!DeleteMenu
  <2>1. PICK e \in Staff \cup Menus : C!CountDependents(e)
    BY <1>3 DEF C!DeleteStaff, C!DeleteMenu
  <2>2. UNCHANGED <<entry, cards, shifts, reading, writes>> /\ removing'.of = e
    BY <2>1 DEF C!CountDependents
  <2> QED BY <2>2, StaffStays DEF CatalogInv, RemovingOK, CardsOK, C!Exists
<1>4. CASE C!DeleteCategory \/ C!DeleteEquipment \/ C!DeleteCustomer
  BY <1>4, CatalogDropStep DEF C!DeleteCategory, C!DeleteEquipment, C!DeleteCustomer
<1>5. ASSUME NEW s \in Staff \cup {Nobody}, NEW start \in CardStarts, NEW end \in CardEnds,
             NEW c \in Cards, NEW menu \in Menus, NEW customer \in Customers,
             C!Book(c, s, menu, customer, start, end)
      PROVE  CatalogInv'
  BY <1>5, BookStep
<1>6. ASSUME NEW s \in Staff \cup {Nobody}, NEW start \in CardStarts,
             NEW end \in CardEnds \cup {NoEnd}, NEW c \in Cards, C!Place(c, s, start, end)
      PROVE  CatalogInv'
  BY <1>6, PlaceStep
<1>7. ASSUME NEW s \in Staff, C!Shift(s) PROVE CatalogInv'
  BY <1>7 DEF C!Shift, CatalogInv, CardsOK, ReadingOK, DayOK, Placing, C!Exists, RemovingOK
<1>8. CASE C!Answer
  BY <1>8 DEF C!Answer, CatalogInv, CardsOK, ReadingOK, Placing, C!Exists, RemovingOK
<1>9. ASSUME NEW part \in C!Parts, C!ReadPart(part) PROVE CatalogInv'
  BY <1>9, ReadPartStep
<1> QED BY <1>1, <1>2, <1>3, <1>4, <1>5, <1>6, <1>7, <1>8, <1>9, StopOrDeleteStep, ReadSalonStep
        DEF C!Next

\* The invariant of the day holds.
THEOREM CatalogSafe == C!Spec => []CatalogInv
<1>1. C!Init => CatalogInv
  BY CatalogBegins
<1> QED BY <1>1, CatalogStep, PTL DEF C!Spec

\* The hours of the board reach around what is shown.
LEMMA HoursReach ==
    ASSUME CatalogInv, reading # C!None, NEW card \in C!Shown(reading)
    PROVE  /\ C!DisplayHours(reading).start <= card.start
           /\ C!EndOf(card) <= C!DisplayHours(reading).end
<1> DEFINE Shown == C!Shown(reading)
           starts == {Opening} \cup {x.start : x \in Shown}
           ends == {Closing} \cup {C!EndOf(x) : x \in Shown}
<1>1. DayOK(reading.live) /\ DayOK(reading.history)
  BY DEF CatalogInv, ReadingOK
<1>2. IsFiniteSet(Shown)
  <2>1. IsFiniteSet(DOMAIN reading.live) /\ IsFiniteSet(DOMAIN reading.history)
    BY <1>1, WebAssumption, FS_Subset DEF DayOK
  <2>2. /\ IsFiniteSet({reading.live[c] : c \in DOMAIN reading.live})
        /\ IsFiniteSet({reading.history[c] : c \in DOMAIN reading.history})
    BY <2>1, FiniteImage
  <2> QED BY <2>2, FS_Union DEF C!Shown
<1>3. \A x \in Shown : x.start \in Nat /\ C!EndOf(x) \in Nat
  BY <1>1 DEF C!Shown, DayOK, Placing, C!EndOf, C!Marker
<1>4. IsFiniteSet(starts) /\ IsFiniteSet(ends)
  <2>1. IsFiniteSet({x.start : x \in Shown}) /\ IsFiniteSet({C!EndOf(x) : x \in Shown})
    <3> DEFINE f == [x \in Shown |-> x.start]
               g == [x \in Shown |-> C!EndOf(x)]
    <3>1. /\ DOMAIN f = Shown /\ {f[x] : x \in Shown} = {x.start : x \in Shown}
          /\ DOMAIN g = Shown /\ {g[x] : x \in Shown} = {C!EndOf(x) : x \in Shown}
      OBVIOUS
    <3> HIDE DEF Shown, f, g
    <3> QED BY <1>2, <3>1, FiniteImage
  <2> HIDE DEF Shown
  <2> QED BY <2>1, FS_Singleton, FS_Union
<1>5. starts \in SUBSET Int /\ ends \in SUBSET Int /\ starts # {} /\ ends # {}
  BY <1>3, WebAssumption
<1>6. /\ card.start \in starts /\ C!EndOf(card) \in ends
  OBVIOUS
<1>7. C!DisplayHours(reading) = [start |-> (C!Min(starts) \div 60) * 60,
                                 end |-> ((C!Max(ends) + 59) \div 60) * 60]
  BY DEF C!DisplayHours
<1> HIDE DEF starts, ends, Shown
<1>8. C!Min(starts) \in Int /\ C!Min(starts) <= card.start
  <2>1. \E n \in starts : \A m \in starts : n <= m
    BY <1>4, <1>5, Extremes
  <2>2. C!Min(starts) \in starts /\ \A m \in starts : C!Min(starts) <= m
    BY <2>1 DEF C!Min
  <2> QED BY <1>5, <1>6, <2>2
<1>9. C!Max(ends) \in Int /\ C!EndOf(card) <= C!Max(ends) /\ C!EndOf(card) \in Int
  <2>1. \E n \in ends : \A m \in ends : n >= m
    BY <1>4, <1>5, Extremes
  <2>2. C!Max(ends) \in ends /\ \A m \in ends : C!Max(ends) >= m
    BY <2>1 DEF C!Max
  <2> QED BY <1>5, <1>6, <2>2
<1>10. \A n \in Int : (n \div 60) * 60 <= n /\ n <= ((n + 59) \div 60) * 60
       /\ (n \div 60) * 60 \in Int /\ ((n + 59) \div 60) * 60 \in Int
  OBVIOUS
<1>11. card.start \in Int
  BY <1>5, <1>6
<1> QED BY <1>7, <1>8, <1>9, <1>10, <1>11

\* Every card of a day that was read has a row and lies within the hours shown.
THEOREM CardsHaveTheirPlace == C!Spec => []EveryCardHasItsPlace
<1>1. CatalogInv => EveryCardHasItsPlace
  <2> SUFFICES ASSUME CatalogInv, C!Answered
               PROVE  \A card \in C!Shown(reading) :
                        /\ card.row \in C!ScheduleRows(reading)
                                          \cup {s \in Staff : reading.staff[s] = "absent"}
                        /\ C!DisplayHours(reading).start <= card.start
                        /\ C!EndOf(card) <= C!DisplayHours(reading).end
    BY DEF EveryCardHasItsPlace, C!EveryCardHasItsPlace
  <2> TAKE card \in C!Shown(reading)
  <2>1. reading # C!None /\ ReadingOK
    BY DEF C!Answered, CatalogInv
  <2>2. card.row \in C!ScheduleRows(reading) \cup {s \in Staff : reading.staff[s] = "absent"}
    <3>1. /\ card.row \in C!VisibleRows(reading) /\ card.row \in Staff \cup {Nobody}
          /\ card.row \in Staff => reading.staff[card.row] # "deleted"
      BY <2>1 DEF C!Shown, C!VisibleRows, C!RowsOf, ReadingOK, DayOK, Placing
    <3>2. card.row \in Staff => reading.staff[card.row] \in States
      BY <2>1 DEF ReadingOK
    <3> QED BY <3>1, <3>2 DEF C!ScheduleRows, States
  <2> QED BY <2>1, <2>2, HoursReach
<1> QED BY <1>1, CatalogSafe, PTL

-----------------------------------------------------------------------------
(* Listing: why a list shows one page of one moment.                       *)

\* The operators of the library are the same in every instance.
LEMMA ListsCount == \A S : L!Cardinality(S) = Cardinality(S)
BY DEF L!Cardinality, Cardinality

\* The rows in the order of the list are all of them, each once.
LEMMA InOrderIs ==
    ASSUME NEW ids \in SUBSET Ids
    PROVE  /\ Cardinality(ids) \in Nat /\ IsFiniteSet(ids)
           /\ L!InOrder(ids) \in [1 .. Cardinality(ids) -> ids]
           /\ L!InOrder(ids) \in Seq(ids) /\ Len(L!InOrder(ids)) = Cardinality(ids)
<1>1. IsFiniteSet(ids) /\ Cardinality(ids) \in Nat /\ ids \in SUBSET Int
  <2>1. Ids \subseteq Int
    <3>1. \A n : 1 .. n \subseteq Int
      OBVIOUS
    <3> QED BY <3>1, WebAssumption
  <2> QED BY <2>1, WebAssumption, FS_Subset, FS_CardinalityType
<1> DEFINE n == Cardinality(ids)
           Right(s) == \A i, j \in DOMAIN s : i < j => s[i] > s[j]
<1>2. \E s \in [1 .. n -> ids] : Right(s)
  BY <1>1, OrderExists
<1>3. L!InOrder(ids) = CHOOSE s \in [1 .. n -> ids] : Right(s)
  BY ListsCount DEF L!InOrder
<1> HIDE DEF Right
<1>4. L!InOrder(ids) \in [1 .. n -> ids]
  BY <1>2, <1>3
<1> HIDE DEF n
<1>5. n \in Nat
  BY <1>1 DEF n
<1>6. L!InOrder(ids) \in Seq(ids) /\ Len(L!InOrder(ids)) = n
  BY <1>4, <1>5
<1> QED BY <1>1, <1>4, <1>6 DEF n

\* The smaller of two numbers.
LEMMA SmallerIs ==
    ASSUME NEW a \in Int, NEW b \in Int PROVE L!Min({a, b}) = IF a <= b THEN a ELSE b
BY DEF L!Min

\* As many pages as the rows need, and one at least.
LEMMA PageCount ==
    ASSUME NEW total \in Nat
    PROVE  /\ L!TotalPages(total) \in Nat \ {0}
           /\ \A p \in Nat \ {0} : p <= L!TotalPages(total) =>
                 /\ (p - 1) * PageSize \in Nat /\ (p - 1) * PageSize <= total
                 /\ p * PageSize = (p - 1) * PageSize + PageSize
<1> DEFINE q == (total + PageSize - 1) \div PageSize
<1>0. PageSize \in Nat \ {0}
  BY WebAssumption
<1>1. q \in Int /\ PageSize * q <= total + PageSize - 1 /\ q >= 0
  BY <1>0
<1>2. L!TotalPages(total) = L!Max({1, q})
  BY DEF L!TotalPages
<1> HIDE DEF q
<1>3. L!TotalPages(total) = IF q <= 1 THEN 1 ELSE q
  BY <1>1, <1>2 DEF L!Max
<1>4. ASSUME NEW p \in Nat \ {0}, p <= L!TotalPages(total)
      PROVE  /\ (p - 1) * PageSize \in Nat /\ (p - 1) * PageSize <= total
             /\ p * PageSize = (p - 1) * PageSize + PageSize
  <2>1. p * PageSize = (p - 1) * PageSize + PageSize
    BY <1>0
  <2>2. (p - 1) * PageSize \in Nat
    BY <1>0
  <2>3. CASE p = 1
    <3>1. (p - 1) * PageSize = 0
      BY <1>0, <2>3
    <3> QED BY <2>1, <2>2, <3>1
  <2>4. CASE p > 1
    <3>1. p <= q
      BY <1>1, <1>3, <1>4, <2>4
    <3>2. PageSize * (p - 1) <= PageSize * (q - 1)
      <4>1. q - p \in Nat
        BY <1>1, <3>1
      <4>2. PageSize * (q - p) \in Nat
        BY <1>0, <4>1
      <4>3. PageSize * (q - 1) = PageSize * (p - 1) + PageSize * (q - p)
        BY <1>0, <1>1
      <4> QED BY <1>0, <4>2, <4>3
    <3>3. PageSize * (q - 1) = PageSize * q - PageSize /\ PageSize * q \in Int
      BY <1>0, <1>1
    <3>4. PageSize * (q - 1) <= total
      BY <1>0, <1>1, <3>3
    <3>5. (p - 1) * PageSize = PageSize * (p - 1) /\ PageSize * (p - 1) \in Int
          /\ PageSize * (q - 1) \in Int
      BY <1>0, <1>1
    <3>6. (p - 1) * PageSize <= total
      BY <3>2, <3>4, <3>5
    <3> QED BY <2>1, <2>2, <3>6
  <2> QED BY <2>3, <2>4
<1> QED BY <1>1, <1>3, <1>4

\* A page that is asked for is clamped to one that exists.
LEMMA ClampedIs ==
    ASSUME NEW total \in Nat, NEW page \in Nat \ {0}
    PROVE  /\ L!Clamped(page, total) \in Nat \ {0}
           /\ L!Clamped(page, total) <= L!TotalPages(total)
           /\ page = 1 => L!Clamped(page, total) = 1
<1>1. L!TotalPages(total) \in Nat \ {0}
  BY PageCount
<1>2. L!Clamped(page, total) = IF page <= L!TotalPages(total) THEN page ELSE L!TotalPages(total)
  BY <1>1, SmallerIs DEF L!Clamped
<1> QED BY <1>1, <1>2

\* A page that exists is full or the last one.
LEMMA OnPageIs ==
    ASSUME NEW ids \in SUBSET Ids, NEW p \in Nat \ {0}, p <= L!TotalPages(Cardinality(ids))
    PROVE  /\ L!OnPage(ids, p) \in Seq(ids)
           /\ Len(L!OnPage(ids, p)) = L!Min({PageSize, Cardinality(ids) - (p - 1) * PageSize})
<1> DEFINE n == Cardinality(ids)
           s == L!InOrder(ids)
           a == (p - 1) * PageSize
           b == p * PageSize
<1>1. n \in Nat /\ s \in Seq(ids) /\ Len(s) = n /\ PageSize \in Nat \ {0}
  BY InOrderIs, WebAssumption
<1>2. a \in Nat /\ a <= n /\ b = a + PageSize
  BY <1>1, PageCount
<1>3. L!OnPage(ids, p) = SubSeq(s, a + 1, L!Min({b, n}))
  BY ListsCount DEF L!OnPage
<1> HIDE DEF n, s, a, b
<1>4. L!Min({b, n}) = (IF b <= n THEN b ELSE n)
      /\ L!Min({PageSize, n - a}) = (IF PageSize <= n - a THEN PageSize ELSE n - a)
  BY <1>1, <1>2, SmallerIs
<1> DEFINE m == L!Min({b, n})
<1>5. m \in Nat /\ m <= n /\ a <= m /\ m - a = L!Min({PageSize, n - a})
  BY <1>1, <1>2, <1>4
<1> HIDE DEF m
<1>6. SubSeq(s, a + 1, m) \in Seq(ids) /\ Len(SubSeq(s, a + 1, m)) = m - a
  <2>1. CASE a = m
    <3>1. a + 1 > m
      BY <1>2, <2>1
    <3>2. SubSeq(s, a + 1, m) = << >>
      BY <1>1, <1>2, <1>5, <3>1
    <3> QED BY <1>2, <2>1, <3>2
  <2>2. CASE a < m
    BY <1>1, <1>2, <1>5, <2>2
  <2> QED BY <1>2, <1>5, <2>1, <2>2
<1> QED BY <1>3, <1>5, <1>6 DEF n, a, m

-----------------------------------------------------------------------------
\* number, page and rows of an answer fit together
Whole(a) ==
    /\ a.page \in Nat \ {0} /\ a.total \in Nat /\ a.at \in Nat
    /\ a.page <= L!TotalPages(a.total)
    /\ Len(a.rows) = L!Min({PageSize, a.total - (a.page - 1) * PageSize})
\* charts behind a cursor, and the cursor behind them
RowsAfter(a, start) ==
    /\ \A i \in DOMAIN a.rows : a.rows[i] \in Ids /\ (start # 0 => a.rows[i] < start)
    /\ a.next = 0 \/ (a.next \in Ids /\ (start # 0 => a.next < start))

ListIsRecord(x) ==
    x = [list |-> x.list, typed |-> x.typed, asked |-> x.asked, applied |-> x.applied, n |-> x.n,
         since |-> x.since, busy |-> x.busy, failed |-> x.failed, shown |-> x.shown,
         place |-> x.place, starts |-> x.starts]

\* the cursors walked along lie one behind the other
Trail(x) ==
    /\ x.starts \in Seq(Nat) /\ x.place \in Nat /\ x.place + 1 <= Len(x.starts)
    /\ x.starts[1] = 0
    /\ \A i \in 2 .. Len(x.starts) : /\ x.starts[i] \in Ids
                                     /\ i > 2 => x.starts[i] < x.starts[i - 1]
    /\ RowsAfter(x.shown, x.starts[x.place + 1])

ListOK(x) ==
    /\ ListIsRecord(x) /\ x.list \in L!Lists /\ x.n \in Nat /\ x.since \in Nat
    /\ x.since <= changes /\ x.asked \in Nat \ {0}
    /\ x.busy \in {TRUE, FALSE} /\ x.failed \in {TRUE, FALSE}
    /\ x.list.style # "cursor" => Whole(x.shown)
    /\ x.list.style = "searched" => x.shown.filter = x.applied
    /\ x.list.style = "cursor" => Trail(x)
Answered(x) ==
    x.list.style = "typed" /\ x.busy = FALSE /\ x.failed = FALSE =>
        x.shown.filter = x.typed /\ x.shown.page = x.asked /\ x.shown.at >= x.since

RequestIsRecord(l) ==
    l = [n |-> l.n, filter |-> l.filter, page |-> l.page, start |-> l.start, target |-> l.target,
         stage |-> l.stage, rows |-> l.rows, at |-> l.at, answer |-> l.answer]
RequestOK(l, style) ==
    /\ RequestIsRecord(l) /\ l.n \in Nat \ {0} /\ l.page \in Nat \ {0}
    /\ l.stage \in {"waiting", "sent", "counted", "read"}
    /\ l.stage \in {"waiting", "sent"} => l.answer = L!NoPage
    /\ l.stage = "counted" => /\ style # "cursor" /\ l.at \in Nat /\ l.at <= changes
                              /\ l.answer.total = Cardinality(L!Matching(l.rows, l.filter))
    /\ l.stage = "read" /\ style # "cursor" => Whole(l.answer) /\ l.answer.filter = l.filter
    /\ l.stage = "read" /\ style = "cursor" => RowsAfter(l.answer, l.start)
\* a page further, or back
Turns(x, start, target) ==
    \/ target = x.place + 1 /\ start = x.shown.next /\ start # 0
    \/ target \in Nat /\ target + 1 = x.place /\ start = x.starts[target + 1]
\* the request whose answer will be taken
Current(l, x) ==
    /\ l.stage = "counted" => l.at >= x.since
    /\ l.stage = "read" /\ x.list.style # "cursor" => l.answer.at >= x.since
    /\ x.list.style = "typed" => l.filter = x.typed /\ l.page = x.asked
    /\ x.list.style = "cursor" => Turns(x, l.start, l.target)

RequestsKnown(x) ==
    /\ \A l \in requests : RequestOK(l, x.list.style) /\ l.n <= x.n
    /\ \A k, l \in requests : k.n = l.n => k = l
RequestsAsked(x) == \A l \in requests : l.n = x.n => Current(l, x)

ListInv ==
    /\ changes \in Nat /\ ListOK(list) /\ Answered(list)
    /\ RequestsKnown(list) /\ RequestsAsked(list)
    /\ removal # 0 => list.list.style = "typed"

\* ListInv does not mention the rows.
LEMMA ListsStay ==
    ASSUME ListInv, UNCHANGED <<list, requests>>, changes' \in Nat, changes' >= changes,
           removal' # 0 => list.list.style = "typed"
    PROVE  ListInv'
<1>1. ListOK(list)'
  <2>1. list.since <= changes'
    BY DEF ListInv, ListOK
  <2>2. ListIsRecord(list)' /\ (list.list.style = "cursor" => Trail(list)')
        /\ (list.list.style # "cursor" => Whole(list.shown)')
    BY DEF ListInv, ListOK, ListIsRecord, Trail, Whole, RowsAfter
  <2> QED BY <2>1, <2>2 DEF ListInv, ListOK
<1>2. RequestsKnown(list)'
  <2>1. ASSUME NEW l \in requests, RequestOK(l, list.list.style)
        PROVE  RequestOK(l, list.list.style)'
    BY <2>1 DEF ListInv, RequestOK, RequestIsRecord, Whole, RowsAfter
  <2> QED BY <2>1 DEF ListInv, RequestsKnown
<1>3. RequestsAsked(list)' /\ Answered(list)'
  BY DEF ListInv, RequestsAsked, Current, Turns, Answered
<1> QED BY <1>1, <1>2, <1>3 DEF ListInv

\* A list that loads again is in order, whatever was shown.
LEMMA LoadingKeeps ==
    ASSUME changes \in Nat, NEW x, ListOK(x), RequestsKnown(x),
           NEW filter, NEW page \in Nat \ {0}, NEW start, NEW target,
           x.list.style = "typed" => filter = x.typed /\ page = x.asked,
           x.list.style = "cursor" => Turns(x, start, target),
           removal' # 0 => x.list.style = "typed",
           L!Loading(x, filter, page, start, target), UNCHANGED changes
    PROVE  ListInv'
<1> DEFINE y == [x EXCEPT !.n = @ + 1, !.busy = TRUE, !.since = changes]
           m == [n |-> x.n + 1, filter |-> filter, page |-> page, start |-> start,
                 target |-> target,
                 stage |-> IF x.list.style = "typed" THEN "waiting" ELSE "sent",
                 rows |-> <<>>, at |-> 0, answer |-> L!NoPage]
<1>0. PICK z : z = y
  OBVIOUS
<1>1. list' = z /\ requests' = {l \in requests : l.stage # "waiting"} \cup {m}
  BY <1>0 DEF L!Loading
<1>2. /\ ListIsRecord(z) /\ z.list = x.list /\ z.typed = x.typed /\ z.asked = x.asked
      /\ z.applied = x.applied /\ z.n = x.n + 1 /\ z.since = changes /\ z.busy = TRUE
      /\ z.failed = x.failed /\ z.shown = x.shown /\ z.place = x.place /\ z.starts = x.starts
  <2> DEFINE yes == TRUE
             n == x.n + 1
  <2>1. y = [x EXCEPT !.n = n, !.busy = yes, !.since = changes]
    OBVIOUS
  <2> HIDE DEF y, yes, n
  <2>2. z = [list |-> x.list, typed |-> x.typed, asked |-> x.asked, applied |-> x.applied,
             n |-> n, since |-> changes, busy |-> yes, failed |-> x.failed, shown |-> x.shown,
             place |-> x.place, starts |-> x.starts]
    BY <1>0, <2>1 DEF ListOK, ListIsRecord
  <2> QED BY <2>2 DEF ListIsRecord, yes, n
<1>3. /\ RequestIsRecord(m) /\ m.n = x.n + 1 /\ m.filter = filter /\ m.page = page
      /\ m.start = start /\ m.target = target /\ m.stage \in {"waiting", "sent"}
      /\ m.answer = L!NoPage
  BY DEF RequestIsRecord
<1> HIDE DEF y, m
<1>4. ListOK(z)' /\ Answered(z)'
  <2>1. z.n \in Nat
    BY <1>2 DEF ListOK
  <2>2. x.list.style = "cursor" => Trail(z)
    BY <1>2 DEF ListOK, Trail
  <2>3. ListIsRecord(z)' /\ (x.list.style = "cursor" => Trail(z)')
    BY <1>2, <2>2 DEF ListIsRecord, Trail, RowsAfter
  <2>4. x.list.style # "cursor" => Whole(z.shown)'
    BY <1>2 DEF ListOK, Whole
  <2>5. z.since \in Nat /\ z.since <= changes' /\ z.busy \in {TRUE, FALSE}
    <3>1. z.busy \in {TRUE, FALSE}
      BY <1>2, Zenon
    <3>2. z.since = changes /\ changes' = changes
      BY <1>2
    <3>3. z.since \in Nat /\ z.since <= changes'
      BY <3>2
    <3> QED BY <3>1, <3>3
  <2>6. Answered(z)'
    BY <1>2 DEF Answered
  <2>7. z.failed \in {TRUE, FALSE} /\ z.asked \in Nat \ {0} /\ z.list \in L!Lists
        /\ (z.list.style = "searched" => z.shown.filter = z.applied)
    BY <1>2 DEF ListOK
  <2> QED BY <1>2, <2>1, <2>3, <2>4, <2>5, <2>6, <2>7 DEF ListOK
<1>5. RequestOK(m, x.list.style) /\ Current(m, z) /\ x.n \in Nat
  <2>1. m.n \in Nat \ {0} /\ x.n \in Nat
    BY <1>3 DEF ListOK
  <2> QED BY <1>2, <1>3, <2>1 DEF RequestOK, Current, Turns
<1>6. \A l \in requests' : /\ RequestOK(l, x.list.style) /\ l.n <= x.n + 1
                           /\ l.n = x.n + 1 => l = m
                           /\ l = m \/ l \in requests
  <2>1. \A l \in requests : RequestOK(l, x.list.style) /\ l.n <= x.n /\ l.n \in Nat
    BY DEF RequestsKnown, RequestOK
  <2> QED BY <1>1, <1>3, <1>5, <2>1
<1>7. \A k, l \in requests' : k.n = l.n => k = l
  <2> SUFFICES ASSUME NEW k \in requests', NEW l \in requests', k.n = l.n PROVE k = l
    OBVIOUS
  <2>1. CASE k = m \/ l = m
    BY <1>3, <1>6, <2>1
  <2>2. CASE k # m /\ l # m
    BY <1>6, <2>2 DEF RequestsKnown
  <2> QED BY <2>1, <2>2
<1>8. RequestsKnown(z)' /\ RequestsAsked(z)'
  <2>1. \A l \in requests' : RequestOK(l, x.list.style)'
    BY <1>6 DEF RequestOK, RequestIsRecord, Whole, RowsAfter
  <2>2. RequestsKnown(z)'
    BY <1>2, <1>6, <1>7, <2>1 DEF RequestsKnown
  <2>3. \A l \in requests' : l.n = z.n => Current(l, z)
    BY <1>2, <1>5, <1>6
  <2> QED BY <2>2, <2>3 DEF RequestsAsked, Current, Turns
<1> QED BY <1>1, <1>2, <1>4, <1>8 DEF ListInv

\* A field or the page asked for changes, and the list is in order to load.
WithFields(x, filter, page) ==
    [list |-> x.list, typed |-> filter, asked |-> page, applied |-> x.applied, n |-> x.n,
     since |-> x.since, busy |-> x.busy, failed |-> x.failed, shown |-> x.shown,
     place |-> x.place, starts |-> x.starts]

\* That leaves the rest of the list in order.
LEMMA FieldsAre ==
    ASSUME NEW x, ListOK(x), NEW filter, NEW page \in Nat \ {0},
           NEW y, y = WithFields(x, filter, page)
    PROVE  /\ ListOK(y) /\ y.list = x.list /\ y.typed = filter /\ y.asked = page
           /\ y.n = x.n /\ y.shown = x.shown /\ y.busy = x.busy /\ y.failed = x.failed
           /\ y.since = x.since /\ y.place = x.place /\ y.starts = x.starts
<1>1. /\ ListIsRecord(y) /\ y.list = x.list /\ y.typed = filter /\ y.asked = page
      /\ y.applied = x.applied /\ y.n = x.n /\ y.since = x.since /\ y.busy = x.busy
      /\ y.failed = x.failed /\ y.shown = x.shown /\ y.place = x.place /\ y.starts = x.starts
  BY DEF WithFields, ListIsRecord
<1>2. x.list.style = "cursor" => Trail(y)
  BY <1>1 DEF ListOK, Trail
<1> QED BY <1>1, <1>2 DEF ListOK

\* A list that loads for its fields.
LEMMA EffectKeeps ==
    ASSUME changes \in Nat, NEW x, ListOK(x), RequestsKnown(x), x.list.style = "typed",
           L!Effect(x), UNCHANGED changes
    PROVE  ListInv'
<1>1. L!Loading(x, x.typed, x.asked, 0, 0) /\ x.asked \in Nat \ {0}
      /\ x.list.style # "cursor"
  BY DEF L!Effect, ListOK
<1> QED BY <1>1, LoadingKeeps

\* A key is pressed: a typed list loads, a searched one waits for its button.
LEMMA TypeStep ==
    ASSUME ListInv, NEW filter, L!Type(filter) PROVE ListInv'
<1> DEFINE x == [list EXCEPT !.typed = filter, !.asked = 1]
           w == [list EXCEPT !.typed = filter]
<1>1. /\ list.list.style # "cursor" /\ UNCHANGED <<changes, removal>>
      /\ IF list.list.style = "typed" THEN L!Effect(x) ELSE list' = w /\ UNCHANGED requests
  BY DEF L!Type
<1>2. ListOK(list) /\ ListIsRecord(list) /\ list.asked \in Nat \ {0}
  BY DEF ListInv, ListOK
<1>3. x = WithFields(list, filter, 1) /\ w = WithFields(list, filter, list.asked)
  <2>1. x = WithFields(list, filter, 1)
    <3>1. x = [list EXCEPT !.typed = filter, !.asked = 1]
      OBVIOUS
    <3> HIDE DEF x, w
    <3> QED BY <1>2, <3>1 DEF WithFields, ListIsRecord
  <2>2. w = WithFields(list, filter, list.asked)
    BY <1>2 DEF WithFields, ListIsRecord
  <2> QED BY <2>1, <2>2
<1>4. CASE list.list.style = "typed"
  <2>1. PICK y : y = WithFields(list, filter, 1)
    OBVIOUS
  <2>2. L!Effect(y)
    BY <1>1, <1>3, <1>4, <2>1
  <2>3. ListOK(y) /\ y.list = list.list /\ y.n = list.n
    BY <1>2, <2>1, FieldsAre
  <2>4. RequestsKnown(y)
    BY <2>3 DEF ListInv, RequestsKnown
  <2> QED BY <1>1, <1>4, <2>2, <2>3, <2>4, EffectKeeps DEF ListInv
<1>5. CASE list.list.style # "typed"
  <2>1. PICK z : z = WithFields(list, filter, list.asked)
    OBVIOUS
  <2>2. /\ ListOK(z) /\ z.list = list.list /\ z.n = list.n /\ z.since = list.since
        /\ z.shown = list.shown /\ z.place = list.place /\ z.starts = list.starts
    BY <1>2, <2>1, FieldsAre
  <2>3. list' = z /\ UNCHANGED requests
    BY <1>1, <1>3, <1>5, <2>1
  <2> HIDE DEF x, w
  <2>4. ListOK(list)'
    BY <1>1, <2>2, <2>3 DEF ListOK, ListIsRecord, Trail, Whole, RowsAfter
  <2>5. RequestsKnown(list)'
    BY <1>1, <2>2, <2>3 DEF ListInv, RequestsKnown, RequestOK, RequestIsRecord, Whole, RowsAfter
  <2>6. RequestsAsked(list)'
    BY <1>1, <1>5, <2>2, <2>3 DEF ListInv, RequestsAsked, Current, Turns
  <2> QED BY <1>1, <1>5, <2>2, <2>3, <2>4, <2>5, <2>6 DEF ListInv, Answered
<1> QED BY <1>4, <1>5

\* The search button.
LEMMA SearchStep == ASSUME ListInv, L!Search PROVE ListInv'
<1>1. L!Loading(list, list.typed, 1, 0, 0) /\ list.list.style = "searched"
      /\ UNCHANGED <<changes, removal>>
  BY DEF L!Search
<1> QED BY <1>1, LoadingKeeps DEF ListInv

\* Another page of a searched list.
LEMMA TurnSearchedStep ==
    ASSUME ListInv, NEW page, L!TurnSearched(page) PROVE ListInv'
<1>1. L!Loading(list, list.applied, page, 0, 0) /\ list.list.style = "searched"
      /\ UNCHANGED <<changes, removal>> /\ page \in Nat \ {0}
  BY DEF L!TurnSearched
<1> QED BY <1>1, LoadingKeeps DEF ListInv

\* Another page of a typed list.
LEMMA TurnTypedStep ==
    ASSUME ListInv, NEW page, L!TurnTyped(page) PROVE ListInv'
<1> DEFINE w == [list EXCEPT !.asked = page]
<1>1. /\ list.list.style = "typed" /\ page \in Nat \ {0} /\ UNCHANGED <<changes, removal>>
      /\ L!Effect(w)
  BY DEF L!TurnTyped
<1>2. w = WithFields(list, list.typed, page)
  BY DEF ListInv, ListOK, WithFields, ListIsRecord
<1>3. PICK y : y = WithFields(list, list.typed, page)
  OBVIOUS
<1>4. L!Effect(y)
  BY <1>1, <1>2, <1>3
<1>5. ListOK(y) /\ y.list = list.list /\ y.n = list.n
  BY <1>1, <1>3, FieldsAre DEF ListInv
<1>6. RequestsKnown(y)
  BY <1>5 DEF ListInv, RequestsKnown
<1> QED BY <1>1, <1>4, <1>5, <1>6, EffectKeeps DEF ListInv

\* The next page of the charts, or the one before.
LEMMA TurnChartsStep ==
    ASSUME ListInv, NEW target \in Nat, L!TurnCharts(target) PROVE ListInv'
<1> DEFINE start == IF target > list.place THEN list.shown.next ELSE list.starts[target + 1]
<1>1. /\ list.list.style = "cursor" /\ target \in {list.place - 1, list.place + 1}
      /\ target > list.place => list.shown.next # 0
      /\ L!Loading(list, "all", 1, start, target) /\ UNCHANGED <<changes, removal>>
  BY DEF L!TurnCharts
<1>2. list.place \in Nat
  BY <1>1 DEF ListInv, ListOK, Trail
<1>3. Turns(list, start, target)
  BY <1>1, <1>2 DEF Turns
<1> HIDE DEF start
<1> QED BY <1>1, <1>3, LoadingKeeps DEF ListInv

\* The answer of the DELETE: the page is loaded again.
LEMMA RemovedStep == ASSUME ListInv, L!Removed PROVE ListInv'
<1>1. L!Effect(list) /\ UNCHANGED changes /\ removal' = 0 /\ list.list.style = "typed"
  BY DEF L!Removed, ListInv
<1> QED BY <1>1, EffectKeeps DEF ListInv

\* The writes of others, and those of the clerk.
LEMMA RowsStep ==
    ASSUME ListInv,
           \/ \E r \in Ids : L!RemoveRow(r) \/ \E kind : L!Write(r, kind)
           \/ L!RemovalLost
    PROVE  ListInv'
<1>1. /\ UNCHANGED <<list, requests>> /\ changes' \in {changes, changes + 1}
      /\ removal' # 0 => removal # 0 \/ list.list.removes = TRUE
  BY Zenon DEF L!RemoveRow, L!Write, L!RemovalLost
<1>2. \A k \in L!Lists : k.removes = TRUE => k.style = "typed"
  BY DEF L!Lists, L!CustomerList, L!MasterList, L!ReservationChoice, L!ReservationList,
         L!CheckoutList, L!RegisterList, L!HistoryList, L!ChartList
<1>3. changes' \in Nat /\ changes' >= changes
  BY <1>1 DEF ListInv
<1> QED BY <1>1, <1>2, <1>3, ListsStay DEF ListInv, ListOK

-----------------------------------------------------------------------------
\* What a page of the API holds.
LEMMA FoundIs ==
    ASSUME NEW rows, NEW filter, NEW page \in Nat \ {0}
    PROVE  LET ids == L!Matching(rows, filter)
               p == L!Clamped(page, Cardinality(ids))
           IN /\ Cardinality(ids) \in Nat /\ p \in Nat \ {0}
              /\ p <= L!TotalPages(Cardinality(ids))
              /\ Len(L!OnPage(ids, p)) = L!Min({PageSize, Cardinality(ids) - (p - 1) * PageSize})
<1> DEFINE ids == L!Matching(rows, filter)
<1>1. ids \in SUBSET Ids
  BY DEF L!Matching
<1> HIDE DEF ids
<1>2. Cardinality(ids) \in Nat
  BY <1>1, InOrderIs
<1> DEFINE p == L!Clamped(page, Cardinality(ids))
<1>3. p \in Nat \ {0} /\ p <= L!TotalPages(Cardinality(ids))
  BY <1>2, ClampedIs
<1> HIDE DEF p
<1>4. Len(L!OnPage(ids, p)) = L!Min({PageSize, Cardinality(ids) - (p - 1) * PageSize})
  BY <1>1, <1>3, OnPageIs
<1> QED BY <1>2, <1>3, <1>4 DEF ids, p

\* The first page, as a screen shows it before it asked for one.
LEMMA FirstPageIs ==
    ASSUME changes \in Nat, NEW a, a = L!PageOf(table, "all", 1)
    PROVE  Whole(a) /\ a.filter = "all" /\ a.page = 1 /\ a.at = changes
<1> DEFINE ids == L!Matching(table, "all")
           p == L!Clamped(1, Cardinality(ids))
<1>1. /\ Cardinality(ids) \in Nat /\ p \in Nat \ {0} /\ p <= L!TotalPages(Cardinality(ids))
      /\ Len(L!OnPage(ids, p)) = L!Min({PageSize, Cardinality(ids) - (p - 1) * PageSize})
  BY FoundIs
<1>2. p = 1
  <2> HIDE DEF ids
  <2> QED BY <1>1, ClampedIs
<1>3. a = [filter |-> "all", page |-> p, total |-> Cardinality(ids),
           rows |-> L!OnPage(ids, p), at |-> changes, next |-> 0]
  BY ListsCount DEF L!PageOf
<1> HIDE DEF ids, p
<1>4. a.page = p /\ a.total = Cardinality(ids) /\ a.rows = L!OnPage(ids, p) /\ a.at = changes
      /\ a.filter = "all"
  BY <1>3
<1> QED BY <1>1, <1>2, <1>4 DEF Whole

\* The charts behind a cursor, and the next cursor.
LEMMA ChartsAre ==
    ASSUME NEW start, NEW a, a = L!PageFrom(table, start) PROVE RowsAfter(a, start)
<1> DEFINE ids == {r \in L!Matching(table, "all") : start = 0 \/ r < start}
           shown == L!OnPage(ids, 1)
           next == IF Cardinality(ids) > PageSize THEN L!Last(shown) ELSE 0
           at == changes
<1>1. ids \in SUBSET Ids /\ \A r \in ids : start # 0 => r < start
  BY DEF L!Matching
<1>2. a = [L!NoPage EXCEPT !.rows = shown, !.at = at, !.next = next]
  BY ListsCount DEF L!PageFrom
<1> HIDE DEF ids, next, at
<1>3. Cardinality(ids) \in Nat /\ PageSize \in Nat \ {0}
  BY <1>1, InOrderIs, WebAssumption
<1>4. /\ shown \in Seq(ids)
      /\ Len(shown) = L!Min({PageSize, Cardinality(ids) - (1 - 1) * PageSize})
  <2>1. 1 <= L!TotalPages(Cardinality(ids))
    BY <1>3, PageCount
  <2> QED BY <1>1, <2>1, OnPageIs
<1> HIDE DEF shown
<1>5. next = 0 \/ next \in ids
  <2> SUFFICES ASSUME Cardinality(ids) > PageSize PROVE next \in ids
    BY DEF next
  <2>1. (1 - 1) * PageSize = 0
    BY <1>3
  <2>2. Len(shown) = PageSize
    BY <1>3, <1>4, <2>1, SmallerIs
  <2>3. shown[Len(shown)] \in ids
    BY <1>3, <1>4, <2>2
  <2> QED BY <2>3 DEF next, L!Last
<1>6. a = [filter |-> "all", page |-> 1, total |-> 0, rows |-> shown, at |-> at, next |-> next]
  BY <1>2 DEF L!NoPage
<1>7. a.rows = shown /\ a.next = next
  BY <1>6
<1> QED BY <1>1, <1>4, <1>5, <1>7 DEF RowsAfter

-----------------------------------------------------------------------------
\* A request of which one step more is done.
LEMMA RequestAdvances ==
    ASSUME ListInv, NEW l \in requests, NEW m, RequestOK(m, list.list.style), m.n = l.n,
           l.n = list.n => Current(m, list),
           requests' = (requests \ {l}) \cup {m}, UNCHANGED <<list, changes, removal>>
    PROVE  ListInv'
<1>1. ListOK(list)' /\ Answered(list)'
  BY DEF ListInv, ListOK, ListIsRecord, Trail, Whole, RowsAfter, Answered
<1>2. \A k \in requests' : /\ RequestOK(k, list.list.style)
                           /\ k.n <= list.n
                           /\ k.n = list.n => Current(k, list)
  BY DEF ListInv, RequestsKnown, RequestsAsked
<1>3. \A k \in requests' : RequestOK(k, list.list.style)'
  BY <1>2 DEF RequestOK, RequestIsRecord, Whole, RowsAfter
<1>4. \A j, k \in requests' : j.n = k.n => j = k
  BY DEF ListInv, RequestsKnown
<1>5. RequestsKnown(list)'
  BY <1>2, <1>3, <1>4 DEF RequestsKnown
<1>6. RequestsAsked(list)'
  BY <1>2 DEF RequestsAsked, Current, Turns
<1> QED BY <1>1, <1>5, <1>6 DEF ListInv

\* A request whose answer is not taken.
LEMMA RequestEnds ==
    ASSUME ListInv, requests' \subseteq requests, UNCHANGED <<list, changes, removal>>
    PROVE  ListInv'
<1>1. ListOK(list)' /\ Answered(list)'
  BY DEF ListInv, ListOK, ListIsRecord, Trail, Whole, RowsAfter, Answered
<1>2. RequestsKnown(list)'
  BY DEF ListInv, RequestsKnown, RequestOK, RequestIsRecord, Whole, RowsAfter
<1>3. RequestsAsked(list)'
  BY DEF ListInv, RequestsAsked, Current, Turns
<1> QED BY <1>1, <1>2, <1>3 DEF ListInv

\* The timer of an effect, the two statements of a page, and the one of the charts.
LEMMA SendListStep ==
    ASSUME ListInv, NEW l \in requests, L!Send(l) PROVE ListInv'
<1> DEFINE m == [n |-> l.n, filter |-> l.filter, page |-> l.page, start |-> l.start,
                 target |-> l.target, stage |-> "sent", rows |-> l.rows, at |-> l.at,
                 answer |-> l.answer]
<1>1. RequestOK(l, list.list.style) /\ RequestIsRecord(l) /\ (l.n = list.n => Current(l, list))
  BY DEF ListInv, RequestsKnown, RequestsAsked, RequestOK
<1>2. m = [l EXCEPT !.stage = "sent"]
  BY <1>1 DEF RequestIsRecord
<1>3. /\ l.stage = "waiting" /\ requests' = (requests \ {l}) \cup {m}
      /\ UNCHANGED <<list, changes, removal>>
  BY <1>2 DEF L!Send
<1>4. /\ RequestIsRecord(m) /\ m.n = l.n /\ m.filter = l.filter /\ m.page = l.page
      /\ m.start = l.start /\ m.target = l.target /\ m.stage = "sent" /\ m.answer = l.answer
  BY DEF RequestIsRecord
<1> HIDE DEF m
<1>5. RequestOK(m, list.list.style)
  BY <1>1, <1>3, <1>4 DEF RequestOK
<1>6. l.n = list.n => Current(m, list)
  BY <1>1, <1>4 DEF Current, Turns
<1> QED BY <1>3, <1>4, <1>5, <1>6, RequestAdvances

\* The hits are counted, and the rows of that moment are kept for the other statement.
LEMMA CountStep ==
    ASSUME ListInv, NEW l \in requests, L!Count(l) PROVE ListInv'
<1> DEFINE rows == table
           at == changes
           total == Cardinality(L!Matching(table, l.filter))
           answer == [L!NoPage EXCEPT !.total = total]
           m == [n |-> l.n, filter |-> l.filter, page |-> l.page, start |-> l.start,
                 target |-> l.target, stage |-> "counted", rows |-> rows, at |-> at,
                 answer |-> answer]
<1>1. RequestOK(l, list.list.style) /\ RequestIsRecord(l) /\ (l.n = list.n => Current(l, list))
  BY DEF ListInv, RequestsKnown, RequestsAsked, RequestOK
<1>2. l.stage = "sent" /\ l.answer = L!NoPage /\ list.list.style # "cursor"
  BY <1>1 DEF RequestOK, L!Count
<1>3. m = [l EXCEPT !.stage = "counted", !.rows = rows, !.at = at, !.answer.total = total]
  <2> DEFINE w == [l EXCEPT !.stage = "counted", !.rows = rows, !.at = at, !.answer = answer]
             v == [l EXCEPT !.stage = "counted", !.rows = rows, !.at = at, !.answer.total = total]
  <2>1. v = w
    <3>1. v = [l EXCEPT !.stage = "counted", !.rows = rows, !.at = at,
                        !.answer = [l.answer EXCEPT !.total = total]]
      OBVIOUS
    <3> QED BY <1>2, <3>1
  <2>2. w = [l EXCEPT !.stage = "counted", !.rows = rows, !.at = at, !.answer = answer]
    OBVIOUS
  <2> HIDE DEF rows, at, total, answer, w, v
  <2>3. w = m
    BY <1>1, <2>2 DEF RequestIsRecord
  <2> QED BY <2>1, <2>3 DEF v
<1>4. requests' = (requests \ {l}) \cup {m} /\ UNCHANGED <<list, changes, removal>>
  BY <1>3, ListsCount DEF L!Count
<1>5. answer.total = total
  BY DEF L!NoPage
<1> HIDE DEF answer, total, rows
<1>6. /\ RequestIsRecord(m) /\ m.n = l.n /\ m.filter = l.filter /\ m.page = l.page
      /\ m.start = l.start /\ m.target = l.target /\ m.stage = "counted" /\ m.answer = answer
      /\ m.rows = rows /\ m.at = changes
  BY DEF RequestIsRecord
<1> HIDE DEF m
<1>7. RequestOK(m, list.list.style)
  <2>1. m.answer.total = Cardinality(L!Matching(m.rows, m.filter))
    BY <1>5, <1>6 DEF total, rows
  <2>2. m.at \in Nat /\ m.at <= changes
    BY <1>6 DEF ListInv
  <2> QED BY <1>1, <1>2, <1>6, <2>1, <2>2 DEF RequestOK
<1>8. l.n = list.n => Current(m, list)
  <2>1. changes >= list.since
    BY DEF ListInv, ListOK
  <2> QED BY <1>1, <1>6, <2>1 DEF Current, Turns
<1> QED BY <1>4, <1>6, <1>7, <1>8, RequestAdvances

\* The rows of the page are read from the same moment.
LEMMA FindStep ==
    ASSUME ListInv, NEW l \in requests, L!Find(l) PROVE ListInv'
<1> DEFINE ids == L!Matching(l.rows, l.filter)
           total == l.answer.total
           page == L!Clamped(l.page, total)
           rows == L!OnPage(ids, page)
           answer == [L!NoPage EXCEPT !.filter = l.filter, !.page = page, !.at = l.at,
                                      !.total = total, !.rows = rows]
           none == <<>>
           m == [n |-> l.n, filter |-> l.filter, page |-> l.page, start |-> l.start,
                 target |-> l.target, stage |-> "read", rows |-> none, at |-> 0,
                 answer |-> answer]
<1>1. RequestOK(l, list.list.style) /\ RequestIsRecord(l) /\ (l.n = list.n => Current(l, list))
  BY DEF ListInv, RequestsKnown, RequestsAsked, RequestOK
<1>2. /\ l.stage = "counted" /\ list.list.style # "cursor" /\ l.at \in Nat
      /\ total = Cardinality(ids) /\ l.page \in Nat \ {0}
  BY <1>1 DEF RequestOK, L!Find
<1>3. m = [l EXCEPT !.stage = "read", !.rows = <<>>, !.at = 0, !.answer = answer]
  <2> DEFINE w == [l EXCEPT !.stage = "read", !.rows = none, !.at = 0, !.answer = answer]
  <2>1. w = [l EXCEPT !.stage = "read", !.rows = none, !.at = 0, !.answer = answer]
    OBVIOUS
  <2> HIDE DEF answer, w, none
  <2>2. w = m
    BY <1>1, <2>1 DEF RequestIsRecord
  <2> QED BY <2>2 DEF w, none
<1>4. requests' = (requests \ {l}) \cup {m} /\ UNCHANGED <<list, changes, removal>>
  BY <1>3 DEF L!Find, L!Snapshot
<1>5. /\ total \in Nat /\ page \in Nat \ {0} /\ page <= L!TotalPages(total)
      /\ Len(rows) = L!Min({PageSize, total - (page - 1) * PageSize})
  <2> DEFINE p == L!Clamped(l.page, Cardinality(ids))
  <2>1. /\ Cardinality(ids) \in Nat /\ p \in Nat \ {0} /\ p <= L!TotalPages(Cardinality(ids))
        /\ Len(L!OnPage(ids, p)) = L!Min({PageSize, Cardinality(ids) - (p - 1) * PageSize})
    BY <1>2, FoundIs
  <2>2. p = page
    BY <1>2
  <2> HIDE DEF p, page, ids, total
  <2> QED BY <1>2, <2>1, <2>2 DEF page
<1> HIDE DEF total, page, rows
<1>6. /\ answer.filter = l.filter /\ answer.page = page /\ answer.at = l.at
      /\ answer.total = total /\ answer.rows = rows
  <2>1. answer = [filter |-> l.filter, page |-> page, total |-> total, rows |-> rows,
                  at |-> l.at, next |-> 0]
    <3>1. answer = [L!NoPage EXCEPT !.filter = l.filter, !.page = page, !.at = l.at,
                                    !.total = total, !.rows = rows]
      OBVIOUS
    <3> HIDE DEF answer
    <3> QED BY <3>1 DEF L!NoPage
  <2> QED BY <2>1
<1> HIDE DEF answer, none
<1>7. /\ RequestIsRecord(m) /\ m.n = l.n /\ m.filter = l.filter /\ m.page = l.page
      /\ m.start = l.start /\ m.target = l.target /\ m.stage = "read" /\ m.answer = answer
  BY DEF RequestIsRecord
<1> HIDE DEF m
<1>8. RequestOK(m, list.list.style)
  <2>1. Whole(m.answer) /\ m.answer.filter = m.filter
    BY <1>2, <1>5, <1>6, <1>7 DEF Whole
  <2> QED BY <1>1, <1>2, <1>7, <2>1 DEF RequestOK
<1>9. l.n = list.n => Current(m, list)
  BY <1>1, <1>2, <1>6, <1>7 DEF Current, Turns
<1> QED BY <1>4, <1>7, <1>8, <1>9, RequestAdvances

\* The choice of a reservation: one statement, whose rows are one page of their own.
LEMMA FindOptionsStep ==
    ASSUME ListInv, NEW l \in requests, L!FindOptions(l) PROVE ListInv'
<1> DEFINE ids == L!Matching(table, l.filter)
           rows == L!OnPage(ids, 1)
           total == Len(rows)
           at == changes
           answer == [L!NoPage EXCEPT !.filter = l.filter, !.total = total, !.rows = rows,
                                      !.at = at]
           m == [n |-> l.n, filter |-> l.filter, page |-> l.page, start |-> l.start,
                 target |-> l.target, stage |-> "read", rows |-> l.rows, at |-> l.at,
                 answer |-> answer]
<1>1. RequestOK(l, list.list.style) /\ RequestIsRecord(l) /\ (l.n = list.n => Current(l, list))
  BY DEF ListInv, RequestsKnown, RequestsAsked, RequestOK
<1>2. /\ l.stage = "sent" /\ list.list.style # "cursor" /\ UNCHANGED <<list, changes, removal>>
      /\ requests' = (requests \ {l}) \cup {[l EXCEPT !.stage = "read", !.answer = answer]}
  BY DEF L!FindOptions, L!ReservationChoice
<1>p. PICK p : p = 1
  OBVIOUS
<1>3. /\ total \in Nat /\ p <= L!TotalPages(total)
      /\ Len(rows) = L!Min({PageSize, total - (p - 1) * PageSize})
  <2>1. ids \in SUBSET Ids /\ Cardinality(ids) \in Nat /\ PageSize \in Nat \ {0}
    <3>1. ids \in SUBSET Ids
      BY DEF L!Matching
    <3> QED BY <3>1, InOrderIs, WebAssumption
  <2> HIDE DEF ids
  <2>2. Len(rows) = L!Min({PageSize, Cardinality(ids) - (1 - 1) * PageSize})
    <3>1. 1 <= L!TotalPages(Cardinality(ids))
      BY <2>1, PageCount
    <3> QED BY <2>1, <3>1, OnPageIs
  <2> HIDE DEF rows
  <2>3. (1 - 1) * PageSize = 0
    BY <2>1
  <2>4. Len(rows) = IF PageSize <= Cardinality(ids) THEN PageSize ELSE Cardinality(ids)
    BY <2>1, <2>2, <2>3, SmallerIs
  <2>5. total \in Nat /\ total <= PageSize
    BY <2>1, <2>4
  <2> HIDE DEF total
  <2>6. p <= L!TotalPages(total)
    BY <1>p, <2>5, PageCount
  <2>7. (p - 1) * PageSize = 0
    BY <1>p, <2>1
  <2>8. L!Min({PageSize, total}) = total
    BY <2>1, <2>5, SmallerIs
  <2>9. total - (p - 1) * PageSize = total
    BY <2>5, <2>7
  <2>10. Len(rows) = total
    BY DEF total
  <2> QED BY <2>5, <2>6, <2>8, <2>9, <2>10
<1> HIDE DEF total, rows, at
<1>4. /\ answer.filter = l.filter /\ answer.page = p /\ answer.at = at
      /\ answer.total = total /\ answer.rows = rows
  <2>1. answer = [filter |-> l.filter, page |-> 1, total |-> total, rows |-> rows,
                  at |-> at, next |-> 0]
    <3>1. answer = [L!NoPage EXCEPT !.filter = l.filter, !.total = total, !.rows = rows,
                                    !.at = at]
      OBVIOUS
    <3> HIDE DEF answer
    <3> QED BY <1>p, <3>1 DEF L!NoPage
  <2> HIDE DEF answer
  <2> QED BY <1>p, <2>1
<1> HIDE DEF answer
<1>5. m = [l EXCEPT !.stage = "read", !.answer = answer]
  <2> DEFINE w == [l EXCEPT !.stage = "read", !.answer = answer]
  <2>1. w = [l EXCEPT !.stage = "read", !.answer = answer]
    OBVIOUS
  <2> HIDE DEF w
  <2>2. w = m
    BY <1>1, <2>1 DEF RequestIsRecord
  <2> QED BY <2>2 DEF w
<1>6. requests' = (requests \ {l}) \cup {m}
  BY <1>2, <1>5
<1>7. /\ RequestIsRecord(m) /\ m.n = l.n /\ m.filter = l.filter /\ m.page = l.page
      /\ m.start = l.start /\ m.target = l.target /\ m.stage = "read" /\ m.answer = answer
  BY DEF RequestIsRecord
<1> HIDE DEF m
<1>8. at \in Nat /\ at >= list.since
  BY DEF at, ListInv, ListOK
<1>9. RequestOK(m, list.list.style)
  <2>1. Whole(m.answer) /\ m.answer.filter = m.filter
    <3>1. p \in Nat \ {0}
      BY <1>p
    <3>2. Whole(answer)
      BY <1>3, <1>4, <1>8, <3>1 DEF Whole
    <3> QED BY <1>4, <1>7, <3>2
  <2> QED BY <1>1, <1>2, <1>7, <2>1 DEF RequestOK
<1>10. l.n = list.n => Current(m, list)
  BY <1>1, <1>2, <1>4, <1>7, <1>8 DEF Current, Turns
<1> QED BY <1>2, <1>6, <1>7, <1>9, <1>10, RequestAdvances

\* The charts behind a cursor are read.
LEMMA FindFromStep ==
    ASSUME ListInv, NEW l \in requests, L!FindFrom(l) PROVE ListInv'
<1> DEFINE answer == L!PageFrom(table, l.start)
           m == [n |-> l.n, filter |-> l.filter, page |-> l.page, start |-> l.start,
                 target |-> l.target, stage |-> "read", rows |-> l.rows, at |-> l.at,
                 answer |-> answer]
<1>1. RequestOK(l, list.list.style) /\ RequestIsRecord(l) /\ (l.n = list.n => Current(l, list))
  BY DEF ListInv, RequestsKnown, RequestsAsked, RequestOK
<1>2. l.stage = "sent" /\ list.list.style = "cursor" /\ UNCHANGED <<list, changes, removal>>
      /\ requests' = (requests \ {l}) \cup {[l EXCEPT !.stage = "read", !.answer = answer]}
  BY DEF L!FindFrom
<1>3. RowsAfter(answer, l.start)
  BY ChartsAre
<1> HIDE DEF answer
<1>4. m = [l EXCEPT !.stage = "read", !.answer = answer]
  <2> DEFINE w == [l EXCEPT !.stage = "read", !.answer = answer]
  <2>1. w = [l EXCEPT !.stage = "read", !.answer = answer]
    OBVIOUS
  <2> HIDE DEF w
  <2>2. w = m
    BY <1>1, <2>1 DEF RequestIsRecord
  <2> QED BY <2>2 DEF w
<1>5. requests' = (requests \ {l}) \cup {m}
  BY <1>2, <1>4
<1>6. /\ RequestIsRecord(m) /\ m.n = l.n /\ m.filter = l.filter /\ m.page = l.page
      /\ m.start = l.start /\ m.target = l.target /\ m.stage = "read" /\ m.answer = answer
  BY DEF RequestIsRecord
<1> HIDE DEF m
<1>7. RequestOK(m, list.list.style)
  BY <1>1, <1>2, <1>3, <1>6 DEF RequestOK
<1>8. l.n = list.n => Current(m, list)
  BY <1>1, <1>2, <1>6 DEF Current, Turns
<1> QED BY <1>2, <1>5, <1>6, <1>7, <1>8, RequestAdvances

-----------------------------------------------------------------------------
\* A list that came to rest, with what it shows from now on.
ListAtRest(x, a, asked, applied, place, starts, failed) ==
    [list |-> x.list, typed |-> x.typed, asked |-> asked, applied |-> applied, n |-> x.n,
     since |-> x.since, busy |-> FALSE, failed |-> failed, shown |-> a, place |-> place,
     starts |-> starts]

\* The request the list waited for ends.
LEMMA AnswerTaken ==
    ASSUME ListInv, NEW l \in requests, l.n = list.n, NEW y, ListOK(y), Answered(y),
           y.list = list.list, y.n = list.n, list' = y, requests' = requests \ {l},
           UNCHANGED <<changes, removal>>
    PROVE  ListInv'
<1>1. ListOK(list)' /\ Answered(list)'
  <2>1. ListOK(list)'
    BY DEF ListOK, ListIsRecord, Trail, Whole, RowsAfter
  <2>2. Answered(list)'
    BY DEF Answered
  <2> QED BY <2>1, <2>2
<1>2. RequestsKnown(list)'
  BY DEF ListInv, RequestsKnown, RequestOK, RequestIsRecord, Whole, RowsAfter
<1>3. RequestsAsked(list)'
  BY DEF ListInv, RequestsKnown, RequestsAsked
<1> QED BY <1>1, <1>2, <1>3 DEF ListInv

\* The answer for a typed list: a page that was clamped is asked for again.
LEMMA ReceiveTypedStep ==
    ASSUME ListInv, NEW l \in requests, l.n = list.n, l.stage = "read",
           list.list.style = "typed", L!ReceiveTyped(l), UNCHANGED <<changes, removal>>
    PROVE  ListInv'
<1> DEFINE a == l.answer
           page == a.page
           no == FALSE
           x == [list EXCEPT !.shown = a, !.asked = page, !.busy = no, !.failed = no]
<1>1. IF page = list.asked THEN list' = x /\ requests' = requests \ {l} ELSE L!Effect(x)
  BY DEF L!ReceiveTyped
<1>2. ListOK(list) /\ ListIsRecord(list) /\ RequestOK(l, list.list.style) /\ Current(l, list)
  BY DEF ListInv, ListOK, RequestsKnown, RequestsAsked
<1>3. PICK y : y = ListAtRest(list, a, page, list.applied, list.place, list.starts, no)
  OBVIOUS
<1>4. x = y
  <2>1. x = [list EXCEPT !.shown = a, !.asked = page, !.busy = no, !.failed = no]
    OBVIOUS
  <2>2. no = FALSE
    OBVIOUS
  <2> HIDE DEF x, a, page, no
  <2>3. y = [list |-> list.list, typed |-> list.typed, asked |-> page, applied |-> list.applied,
             n |-> list.n, since |-> list.since, busy |-> no, failed |-> no, shown |-> a,
             place |-> list.place, starts |-> list.starts]
    BY <1>3, <2>2, Zenon DEF ListAtRest
  <2>4. x = [list |-> list.list, typed |-> list.typed, asked |-> page, applied |-> list.applied,
             n |-> list.n, since |-> list.since, busy |-> no, failed |-> no, shown |-> a,
             place |-> list.place, starts |-> list.starts]
    BY <1>2, <2>1 DEF ListIsRecord
  <2> QED BY <2>3, <2>4
<1> HIDE DEF x
<1>5. /\ Whole(a) /\ a.filter = list.typed /\ a.at >= list.since /\ page \in Nat \ {0}
  BY <1>2 DEF RequestOK, Current, Whole
<1>6. /\ ListIsRecord(y) /\ y.list = list.list /\ y.typed = list.typed /\ y.asked = page
      /\ y.applied = list.applied /\ y.n = list.n /\ y.since = list.since /\ y.shown = a
      /\ y.place = list.place /\ y.starts = list.starts /\ y.failed = FALSE /\ y.busy = FALSE
  BY <1>3 DEF ListAtRest, ListIsRecord
<1> HIDE DEF a, no
<1>7. ListOK(y)
  <2>1. y.failed \in {TRUE, FALSE} /\ y.busy \in {TRUE, FALSE}
    BY <1>6, Zenon
  <2> QED BY <1>2, <1>5, <1>6, <2>1 DEF ListOK
<1>8. CASE page = list.asked
  <2>1. list' = y /\ requests' = requests \ {l}
    BY <1>1, <1>4, <1>8
  <2>2. Answered(y)
    BY <1>5, <1>6 DEF Answered, page
  <2> QED BY <1>6, <1>7, <2>1, <2>2, AnswerTaken
<1>9. CASE page # list.asked
  <2>1. L!Effect(y)
    BY <1>1, <1>4, <1>9
  <2>2. RequestsKnown(y) /\ y.list.style = "typed" /\ changes \in Nat
    BY <1>6 DEF ListInv, RequestsKnown
  <2> QED BY <1>7, <2>1, <2>2, EffectKeeps
<1> QED BY <1>8, <1>9

\* The answer for a searched list, whose fields are applied with it.
LEMMA ReceiveSearchedStep ==
    ASSUME ListInv, NEW l \in requests, l.n = list.n, l.stage = "read",
           list.list.style = "searched", L!ReceiveSearched(l), UNCHANGED <<changes, removal>>
    PROVE  ListInv'
<1> DEFINE a == l.answer
           filter == l.filter
           no == FALSE
<1>1. list' = [list EXCEPT !.shown = a, !.applied = filter, !.busy = no]
      /\ requests' = requests \ {l}
  BY DEF L!ReceiveSearched
<1>2. ListOK(list) /\ ListIsRecord(list) /\ RequestOK(l, list.list.style)
  BY DEF ListInv, ListOK, RequestsKnown
<1>3. PICK y : y = ListAtRest(list, a, list.asked, filter, list.place, list.starts, list.failed)
  OBVIOUS
<1>4. list' = y
  <2>1. no = FALSE
    OBVIOUS
  <2> HIDE DEF a, filter, no
  <2>2. y = [list |-> list.list, typed |-> list.typed, asked |-> list.asked,
             applied |-> filter, n |-> list.n, since |-> list.since, busy |-> no,
             failed |-> list.failed, shown |-> a, place |-> list.place, starts |-> list.starts]
    BY <1>3, <2>1, Zenon DEF ListAtRest
  <2>3. list' = [list |-> list.list, typed |-> list.typed, asked |-> list.asked,
             applied |-> filter, n |-> list.n, since |-> list.since, busy |-> no,
             failed |-> list.failed, shown |-> a, place |-> list.place, starts |-> list.starts]
    BY <1>1, <1>2 DEF ListIsRecord
  <2> QED BY <2>2, <2>3
<1>5. Whole(a) /\ a.filter = filter
  BY <1>2 DEF RequestOK
<1>6. /\ ListIsRecord(y) /\ y.list = list.list /\ y.asked = list.asked
      /\ y.applied = filter /\ y.n = list.n /\ y.since = list.since /\ y.shown = a
      /\ y.failed = list.failed /\ y.busy = FALSE
  BY <1>3 DEF ListAtRest, ListIsRecord
<1> HIDE DEF a, filter, no
<1>7. ListOK(y)
  <2>1. y.busy \in {TRUE, FALSE}
    BY <1>6, Zenon
  <2> QED BY <1>2, <1>5, <1>6, <2>1 DEF ListOK
<1>8. Answered(y)
  BY <1>6 DEF Answered
<1> QED BY <1>1, <1>4, <1>6, <1>7, <1>8, AnswerTaken

\* The answer for the charts: its cursor is kept behind those walked along.
LEMMA ReceiveChartsStep ==
    ASSUME ListInv, NEW l \in requests, l.n = list.n, l.stage = "read",
           list.list.style = "cursor", L!ReceiveCharts(l), UNCHANGED <<changes, removal>>
    PROVE  ListInv'
<1> DEFINE a == l.answer
           target == l.target
           start == l.start
           T == Append(SubSeq(list.starts, 1, target), start)
           starts == IF target > list.place THEN T ELSE list.starts
           no == FALSE
<1>1. list' = [list EXCEPT !.shown = a, !.place = target, !.busy = no, !.starts = starts]
      /\ requests' = requests \ {l}
  BY DEF L!ReceiveCharts
<1>2. /\ ListOK(list) /\ ListIsRecord(list) /\ RequestOK(l, list.list.style)
      /\ Turns(list, start, target) /\ RowsAfter(a, start) /\ Trail(list)
  BY DEF ListInv, ListOK, RequestsKnown, RequestsAsked, RequestOK, Current
<1>3. PICK y : y = ListAtRest(list, a, list.asked, list.applied, target, starts, list.failed)
  OBVIOUS
<1>4. list' = y
  <2>1. no = FALSE
    OBVIOUS
  <2> HIDE DEF a, target, start, starts, no
  <2>2. y = [list |-> list.list, typed |-> list.typed, asked |-> list.asked,
             applied |-> list.applied, n |-> list.n, since |-> list.since, busy |-> no,
             failed |-> list.failed, shown |-> a, place |-> target, starts |-> starts]
    BY <1>3, <2>1, Zenon DEF ListAtRest
  <2>3. list' = [list |-> list.list, typed |-> list.typed, asked |-> list.asked,
             applied |-> list.applied, n |-> list.n, since |-> list.since, busy |-> no,
             failed |-> list.failed, shown |-> a, place |-> target, starts |-> starts]
    BY <1>1, <1>2 DEF ListIsRecord
  <2> QED BY <2>2, <2>3
<1> HIDE DEF a, target, start, starts, no
<1>5. /\ ListIsRecord(y) /\ y.list = list.list /\ y.asked = list.asked
      /\ y.applied = list.applied /\ y.n = list.n /\ y.since = list.since /\ y.shown = a
      /\ y.failed = list.failed /\ y.place = target /\ y.starts = starts /\ y.busy = FALSE
  BY <1>3 DEF ListAtRest, ListIsRecord
<1> DEFINE old == list.starts
           place == list.place
<1>6. /\ old \in Seq(Nat) /\ Len(old) \in Nat /\ old[1] = 0
      /\ place \in Nat /\ place + 1 <= Len(old)
      /\ \A i \in 2 .. Len(old) : old[i] \in Ids /\ (i > 2 => old[i] < old[i - 1])
      /\ RowsAfter(list.shown, old[place + 1])
  BY <1>2 DEF Trail
<1>7. 0 \notin Ids /\ Ids \subseteq Nat
  BY WebAssumption, FS_CardinalityType
<1> HIDE DEF old, place
<1>8. Trail(y)
  <2>1. CASE target = place + 1 /\ start = list.shown.next /\ start # 0
    <3>1. start \in Ids /\ (old[place + 1] # 0 => start < old[place + 1])
      BY <1>6, <2>1 DEF RowsAfter
    <3> DEFINE U == SubSeq(old, 1, target)
    <3>2. U \in Seq(Nat) /\ Len(U) = target /\ \A i \in 1 .. target : U[i] = old[i]
      BY <1>6, <2>1
    <3> HIDE DEF U, T
    <3>3. starts = Append(U, start)
      <4>1. target > place
        BY <1>6, <2>1
      <4>2. starts = T
        BY <4>1, Zenon DEF starts, place
      <4> QED BY <4>2, Zenon DEF T, U, old
    <3>4. /\ starts \in Seq(Nat) /\ Len(starts) = target + 1 /\ starts[target + 1] = start
          /\ \A i \in 1 .. target : starts[i] = old[i]
      <4>1. start \in Nat /\ target \in Nat
        <5>1. start \in Nat
          BY <1>7, <3>1, Zenon
        <5>2. place \in Nat
          BY <1>6
        <5> QED BY <2>1, <5>1, <5>2
      <4> HIDE DEF starts
      <4> QED BY <3>2, <3>3, <4>1
    <3>5. starts[1] = 0
      BY <1>6, <2>1, <3>4
    <3>6. ASSUME NEW i \in 2 .. Len(starts)
          PROVE  starts[i] \in Ids /\ (i > 2 => starts[i] < starts[i - 1])
      <4>1. CASE i <= target
        <5>1. starts[i] = old[i] /\ starts[i - 1] = old[i - 1] /\ i \in 2 .. Len(old)
          BY <1>6, <2>1, <3>4, <4>1
        <5> QED BY <1>6, <5>1
      <4>2. CASE i = target + 1
        <5>1. ASSUME i > 2 PROVE old[place + 1] # 0 /\ starts[i - 1] = old[place + 1]
          <6>1. place + 1 \in 2 .. Len(old) /\ target \in 1 .. target /\ i - 1 = target
            BY <1>6, <2>1, <4>2, <5>1
          <6> QED BY <1>6, <1>7, <2>1, <3>4, <6>1
        <5> QED BY <3>1, <3>4, <4>2, <5>1
      <4>3. i <= target \/ i = target + 1
        BY <1>6, <2>1, <3>4
      <4> QED BY <4>1, <4>2, <4>3
    <3>7. target \in Nat /\ target + 1 <= Len(starts) /\ RowsAfter(a, starts[target + 1])
      BY <1>2, <1>6, <2>1, <3>4
    <3> QED BY <1>5, <3>4, <3>5, <3>6, <3>7 DEF Trail
  <2>2. CASE target \in Nat /\ target + 1 = place /\ start = old[target + 1]
    <3>1. starts = old
      BY <1>6, <2>2 DEF starts, old, place
    <3>2. target + 1 <= Len(old) /\ RowsAfter(a, old[target + 1])
      BY <1>2, <1>6, <2>2
    <3> QED BY <1>5, <1>6, <2>2, <3>1, <3>2 DEF Trail
  <2> QED BY <1>2, <2>1, <2>2 DEF Turns, old, place
<1>9. ListOK(y)
  <2>1. y.busy \in {TRUE, FALSE}
    BY <1>5, Zenon
  <2> QED BY <1>2, <1>5, <1>8, <2>1 DEF ListOK
<1>10. Answered(y)
  BY <1>5 DEF Answered
<1> QED BY <1>1, <1>4, <1>5, <1>9, <1>10, AnswerTaken

\* An answer comes: of the last request, or of one that was replaced.
LEMMA ReceiveListStep ==
    ASSUME ListInv, NEW l \in requests, L!Receive(l) PROVE ListInv'
<1>1. l.stage = "read" /\ UNCHANGED <<changes, removal>>
  BY DEF L!Receive
<1>2. CASE l.n # list.n
  <2>1. requests' \subseteq requests /\ UNCHANGED list
    BY <1>2 DEF L!Receive, L!Ignored
  <2> QED BY <1>1, <2>1, RequestEnds
<1>3. CASE l.n = list.n
  <2>1. list.list.style \in {"typed", "searched", "cursor"}
    BY DEF ListInv, ListOK, L!Lists, L!CustomerList, L!MasterList, L!ReservationChoice,
           L!ReservationList, L!CheckoutList, L!RegisterList, L!HistoryList, L!ChartList
  <2>2. CASE list.list.style = "typed"
    <3>1. L!ReceiveTyped(l)
      BY <1>3, <2>2 DEF L!Receive, L!Ignored
    <3> QED BY <1>1, <1>3, <2>2, <3>1, ReceiveTypedStep
  <2>3. CASE list.list.style = "searched"
    <3>1. L!ReceiveSearched(l)
      BY <1>3, <2>3 DEF L!Receive, L!Ignored
    <3> QED BY <1>1, <1>3, <2>3, <3>1, ReceiveSearchedStep
  <2>4. CASE list.list.style = "cursor"
    <3>1. L!ReceiveCharts(l)
      BY <1>3, <2>4 DEF L!Receive, L!Ignored
    <3> QED BY <1>1, <1>3, <2>4, <3>1, ReceiveChartsStep
  <2> QED BY <2>1, <2>2, <2>3, <2>4
<1> QED BY <1>2, <1>3

\* A request fails: the last one leaves what was shown before.
LEMMA LoseStep ==
    ASSUME ListInv, NEW l \in requests, L!Lose(l) PROVE ListInv'
<1> DEFINE no == FALSE
           yes == TRUE
<1>1. requests' = requests \ {l} /\ UNCHANGED <<changes, removal>>
      /\ list' = IF l.n # list.n THEN list ELSE [list EXCEPT !.busy = no, !.failed = yes]
  BY DEF L!Lose, L!Ignored
<1>2. CASE l.n # list.n
  <2>1. requests' \subseteq requests /\ UNCHANGED list
    BY <1>1, <1>2
  <2> QED BY <1>1, <2>1, RequestEnds
<1>3. CASE l.n = list.n
  <2>1. ListOK(list) /\ ListIsRecord(list)
    BY DEF ListInv, ListOK
  <2>2. PICK y : y = ListAtRest(list, list.shown, list.asked, list.applied, list.place,
                             list.starts, yes)
    OBVIOUS
  <2>3. list' = y
    <3>1. no = FALSE /\ yes = TRUE
      OBVIOUS
    <3>2. list' = [list EXCEPT !.busy = no, !.failed = yes]
      BY <1>1, <1>3
    <3> HIDE DEF no, yes
    <3>3. y = [list |-> list.list, typed |-> list.typed, asked |-> list.asked,
               applied |-> list.applied, n |-> list.n, since |-> list.since, busy |-> no,
               failed |-> yes, shown |-> list.shown, place |-> list.place,
               starts |-> list.starts]
      BY <2>2, <3>1, Zenon DEF ListAtRest
    <3>4. list' = [list |-> list.list, typed |-> list.typed, asked |-> list.asked,
               applied |-> list.applied, n |-> list.n, since |-> list.since, busy |-> no,
               failed |-> yes, shown |-> list.shown, place |-> list.place,
               starts |-> list.starts]
      BY <2>1, <3>2 DEF ListIsRecord
    <3> QED BY <3>3, <3>4
  <2>4. /\ ListIsRecord(y) /\ y.list = list.list /\ y.asked = list.asked
        /\ y.applied = list.applied /\ y.n = list.n /\ y.since = list.since
        /\ y.shown = list.shown /\ y.place = list.place /\ y.starts = list.starts
        /\ y.failed = TRUE /\ y.busy = FALSE
    BY <2>2 DEF ListAtRest, ListIsRecord
  <2>5. ListOK(y)
    <3>1. y.busy \in {TRUE, FALSE} /\ y.failed \in {TRUE, FALSE}
      BY <2>4, Zenon
    <3>2. list.list.style = "cursor" => Trail(y)
      BY <2>1, <2>4 DEF ListOK, Trail
    <3> QED BY <2>1, <2>4, <3>1, <3>2 DEF ListOK
  <2>6. Answered(y)
    BY <2>4 DEF Answered
  <2> QED BY <1>1, <1>3, <2>3, <2>4, <2>5, <2>6, AnswerTaken
<1> QED BY <1>2, <1>3

\* At first a list shows what the server read, or loads at once.
LEMMA ListBegins == L!Init => ListInv
<1> SUFFICES ASSUME L!Init PROVE ListInv
  OBVIOUS
<1>1. changes = 0 /\ removal = 0
  BY DEF L!Init
<1> DEFINE first(of) ==
             [list |-> of, typed |-> "all", asked |-> 1, applied |-> "all", n |-> 0,
              since |-> 0, busy |-> FALSE, failed |-> FALSE, shown |-> L!ShownAtFirst(of),
              place |-> 0, starts |-> <<0>>]
           asked == [n |-> 1, filter |-> "all", page |-> 1, start |-> 0, target |-> 0,
                     stage |-> "waiting", rows |-> <<>>, at |-> 0, answer |-> L!NoPage]
<1>2. PICK of \in L!Lists :
        IF of.mounted THEN /\ list = [first(of) EXCEPT !.n = 1, !.busy = TRUE]
                           /\ requests = {asked}
        ELSE list = first(of) /\ requests = {}
  BY DEF L!Init
<1> DEFINE a == L!ShownAtFirst(of)
           x == [list |-> of, typed |-> "all", asked |-> 1, applied |-> "all", n |-> 0,
                 since |-> 0, busy |-> FALSE, failed |-> FALSE, shown |-> a, place |-> 0,
                 starts |-> <<0>>]
           y == [list |-> of, typed |-> "all", asked |-> 1, applied |-> "all", n |-> 1,
                 since |-> 0, busy |-> TRUE, failed |-> FALSE, shown |-> a, place |-> 0,
                 starts |-> <<0>>]
<1>3. /\ of.style # "cursor" => Whole(a) /\ a.filter = "all" /\ a.page = 1 /\ a.at = 0
      /\ of.style = "cursor" => RowsAfter(a, 0)
  <2>1. CASE of.style # "cursor" /\ of # L!ReservationChoice
    <3>1. a = L!PageOf(table, "all", 1)
      BY <2>1 DEF L!ShownAtFirst
    <3>2. 0 \in Nat
      OBVIOUS
    <3> HIDE DEF a
    <3> QED BY <1>1, <2>1, <3>1, <3>2, FirstPageIs
  <2>3. CASE of = L!ReservationChoice
    <3>1. of.style = "typed"
      BY <2>3 DEF L!ReservationChoice
    <3>2. a = L!NoPage
      BY <2>3, <3>1 DEF L!ShownAtFirst
    <3> HIDE DEF a
    <3>3. a.filter = "all" /\ a.page = 1 /\ a.total = 0 /\ a.at = 0 /\ Len(a.rows) = 0
      BY <3>2 DEF L!NoPage
    <3>4. 1 <= L!TotalPages(0) /\ PageSize \in Nat
      BY PageCount, WebAssumption
    <3>5. L!Min({PageSize, 0 - (1 - 1) * PageSize}) = 0
      BY <3>4, SmallerIs
    <3> QED BY <3>1, <3>3, <3>4, <3>5 DEF Whole
  <2>2. CASE of.style = "cursor"
    <3>1. a = L!PageFrom(table, 0)
      <4>1. of # L!ReservationChoice
        BY <2>2 DEF L!ReservationChoice
      <4> QED BY <2>2, <4>1 DEF L!ShownAtFirst
    <3> HIDE DEF a
    <3> QED BY <2>2, <3>1, ChartsAre
  <2> QED BY <2>1, <2>2, <2>3
<1>4. IF of.mounted THEN list = y /\ requests = {asked} ELSE list = x /\ requests = {}
  <2>1. [first(of) EXCEPT !.n = 1, !.busy = TRUE] = y
    <3> DEFINE yes == TRUE
               no == FALSE
               none == <<0>>
               v == [x EXCEPT !.n = 1, !.busy = yes]
    <3>1. x = [list |-> of, typed |-> "all", asked |-> 1, applied |-> "all", n |-> 0,
               since |-> 0, busy |-> no, failed |-> no, shown |-> a, place |-> 0,
               starts |-> none]
      OBVIOUS
    <3>2. v = [x EXCEPT !.n = 1, !.busy = yes]
      OBVIOUS
    <3> HIDE DEF v, x, yes, no, none, a
    <3>3. v = [list |-> of, typed |-> "all", asked |-> 1, applied |-> "all", n |-> 1,
               since |-> 0, busy |-> yes, failed |-> no, shown |-> a, place |-> 0,
               starts |-> none]
      BY <3>1, <3>2
    <3>4. v = y
      BY <3>3, Zenon DEF yes, no, none
    <3> QED BY <3>4 DEF v, x, yes, a
  <2>2. first(of) = x
    OBVIOUS
  <2> HIDE DEF x, y, first
  <2> QED BY <1>2, <2>1, <2>2
<1> HIDE DEF a, first
<1>5. list \in {x, y}
  BY <1>4
<1>6. /\ ListIsRecord(list) /\ list.list = of /\ list.typed = "all" /\ list.asked = 1
      /\ list.applied = "all" /\ list.n \in {0, 1} /\ list.since = 0
      /\ list.shown = a /\ list.place = 0 /\ list.starts = <<0>>
  BY <1>5 DEF ListIsRecord
<1>7. list.failed \in {TRUE, FALSE} /\ list.busy \in {TRUE, FALSE}
  <2>1. list = x => list.failed = FALSE /\ list.busy = FALSE
    OBVIOUS
  <2>2. list = y => list.failed = FALSE /\ list.busy = TRUE
    OBVIOUS
  <2> HIDE DEF x, y
  <2> QED BY <1>5, <2>1, <2>2, Zenon
<1>8. Trail(list) \/ of.style # "cursor"
  <2>1. <<0>> \in Seq(Nat) /\ Len(<<0>>) = 1 /\ <<0>>[1] = 0
    OBVIOUS
  <2>2. of.style = "cursor" => RowsAfter(list.shown, list.starts[list.place + 1])
    BY <1>3, <1>6, <2>1
  <2> QED BY <1>6, <2>1, <2>2 DEF Trail
<1>9. ListOK(list)
  <2>1. list.n \in Nat /\ list.since \in Nat /\ list.since <= changes /\ list.asked \in Nat \ {0}
    BY <1>1, <1>6
  <2>2. /\ list.list.style # "cursor" => Whole(list.shown)
        /\ list.list.style = "searched" => list.shown.filter = list.applied
        /\ list.list.style = "cursor" => Trail(list)
    BY <1>3, <1>6, <1>8
  <2>3. ListIsRecord(list) /\ list.list \in L!Lists
    BY <1>6
  <2> HIDE DEF x, y
  <2> QED BY <1>7, <2>1, <2>2, <2>3 DEF ListOK
<1>10. Answered(list)
  BY <1>3, <1>6 DEF Answered
<1>11. RequestsKnown(list) /\ RequestsAsked(list)
  <2>1. CASE requests = {}
    BY <2>1 DEF RequestsKnown, RequestsAsked
  <2>2. CASE requests # {}
    <3>1. requests = {asked} /\ list = y /\ of.mounted = TRUE
      BY <1>4, <2>2
    <3>2. /\ RequestIsRecord(asked) /\ asked.n = 1 /\ asked.filter = "all" /\ asked.page = 1
          /\ asked.stage = "waiting" /\ asked.answer = L!NoPage
      BY DEF RequestIsRecord
    <3>3. of.style # "cursor"
      BY <3>1 DEF L!Lists, L!CustomerList, L!MasterList, L!ReservationChoice,
             L!ReservationList, L!CheckoutList, L!RegisterList, L!HistoryList, L!ChartList
    <3>4. list.n = 1
      BY <3>1
    <3> HIDE DEF asked, x, y
    <3>5. RequestOK(asked, of.style) /\ Current(asked, list)
      BY <1>6, <3>2, <3>3 DEF RequestOK, Current
    <3> QED BY <1>6, <3>1, <3>2, <3>4, <3>5 DEF RequestsKnown, RequestsAsked
  <2> QED BY <2>1, <2>2
<1> QED BY <1>1, <1>9, <1>10, <1>11 DEF ListInv

\* Every step of a list keeps the invariant.
LEMMA ListStep == ListInv /\ [L!Next]_(L!vars) => ListInv'
<1> SUFFICES ASSUME ListInv, [L!Next]_(L!vars) PROVE ListInv'
  OBVIOUS
<1>1. CASE \E r \in Ids : L!RemoveRow(r) \/ \E kind \in {"absent", "hit", "miss"} : L!Write(r, kind)
  BY <1>1, RowsStep
<1>2. CASE \E filter \in L!Searches : L!Type(filter)
  BY <1>2, TypeStep
<1>3. CASE \E page \in 1 .. Cardinality(Ids) : L!TurnTyped(page) \/ L!TurnSearched(page)
  BY <1>3, TurnTypedStep, TurnSearchedStep
<1>4. CASE \E target \in 0 .. Cardinality(Ids) : L!TurnCharts(target)
  BY <1>4, TurnChartsStep
<1>5. CASE L!Search
  BY <1>5, SearchStep
<1>6. CASE L!Removed
  BY <1>6, RemovedStep
<1>7. CASE L!RemovalLost
  BY <1>7, RowsStep
<1>8. CASE \E l \in requests : \/ L!Send(l) \/ L!Count(l) \/ L!Find(l) \/ L!FindOptions(l)
                               \/ L!FindFrom(l) \/ L!Receive(l) \/ L!Lose(l)
  BY <1>8, SendListStep, CountStep, FindStep, FindOptionsStep, FindFromStep, ReceiveListStep,
     LoseStep
<1>9. CASE UNCHANGED L!vars
  <2>1. UNCHANGED <<list, requests, changes, removal>>
    BY <1>9 DEF L!vars
  <2>2. changes' \in Nat /\ changes' >= changes /\ (removal' # 0 => list.list.style = "typed")
    BY <2>1 DEF ListInv
  <2> QED BY <2>1, <2>2, ListsStay
<1> QED BY <1>1, <1>2, <1>3, <1>4, <1>5, <1>6, <1>7, <1>8, <1>9, ListsCount DEF L!Next

\* A list is always in order: what it shows is one page, what it shows at rest is
\* what was asked for last, and no answer on its way can change that.
THEOREM ListSafe == L!Spec => []ListInv
<1>1. ListInv /\ [L!Next]_(L!vars) => ListInv'
  BY ListStep
<1> QED BY ListBegins, <1>1, PTL DEF L!Spec

\* Whatever is typed, turned, removed or answered late, a list shows one page of one
\* moment of what was asked for.
THEOREM ListsShowTheirPage == L!Spec => []ListsShowOnePage
<1>1. ListInv => ListsShowOnePage
  <2> SUFFICES ASSUME ListInv PROVE ListsShowOnePage
    OBVIOUS
  <2>1. ListOK(list) /\ Answered(list)
    BY DEF ListInv
  <2>2. L!PageIsWhole
    BY <2>1 DEF L!PageIsWhole, ListOK, Whole
  <2>3. L!PageIsTheOneAskedFor
    <3>1. CASE list.list.style = "typed"
      <4>1. list.busy \in {TRUE, FALSE} /\ list.failed \in {TRUE, FALSE}
        BY <2>1 DEF ListOK
      <4>2. ~list.busy /\ ~list.failed =>
              /\ list.shown.filter = list.typed /\ list.shown.page = list.asked
              /\ list.shown.at >= list.since
        BY <2>1, <3>1, <4>1 DEF Answered
      <4> QED BY <3>1, <4>2 DEF L!PageIsTheOneAskedFor
    <3>2. CASE list.list.style = "searched"
      BY <2>1, <3>2 DEF L!PageIsTheOneAskedFor, ListOK
    <3>3. CASE list.list.style = "cursor"
      <4>1. Trail(list)
        BY <2>1, <3>3 DEF ListOK
      <4>2. Ids = 1 .. Cardinality(Ids) /\ Cardinality(Ids) \in Nat
        BY WebAssumption, FS_CardinalityType
      <4>3. ASSUME NEW i \in 1 .. list.place
            PROVE  list.starts[i + 1] < (IF i = 1 THEN L!Cardinality(Ids) + 1 ELSE list.starts[i])
        <5>1. i + 1 \in 2 .. Len(list.starts) /\ (i + 1) - 1 = i /\ (i # 1 => i + 1 > 2)
          BY <4>1 DEF Trail
        <5>2. list.starts[i + 1] \in Ids /\ (i # 1 => list.starts[i + 1] < list.starts[i])
          BY <4>1, <5>1 DEF Trail
        <5>3. L!Cardinality(Ids) = Cardinality(Ids)
          BY ListsCount
        <5> QED BY <4>2, <5>2, <5>3
      <4>4. list.place > 0 => \A i \in DOMAIN list.shown.rows :
                                 list.shown.rows[i] < list.starts[list.place + 1]
        <5> SUFFICES ASSUME list.place > 0 PROVE \A i \in DOMAIN list.shown.rows :
                                 list.shown.rows[i] < list.starts[list.place + 1]
          OBVIOUS
        <5>1. list.place + 1 \in 2 .. Len(list.starts)
          BY <4>1 DEF Trail
        <5>2. list.starts[list.place + 1] # 0
          BY <4>1, <4>2, <5>1 DEF Trail
        <5> QED BY <4>1, <5>2 DEF Trail, RowsAfter
      <4> QED BY <3>3, <4>3, <4>4 DEF L!PageIsTheOneAskedFor
    <3>4. list.list.style \in {"typed", "searched", "cursor"}
      BY <2>1 DEF ListOK, L!Lists, L!CustomerList, L!MasterList, L!ReservationChoice,
             L!ReservationList, L!CheckoutList, L!RegisterList, L!HistoryList, L!ChartList
    <3> QED BY <3>1, <3>2, <3>3, <3>4
  <2> QED BY <2>2, <2>3 DEF ListsShowOnePage, L!ListsShowOnePage
<1> QED BY ListSafe, <1>1, PTL
===============================================================================
