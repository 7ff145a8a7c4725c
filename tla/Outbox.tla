-------------------------------- MODULE Outbox --------------------------------
(***************************************************************************)
(* The email outbox: email-outbox.ts, run by the job                       *)
(* scripts/send-email-outbox.ts.  Several executions of the job may be     *)
(* under way at once.  Each statement is a step: the claim leases a row    *)
(* for ten minutes, everything after it is done without a look at the      *)
(* lease, so an execution that is slower than its lease writes over what   *)
(* the next one made of the row.                                           *)
(*                                                                         *)
(* Of time only its order matters: a lease is running or over, a message   *)
(* is due or not.                                                          *)
(***************************************************************************)
EXTENDS Integers, FiniteSets

CONSTANTS
    Messages,       \* rows of EmailOutbox, named by their eventKey
    Workers,        \* executions of the job
    NoMessage,
    Broken,         \* messages whose payload or scope is refused
    Bound,          \* messages about an invitation or a receipt, which may be void
    MaxAttempts,    \* MAX_ATTEMPTS
    MaxCrashes      \* bound on the executions that die

ASSUME OutboxAssumption ==
    /\ NoMessage \notin Messages /\ IsFiniteSet(Workers)
    /\ Broken \subseteq Messages /\ Bound \subseteq Messages
    /\ MaxAttempts \in Nat \ {0} /\ MaxCrashes \in Nat

VARIABLES
    box,        \* the EmailOutbox rows
    void,       \* messages whose invitation is used, revoked or over, or whose
                \* checkout is taken back
    worker,     \* what each execution is doing
    copies,     \* how often the provider accepted each message
    crashes,    \* executions that died
    overrun,    \* history: messages that outlived a lease while being worked on
    unsure      \* history: messages accepted without the row hearing of it

vars == <<box, void, worker, copies, crashes, overrun, unsure>>

Ends == {"SENT", "SKIPPED", "FAILED"}
NoMail == [status |-> "NONE", attempts |-> 0, due |-> FALSE, lease |-> "none"]
Resting == [step |-> "idle", id |-> NoMessage, final |-> FALSE, seen |-> 0]
AtLoop == [Resting EXCEPT !.step = "loop"]
Again == [Resting EXCEPT !.step = "again"]

Init ==
    /\ box = [m \in Messages |-> NoMail]
    /\ void = {} /\ overrun = {} /\ unsure = {} /\ crashes = 0
    /\ worker = [w \in Workers |-> Resting]
    /\ copies = [m \in Messages |-> 0]

-----------------------------------------------------------------------------
\* The transaction of a booking, a sale, a refund, an invitation or a receipt.
Enqueue(m) ==
    /\ box[m].status = "NONE"
    /\ box' = [box EXCEPT ![m].status = "PENDING", ![m].due = TRUE]
    /\ UNCHANGED <<void, worker, copies, crashes, overrun, unsure>>

\* The invitation is accepted, revoked or expires; the checkout is taken back.
BecomesVoid(m) ==
    /\ m \in Bound \ void /\ box[m].status # "NONE"
    /\ void' = void \cup {m}
    /\ UNCHANGED <<box, worker, copies, crashes, overrun, unsure>>

\* availableAt passes
BecomesDue(m) ==
    /\ box[m].status = "PENDING" /\ ~box[m].due
    /\ box' = [box EXCEPT ![m].due = TRUE]
    /\ UNCHANGED <<void, worker, copies, crashes, overrun, unsure>>

WorksOn(w, m) == worker[w].id = m

\* lockedUntil passes
LeaseRunsOut(m) ==
    /\ box[m].lease = "running"
    /\ box' = [box EXCEPT ![m].lease = "over"]
    /\ overrun' = IF \E w \in Workers : WorksOn(w, m) THEN overrun \cup {m} ELSE overrun
    /\ UNCHANGED <<void, worker, copies, crashes, unsure>>

-----------------------------------------------------------------------------
(* One execution of the job                                                *)

\* variant: nothing is given up before the loop
OutOfAttemptsNever(m) == FALSE

\* what the first statement gives up as MAX_ATTEMPTS
OutOfAttempts(m) == /\ box[m].status = "PROCESSING" /\ box[m].attempts >= MaxAttempts
                    /\ box[m].lease = "over"

Start(w) ==
    /\ worker[w].step = "idle"
    /\ worker' = [worker EXCEPT ![w] = AtLoop]
    /\ box' = [m \in Messages |->
                  IF OutOfAttempts(m) THEN [box[m] EXCEPT !.status = "FAILED", !.lease = "none"]
                  ELSE box[m]]
    /\ UNCHANGED <<void, copies, crashes, overrun, unsure>>

\* variant: it is claimed as long as it has not been sent
ClaimableForever(m) ==
    /\ box[m].due
    /\ \/ box[m].status = "PENDING"
       \/ box[m].status = "PROCESSING" /\ box[m].lease = "over"

\* variant: a message being processed may be claimed at any time
ClaimableUnleased(m) ==
    /\ box[m].due /\ box[m].attempts < MaxAttempts
    /\ box[m].status \in {"PENDING", "PROCESSING"}

Claimable(m) ==
    /\ box[m].due /\ box[m].attempts < MaxAttempts
    /\ \/ box[m].status = "PENDING"
       \/ box[m].status = "PROCESSING" /\ box[m].lease = "over"

\* claimNext; any of the claimable messages may be the oldest
Claim(w, m) ==
    /\ worker[w].step \in {"loop", "again"} /\ Claimable(m)
    /\ box' = [box EXCEPT ![m].status = "PROCESSING", ![m].attempts = @ + 1,
                          ![m].lease = "running"]
    /\ worker' = [worker EXCEPT ![w] = [Resting EXCEPT !.step = "claimed", !.id = m]]
    /\ UNCHANGED <<void, copies, crashes, overrun, unsure>>

\* Nothing is left, or the hundred messages of one execution are used up (any
\* number from one).
Stop(w) ==
    /\ \/ worker[w].step = "loop" /\ \A m \in Messages : ~Claimable(m)
       \/ worker[w].step = "again"
    /\ worker' = [worker EXCEPT ![w] = Resting]
    /\ UNCHANGED <<box, void, copies, crashes, overrun, unsure>>

Fails(w, final) ==
    worker' = [worker EXCEPT ![w].step = "failing", ![w].final = final]
Goes(w, step) == worker' = [worker EXCEPT ![w].step = step]

\* deliver: the row, which must still be in processing, and its payload
Load(w) ==
    LET m == worker[w].id IN
    /\ worker[w].step = "claimed"
    /\ IF box[m].status # "PROCESSING" THEN Fails(w, FALSE)
       ELSE IF m \in Broken THEN Fails(w, TRUE) ELSE Goes(w, "loaded")
    /\ UNCHANGED <<box, void, copies, crashes, overrun, unsure>>

\* ... the invitation or the checkout the message is about
Look(w) ==
    /\ worker[w].step = "loaded"
    /\ Goes(w, IF worker[w].id \in void THEN "skipping" ELSE "sending")
    /\ UNCHANGED <<box, void, copies, crashes, overrun, unsure>>

\* The row as the execution leaves it, whatever it has become since the claim.
Leave(w, status, due) ==
    /\ box' = [box EXCEPT ![worker[w].id].status = status, ![worker[w].id].lease = "none",
                          ![worker[w].id].due = due]
    /\ worker' = [worker EXCEPT ![w] = Again]
    /\ UNCHANGED <<void, copies, crashes, overrun, unsure>>

AvailableAt(w) == box[worker[w].id].due

\* variant: what is skipped is marked as sent
SkipAsSent(w) == worker[w].step = "skipping" /\ Leave(w, "SENT", AvailableAt(w))

Skip(w) == worker[w].step = "skipping" /\ Leave(w, "SKIPPED", AvailableAt(w))

\* sendTextEmail: accepted, refused for good, failed, or accepted with the answer lost
Send(w) ==
    LET m == worker[w].id
        arrives == copies' = [copies EXCEPT ![m] = @ + 1]
    IN /\ worker[w].step = "sending"
       /\ \/ arrives /\ Goes(w, "accepted") /\ UNCHANGED unsure
          \/ arrives /\ Fails(w, FALSE) /\ unsure' = unsure \cup {m}
          \/ \E final \in BOOLEAN : Fails(w, final) /\ UNCHANGED <<copies, unsure>>
       /\ UNCHANGED <<box, void, crashes, overrun>>

MarkSent(w) == worker[w].step = "accepted" /\ Leave(w, "SENT", AvailableAt(w))

\* A statement of deliver fails, which its caller takes for a failure to send.
StatementFails(w) ==
    /\ worker[w].step \in {"claimed", "loaded", "skipping", "accepted"}
    /\ Fails(w, FALSE)
    /\ unsure' = IF worker[w].step = "accepted" THEN unsure \cup {worker[w].id} ELSE unsure
    /\ UNCHANGED <<box, void, copies, crashes, overrun>>

\* the catch clause reads the attempts ...
ReadAttempts(w) ==
    /\ worker[w].step = "failing"
    /\ worker' = [worker EXCEPT ![w].step = "failed", ![w].seen = box[worker[w].id].attempts]
    /\ UNCHANGED <<box, void, copies, crashes, overrun, unsure>>

Terminal(w) == worker[w].final \/ worker[w].seen >= MaxAttempts

\* ... and puts the message back, to be tried again later, or gives it up
Retire(w) ==
    /\ worker[w].step = "failed"
    /\ IF Terminal(w) THEN Leave(w, "FAILED", TRUE) ELSE Leave(w, "PENDING", FALSE)

Crash(w) ==
    /\ worker[w].step # "idle" /\ crashes < MaxCrashes
    /\ crashes' = crashes + 1
    /\ worker' = [worker EXCEPT ![w] = Resting]
    /\ unsure' = IF worker[w].step = "accepted" THEN unsure \cup {worker[w].id} ELSE unsure
    /\ UNCHANGED <<box, void, copies, overrun>>

Works(w) == \/ Start(w) \/ Stop(w) \/ Load(w) \/ Look(w) \/ Skip(w) \/ Send(w)
            \/ MarkSent(w) \/ ReadAttempts(w) \/ Retire(w)
            \/ \E m \in Messages : Claim(w, m)

Next == \/ \E m \in Messages : Enqueue(m) \/ BecomesVoid(m) \/ BecomesDue(m) \/ LeaseRunsOut(m)
        \/ \E w \in Workers : Works(w) \/ StatementFails(w) \/ Crash(w)

Spec == Init /\ [][Next]_vars

\* The scheduler starts the job again and again, a live execution goes on, and
\* time passes.
Fairness == /\ \A w \in Workers : WF_vars(Works(w))
            /\ \A m \in Messages : WF_vars(BecomesDue(m)) /\ WF_vars(LeaseRunsOut(m))
FairSpec == Spec /\ Fairness
-----------------------------------------------------------------------------
(* What the outbox promises                                                *)

Steps == {"idle", "loop", "again", "claimed", "loaded", "skipping", "sending", "accepted",
          "failing", "failed"}

MailRows == [status: {"NONE", "PENDING", "PROCESSING"} \cup Ends,
             attempts: Nat, due: BOOLEAN, lease: {"none", "running", "over"}]
WorkerRows == [step: Steps, id: Messages \cup {NoMessage}, final: BOOLEAN, seen: Nat]

\* Every variable stays in its domain.
TypeOK ==
    /\ box \in [Messages -> MailRows]
    /\ void \subseteq Bound /\ overrun \subseteq Messages /\ unsure \subseteq Messages
    /\ worker \in [Workers -> WorkerRows]
    /\ copies \in [Messages -> Nat] /\ crashes \in Nat

\* Nobody gets more than MAX_ATTEMPTS copies of a message, also when executions
\* outlive their leases or die (claimNext counts before anything is sent).
CopiesBounded == \A m \in Messages : copies[m] <= box[m].attempts /\ box[m].attempts <= MaxAttempts

\* While no lease is outlived the lease is a lock: one execution at a time works on
\* a message, and the row is in processing (claimNext).
LeaseIsALock ==
    \A m \in Messages \ overrun : \A w \in Workers : WorksOn(w, m) =>
        /\ box[m].status = "PROCESSING" /\ box[m].lease = "running"
        /\ \A v \in Workers : WorksOn(v, m) => v = w

\* A message is sent again only when the row could not know that it was accepted
\* (crash, lost answer, failed statement), or after a lease was outlived, and then as
\* well no more often than it was claimed and MAX_ATTEMPTS allows.
SentAgainOnlyIfUnsure ==
    CopiesBounded /\ \A m \in Messages : copies[m] > 1 => m \in overrun \cup unsure

\* A message marked SENT was accepted, one marked SKIPPED had nothing to stand for,
\* and none that was certainly accepted waits to be sent.
OutcomeIsTrue ==
    \A m \in Messages :
        /\ box[m].status = "SENT" => copies[m] > 0
        /\ box[m].status = "SKIPPED" => m \in void
        /\ box[m].status \in {"PENDING", "FAILED"} /\ copies[m] > 0 => m \in overrun \cup unsure

\* What has ended has ended, unless a lease was outlived.
EndsStay ==
    [][\A m \in Messages \ overrun' :
          box[m].status \in Ends => box'[m].status = box[m].status]_vars

\* Every message ends as SENT, SKIPPED or FAILED, unless a lease was outlived; so
\* does one whose last attempt died with its execution (the statement before the loop).
EveryMessageEnds ==
    \A m \in Messages : <>[](box[m].status \in Ends \cup {"NONE"} \/ m \in overrun)
-----------------------------------------------------------------------------
(* The inductive invariant behind them (proved in DeliveryProofs)           *)

Holding == {"claimed", "loaded", "skipping", "sending", "accepted", "failing", "failed"}

\* Each claim sends one copy at most.
YetToSend(m) == {w \in Workers : /\ worker[w].id = m
                                 /\ worker[w].step \in {"claimed", "loaded", "sending"}}
OneCopyPerClaim ==
    \A m \in Messages : /\ copies[m] + Cardinality(YetToSend(m)) <= box[m].attempts
                        /\ box[m].attempts <= MaxAttempts

\* An execution knows what it works on, and why.
WorkersKnow ==
    \A w \in Workers :
        /\ worker[w].step \in Holding <=> worker[w].id \in Messages
        /\ worker[w].step = "accepted" => copies[worker[w].id] > 0
        /\ worker[w].step = "skipping" => worker[w].id \in void

\* Where nothing went wrong, one copy is accounted for by the row or by the
\* execution that is about to mark it.
CopiesAccounted ==
    \A m \in Messages \ (overrun \cup unsure) :
        /\ copies[m] <= 1
        /\ copies[m] > 0 => \/ box[m].status = "SENT"
                           \/ \E w \in Workers : WorksOn(w, m) /\ worker[w].step = "accepted"

OutboxInv == /\ TypeOK /\ OneCopyPerClaim /\ WorkersKnow /\ LeaseIsALock /\ CopiesAccounted
             /\ OutcomeIsTrue
=============================================================================
