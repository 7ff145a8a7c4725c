------------------------------- MODULE Receipts -------------------------------
(***************************************************************************)
(* Receipts by mail: the panel of a clerk (receipt-email.tsx with          *)
(* receipt-email.ts) and the handlers (receipt-email-routes.ts).           *)
(*                                                                         *)
(* A receipt says what the clerk typed (fields), who issues it (issuer)    *)
(* and what was sold; the last cannot change once a checkout is finalized. *)
(* The handlers run under lockOperation, or only read: one step each.  A   *)
(* request may be lost, answered after the clerk was told it failed, or    *)
(* handled only then.                                                      *)
(***************************************************************************)
EXTENDS Integers, FiniteSets

CONSTANTS
    Fields,         \* recipient, name and description a clerk may type
    Issuers, Unset, \* receiptIssuerName and invoiceRegistrationNumber
    MaxTries,       \* bound on the requests sent
    MaxSettings     \* bound on the changes of the settings

VARIABLES
    checkout,   \* the CashCheckout row: status and version
    issuer,     \* the SalonSettings row
    settings,   \* the changes made to it
    outbox,     \* the EmailOutbox rows of the checkout
    panel,      \* what the clerk sees
    calls,      \* requests under way, also those the clerk gave up
    answer,     \* the answer to the request the clerk waits for
    tries,      \* requests sent so far
    agreed      \* previews the clerk confirmed, once for each first "send"

vars == <<checkout, issuer, settings, outbox, panel, calls, answer, tries, agreed>>

Configured == issuer # Unset
Receipt(fields, by) == [fields |-> fields, issuer |-> by]
NoReceipt == Receipt(Unset, Unset)
NoAnswer == [of |-> 0, result |-> "none", receipt |-> NoReceipt]
\* a panel just opened on a checkout
Opened == [status |-> checkout.status, version |-> checkout.version, issuer |-> issuer,
           preview |-> NoReceipt, pdfReady |-> FALSE, confirmed |-> FALSE,
           attempted |-> FALSE, attempt |-> 0, sent |-> FALSE, waits |-> 0]

Init ==
    /\ checkout = [status |-> "DRAFT", version |-> 1]
    /\ issuer \in Issuers \cup {Unset} /\ settings = 0
    /\ outbox = {} /\ calls = {} /\ answer = NoAnswer /\ tries = 0 /\ agreed = {}
    /\ panel = Opened

-----------------------------------------------------------------------------
(* The panel.                                                              *)

Open ==
    /\ panel.waits = 0 /\ panel' = Opened
    /\ UNCHANGED <<checkout, issuer, settings, outbox, calls, answer, tries, agreed>>

\* history and issuer are read again, the version of the checkout is not
RefreshHistory ==
    /\ panel.issuer # issuer
    /\ panel' = [panel EXCEPT !.issuer = issuer]
    /\ UNCHANGED <<checkout, issuer, settings, outbox, calls, answer, tries, agreed>>

CanSend == panel.status = "FINALIZED" /\ panel.issuer # Unset

\* receiptRequest: posted, and the panel is busy
Post(call, now) ==
    /\ tries < MaxTries /\ tries' = tries + 1
    /\ calls' = calls \cup {[call EXCEPT !.number = tries + 1]}
    /\ panel' = [now EXCEPT !.waits = tries + 1]
Call(kind, receipt, id) ==
    [kind |-> kind, number |-> 0, version |-> panel.version, receipt |-> receipt, id |-> id]

\* prepareReceiptEmail
Prepare ==
    /\ panel.waits = 0 /\ CanSend /\ panel.preview = NoReceipt
    /\ \E f \in Fields : Post(Call("preview", Receipt(f, Unset), 0), panel)
    /\ UNCHANGED <<checkout, issuer, settings, outbox, answer, agreed>>

\* ReceiptEmailPreviewContent shows the PDF; only then it can be confirmed
ShowPdf ==
    /\ panel.preview # NoReceipt /\ ~panel.pdfReady
    /\ panel' = [panel EXCEPT !.pdfReady = TRUE]
    /\ UNCHANGED <<checkout, issuer, settings, outbox, calls, answer, tries, agreed>>

Confirm ==
    /\ panel.waits = 0 /\ panel.pdfReady /\ ~panel.sent /\ ~panel.confirmed
    /\ panel' = [panel EXCEPT !.confirmed = TRUE]
    /\ UNCHANGED <<checkout, issuer, settings, outbox, calls, answer, tries, agreed>>

\* variant: every press of the button is a request of its own
AttemptAnew == tries + 1

\* attempt.current ??= createReceiptEmailAttempt(...)
Attempt == IF panel.attempt = 0 THEN tries + 1 ELSE panel.attempt

\* send
Send ==
    /\ panel.waits = 0 /\ CanSend /\ panel.pdfReady /\ panel.confirmed /\ ~panel.sent
    /\ Post(Call("send", panel.preview, Attempt),
            [panel EXCEPT !.attempted = TRUE, !.attempt = Attempt])
    /\ agreed' = IF panel.attempted THEN agreed
                 ELSE agreed \cup {[press |-> tries + 1, receipt |-> panel.preview]}
    /\ UNCHANGED <<checkout, issuer, settings, outbox, answer>>

\* the two buttons for it are not shown while the outcome is open
Reset ==
    /\ panel.waits = 0 /\ panel.preview # NoReceipt /\ (panel.sent \/ ~panel.attempted)
    /\ panel' = [panel EXCEPT !.preview = NoReceipt, !.pdfReady = FALSE, !.confirmed = FALSE,
                              !.attempted = FALSE, !.attempt = 0, !.sent = FALSE]
    /\ UNCHANGED <<checkout, issuer, settings, outbox, calls, answer, tries, agreed>>

\* an answer of 400 to 499 is taken for a refusal of the whole attempt
AfterRefusal ==
    IF panel.preview = NoReceipt THEN panel
    ELSE [panel EXCEPT !.attempted = FALSE, !.confirmed = FALSE, !.attempt = 0]

\* the answer arrives: a preview, a queued message, or a refusal
Receive ==
    /\ answer.of = panel.waits /\ answer # NoAnswer
    /\ panel' = [CASE answer.result = "prepared" ->
                        [panel EXCEPT !.preview = answer.receipt, !.pdfReady = FALSE,
                           !.confirmed = FALSE, !.attempted = FALSE, !.attempt = 0]
                   [] answer.result = "queued" -> [panel EXCEPT !.sent = TRUE]
                   [] OTHER -> AfterRefusal
                 EXCEPT !.waits = 0]
    /\ answer' = NoAnswer
    /\ UNCHANGED <<checkout, issuer, settings, outbox, calls, tries, agreed>>

\* no answer, one of 500 and above, or one that cannot be read: the attempt is kept.
\* The request itself may be lost as well, or still be on its way.
Fail ==
    /\ panel.waits # 0
    /\ panel' = [panel EXCEPT !.waits = 0] /\ answer' = NoAnswer
    /\ calls' \in {calls, {k \in calls : k.number # panel.waits}}
    /\ UNCHANGED <<checkout, issuer, settings, outbox, tries, agreed>>

-----------------------------------------------------------------------------
(* The handlers.                                                           *)

Done(call, result, receipt) ==
    /\ calls' = calls \ {call}
    /\ answer' = IF call.number = panel.waits
                 THEN [of |-> call.number, result |-> result, receipt |-> receipt]
                 ELSE answer

\* the version is compared, and createReceiptSnapshot takes finalized checkouts only
Issuable(call) ==
    /\ checkout.version = call.version /\ checkout.status = "FINALIZED"
    /\ Configured

\* POST .../receipt-emails/preview
HandlePreview(call) ==
    /\ call.kind = "preview"
    /\ IF Issuable(call) THEN Done(call, "prepared", Receipt(call.receipt.fields, issuer))
                         ELSE Done(call, "refused", NoReceipt)
    /\ UNCHANGED <<checkout, issuer, settings, outbox, panel, tries, agreed>>

\* RECEIPT_PREVIEW_CHANGED otherwise
StillAsPreviewed(call) == call.receipt = Receipt(call.receipt.fields, issuer)

\* POST .../receipt-emails: an id seen before gets the message it made.  Two requests
\* at a time with one id are told apart by the unique eventKey: receiptTransaction then
\* runs the later one again, which finds the message.
HandleSend(call) ==
    LET before == {m \in outbox : m.id = call.id}
        message == [id |-> call.id, receipt |-> Receipt(call.receipt.fields, issuer)]
    IN /\ call.kind = "send"
       /\ IF before # {}
          THEN Done(call, IF \E m \in before : m.receipt = call.receipt THEN "queued"
                                                                       ELSE "refused", NoReceipt)
               /\ UNCHANGED outbox
          ELSE IF Issuable(call) /\ StillAsPreviewed(call)
          THEN Done(call, "queued", NoReceipt) /\ outbox' = outbox \cup {message}
          ELSE Done(call, "refused", NoReceipt) /\ UNCHANGED outbox
       /\ UNCHANGED <<checkout, issuer, settings, panel, tries, agreed>>

\* requireOperationContext and lockOperation: the session or the right is gone
Deny(call) ==
    /\ Done(call, "refused", NoReceipt)
    /\ UNCHANGED <<checkout, issuer, settings, outbox, panel, tries, agreed>>

-----------------------------------------------------------------------------
\* the checkout goes on (module Cash), and so do the settings
Settle ==
    /\ checkout.status # "REVERSED"
    /\ checkout' = [status |-> IF checkout.status = "DRAFT" THEN "FINALIZED" ELSE "REVERSED",
                    version |-> checkout.version + 1]
    /\ UNCHANGED <<issuer, settings, outbox, panel, calls, answer, tries, agreed>>

SaveSettings ==
    /\ settings < MaxSettings /\ settings' = settings + 1
    /\ issuer' \in (Issuers \cup {Unset}) \ {issuer}
    /\ UNCHANGED <<checkout, outbox, panel, calls, answer, tries, agreed>>

Next ==
    \/ Open \/ RefreshHistory \/ Prepare \/ ShowPdf \/ Confirm \/ Send \/ Reset
    \/ Receive \/ Fail
    \/ \E call \in calls : HandlePreview(call) \/ HandleSend(call) \/ Deny(call)
    \/ Settle \/ SaveSettings

Spec == Init /\ [][Next]_vars

-----------------------------------------------------------------------------
\* A message in the outbox is a receipt the clerk confirmed, word for word, and there
\* are no more messages of it than the clerk pressed "send" anew: however often the
\* button is pressed again after an answer was lost, and although the settings and the
\* checkout change meanwhile, nothing is queued twice or as nobody saw it.
SentAsConfirmed ==
    \A receipt \in {m.receipt : m \in outbox} :
        Cardinality({m \in outbox : m.receipt = receipt})
            <= Cardinality({a \in agreed : a.receipt = receipt})
=============================================================================
