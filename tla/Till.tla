--------------------------------- MODULE Till ---------------------------------
(***************************************************************************)
(* The screen of a checkout and the screen of a register (cash-views.tsx): *)
(* a clerk presses buttons, and presses them again when an answer was      *)
(* lost.  What the handlers of cash-routes.ts do with a request is here as *)
(* far as a screen can tell; module Cash has the money.  The two screens   *)
(* have nothing in common but their build, so one of them is looked at.    *)
(*                                                                         *)
(* Other clerks (Elsewhere) change the same row.  A request may be lost,   *)
(* or be handled after the clerk was told it failed.                       *)
(***************************************************************************)
EXTENDS Integers, FiniteSets

CONSTANTS
    Lines, Fresh,   \* lines a clerk may enter; those made from the reservation
    Entries,        \* what is typed into the fields beside them
    MaxPresses,     \* bound on the requests of the clerk
    MaxElsewhere    \* bound on the changes by others

VARIABLES
    kind,       \* "checkout" or "register"
    row,        \* the CashCheckout or CashRegisterSession row
    log,        \* request ids kept with what was done, and with what was asked
    screen,     \* the screen
    calls,      \* requests under way, also those the clerk gave up
    answer,     \* the answer to the request the clerk waits for
    presses,    \* requests sent so far
    elsewhere   \* changes by others so far

vars == <<kind, row, log, screen, calls, answer, presses, elsewhere>>

Keyed == {"finalize", "reverse", "move", "close"}
Ops == IF kind = "checkout" THEN {"save", "refresh", "finalize", "reverse"} ELSE {"move", "close"}

\* what an operation may be asked of, and what it leaves behind
Before(op) == CASE op = "reverse" -> "FINALIZED" [] op \in {"move", "close"} -> "OPEN"
                [] OTHER -> "DRAFT"
After(op) == CASE op = "finalize" -> "FINALIZED" [] op = "reverse" -> "REVERSED"
               [] op = "close" -> "CLOSED" [] OTHER -> Before(op)

NoAnswer == [of |-> 0, op |-> "none", done |-> FALSE]

Init ==
    /\ kind \in {"checkout", "register"}
    /\ row = [status |-> IF kind = "checkout" THEN "DRAFT" ELSE "OPEN", version |-> 1, lines |-> Fresh]
    /\ log = {} /\ calls = {} /\ answer = NoAnswer /\ presses = 0 /\ elsewhere = 0
    /\ \E e \in Entries : screen = [shown |-> row, lines |-> Fresh, first |-> e, second |-> e,
                                    keys |-> [op \in Keyed |-> 0], waits |-> 0]

-----------------------------------------------------------------------------
(* The screen.                                                             *)

Idle == screen.waits = 0
Forget(ops) == [op \in Keyed |-> IF op \in ops THEN 0 ELSE screen.keys[op]]

\* item: the clerk changes the lines of a draft
Edit ==
    /\ Idle /\ screen.shown.status = "DRAFT"
    /\ \E l \in Lines : screen' = [screen EXCEPT !.lines = l]
    /\ UNCHANGED <<kind, row, log, calls, answer, presses, elsewhere>>

\* the register to book in, or what was put in or taken: a new request from now on
EnterFirst ==
    /\ Idle
    /\ \E e \in Entries \ {screen.first} :
          screen' = [screen EXCEPT !.first = e,
             !.keys = Forget(IF kind = "checkout" THEN {"finalize", "reverse"} ELSE {"move"})]
    /\ UNCHANGED <<kind, row, log, calls, answer, presses, elsewhere>>

\* the request whose key a new reason, or another amount counted, gives up
GivenUp == IF kind = "checkout" THEN {"reverse"} ELSE {"close"}

\* the reason of a reversal, or the cash counted
EnterSecond ==
    /\ Idle
    /\ \E e \in Entries \ {screen.second} :
          screen' = [screen EXCEPT !.second = e, !.keys = Forget(GivenUp)]
    /\ UNCHANGED <<kind, row, log, calls, answer, presses, elsewhere>>

\* what the handler makes its hash from
Asked(op) ==
    CASE op = "finalize" -> <<screen.shown.version, screen.first>>
      [] op = "reverse" -> <<screen.second, screen.first>>
      [] op = "move" -> <<screen.shown.version, screen.first>>
      [] op = "close" -> <<screen.shown.version, screen.second>>
      [] OTHER -> <<screen.shown.version, screen.lines>>

\* which buttons can be pressed; unsaved lines cannot be finalized
Offered(op) ==
    /\ Idle /\ screen.shown.status = Before(op)
    /\ op = "finalize" => screen.lines = screen.shown.lines

\* key.current ||= crypto.randomUUID()
Key(op) == IF op \notin Keyed THEN 0
           ELSE IF screen.keys[op] # 0 THEN screen.keys[op] ELSE presses + 1

\* save, refreshReservation, finalize, reverse, act
Press(op) ==
    /\ op \in Ops /\ Offered(op) /\ presses < MaxPresses /\ presses' = presses + 1
    /\ calls' = calls \cup {[number |-> presses + 1, op |-> op, key |-> Key(op),
                             asked |-> Asked(op), over |-> screen.shown, lines |-> screen.lines]}
    /\ screen' = [screen EXCEPT !.waits = presses + 1,
                     !.keys = [k \in Keyed |-> IF k = op THEN Key(op) ELSE @[k]]]
    /\ UNCHANGED <<kind, row, log, answer, elsewhere>>

\* replace: what is answered is what is shown and what is edited
Replaced(new, keys) ==
    screen' = [screen EXCEPT !.shown = new, !.lines = new.lines, !.waits = 0, !.keys = keys]

\* the keys given up when an operation has succeeded
KeysAfter(op) ==
    CASE op \in {"save", "refresh"} -> Forget({"finalize"})
      [] op = "move" -> Forget({"move", "close"})
      [] OTHER -> screen.keys

\* the answer arrives: the row as the handler left it, or a refusal
Receive ==
    /\ answer # NoAnswer /\ answer.of = screen.waits /\ answer' = NoAnswer
    /\ IF answer.done THEN Replaced(answer.row, KeysAfter(answer.op))
                      ELSE screen' = [screen EXCEPT !.waits = 0]
    /\ UNCHANGED <<kind, row, log, calls, presses, elsewhere>>

\* the clerk is told that it failed; the request may be lost, or still be on its way
Fail ==
    /\ ~Idle
    /\ screen' = [screen EXCEPT !.waits = 0] /\ answer' = NoAnswer
    /\ calls' \in {calls, {c \in calls : c.number # screen.waits}}
    /\ UNCHANGED <<kind, row, log, presses, elsewhere>>

\* reload: all keys are given up
Reload ==
    /\ Idle /\ Replaced(row, Forget(Keyed))
    /\ UNCHANGED <<kind, row, log, calls, answer, presses, elsewhere>>

-----------------------------------------------------------------------------
(* The handlers, each one step under lockOperation.                        *)

Reply(c, done, new) ==
    /\ calls' = calls \ {c}
    /\ answer' = IF c.number # screen.waits THEN answer
                 ELSE [of |-> c.number, op |-> c.op, done |-> done, row |-> new]

\* finalizeRequestId, reverseRequestId, CashRegisterMovement.requestId, closeRequestId
Entered(c) == {e \in log : e.op = c.op /\ e.key = c.key}

\* variant: the version is not compared
AcceptableAny(c) == row.status = Before(c.op)

\* assertCashVersion; a reversal asks for the status only
Acceptable(c) ==
    /\ row.status = Before(c.op)
    /\ c.op = "reverse" \/ row.version = c.over.version

Result(c) == [status |-> After(c.op), version |-> row.version + 1,
              lines |-> CASE c.op = "save" -> c.lines [] c.op = "refresh" -> Fresh
                          [] OTHER -> row.lines]

\* a request seen before gets the row as it is now; another one is carried out
Handle(c) ==
    /\ IF Entered(c) # {} THEN
          /\ Reply(c, \A e \in Entered(c) : e.asked = c.asked, row)
          /\ UNCHANGED <<row, log>>
       ELSE IF ~Acceptable(c) THEN Reply(c, FALSE, row) /\ UNCHANGED <<row, log>>
       ELSE /\ row' = Result(c)
            /\ log' = IF c.op \in Keyed
                      THEN log \cup {[op |-> c.op, key |-> c.key, asked |-> c.asked]} ELSE log
            /\ Reply(c, TRUE, Result(c))
    /\ UNCHANGED <<kind, screen, presses, elsewhere>>

\* any request may be refused for what module Cash knows: the reservation, the money,
\* the points, the register, the right
Refuse(c) ==
    /\ Reply(c, FALSE, row)
    /\ UNCHANGED <<kind, row, log, screen, presses, elsewhere>>

\* another clerk does one of the operations
Elsewhere(op) ==
    /\ op \in Ops /\ row.status = Before(op)
    /\ elsewhere < MaxElsewhere /\ elsewhere' = elsewhere + 1
    /\ row' = [row EXCEPT !.status = After(op), !.version = @ + 1]
    /\ UNCHANGED <<kind, log, screen, calls, answer, presses>>

Next ==
    \/ Edit \/ EnterFirst \/ EnterSecond \/ Receive \/ Fail \/ Reload
    \/ \E op \in Ops : Press(op) \/ Elsewhere(op)
    \/ \E c \in calls : Handle(c) \/ Refuse(c)

Spec == Init /\ [][Next]_vars

-----------------------------------------------------------------------------
\* A request id never comes back with another content: no clerk is told that a retry
\* conflicts with itself.
KeysNameOneRequest ==
    \A c \in calls, e \in log : c.op = e.op /\ c.key = e.key => c.asked = e.asked

\* A press of a button changes the row only when the row is what the screen showed when
\* it was pressed, so no press takes effect twice, after another one, or over what
\* somebody else did meanwhile, however often it is repeated and however late it
\* arrives; and a request that was carried out is answered with success when repeated.
PressesAreExact ==
    /\ []KeysNameOneRequest
    /\ [][\A c \in calls \ calls' : row' # row =>
             row = c.over /\ (c.op = "save" => row'.lines = c.lines)]_vars
=============================================================================
