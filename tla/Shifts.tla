-------------------------------- MODULE Shifts --------------------------------
(***************************************************************************)
(* The shift handlers of apps/api/src/server.ts.  They take no lock: PATCH *)
(* reads the row, checks the interval it would have after the change, and  *)
(* then writes the fields of the request over whatever the row has become. *)
(***************************************************************************)
EXTENDS Integers

CONSTANTS
    Shifts,     \* identifiers of shift rows
    Editors,    \* PATCH requests handled at the same time
    Instants    \* the natural numbers startsAt and endsAt may be

NoShift == [exists |-> FALSE, start |-> 0, end |-> 0]
IdleEdit == [step |-> "idle"]
Ends == {{"start"}, {"end"}, {"start", "end"}}

VARIABLES shift,    \* the Shift rows
          edit,     \* what each PATCH request is doing
          used      \* identifiers ever given to a row (they are never reused)

vars == <<shift, edit, used>>

Init == /\ shift = [s \in Shifts |-> NoShift]
        /\ edit = [e \in Editors |-> IdleEdit]
        /\ used = {}

\* POST /api/admin/shifts; shiftInputSchema refuses an interval that is not one
Create(s) ==
    /\ s \notin used
    /\ \E start, end \in Instants :
          /\ start < end
          /\ shift' = [shift EXCEPT ![s] = [exists |-> TRUE, start |-> start, end |-> end]]
    /\ used' = used \cup {s}
    /\ UNCHANGED edit

Patched(row, named, start, end) ==
    [row EXCEPT !.start = IF "start" \in named THEN start ELSE @,
                !.end = IF "end" \in named THEN end ELSE @]

\* INVALID_SHIFT_RANGE otherwise
RangeAccepted(row, named, start, end) ==
    LET new == Patched(row, named, start, end) IN new.start < new.end

\* PATCH /api/admin/shifts/:id as far as the range check
ReadAndCheck(e, s) ==
    /\ edit[e] = IdleEdit /\ shift[s].exists
    /\ \E named \in Ends, start, end \in Instants :
          /\ RangeAccepted(shift[s], named, start, end)
          /\ edit' = [edit EXCEPT ![e] = [step |-> "checked", id |-> s, named |-> named,
                                          start |-> start, end |-> end]]
    /\ UNCHANGED <<shift, used>>

\* ... and its updateMany, which finds no row when the shift is gone (404)
WritePatch(e) ==
    LET q == edit[e] IN
    /\ q.step = "checked"
    /\ shift' = IF shift[q.id].exists
                THEN [shift EXCEPT ![q.id] = Patched(@, q.named, q.start, q.end)]
                ELSE shift
    /\ edit' = [edit EXCEPT ![e] = IdleEdit]
    /\ UNCHANGED used

\* DELETE /api/admin/shifts/:id
Delete(s) ==
    /\ shift[s].exists
    /\ shift' = [shift EXCEPT ![s] = NoShift]
    /\ UNCHANGED <<edit, used>>

Next == \/ \E s \in Shifts : Create(s) \/ Delete(s)
        \/ \E e \in Editors : WritePatch(e) \/ \E s \in Shifts : ReadAndCheck(e, s)

Spec == Init /\ [][Next]_vars
-----------------------------------------------------------------------------
\* Every shift on record ends after it starts ("the end must be later than the
\* start", the message of INVALID_SHIFT_RANGE in server.ts).
ShiftsEndAfterTheyStart ==
    \A s \in Shifts : shift[s].exists => shift[s].start < shift[s].end
=============================================================================
