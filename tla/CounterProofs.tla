----------------------------- MODULE CounterProofs -----------------------------
(***************************************************************************)
(* What is proved of the salon's counter, part by part: the bookings of    *)
(* members, enrolment and provisioning, the card reader, the buttons of    *)
(* the till and the receipts.  Each part has an inductive invariant, one   *)
(* lemma per action and the properties that follow.                        *)
(***************************************************************************)
EXTENDS Counter, FiniteSetTheorems, TLAPS

-----------------------------------------------------------------------------
(* Bookings of members (MemberBooking): why a repeated booking finds the   *)
(* reservation it made, and why the limit on a member's open reservations  *)
(* holds although a transaction may work on a past state: keys once used   *)
(* stay used, so a snapshot that knows all keys of the present also counts *)
(* every open reservation of the present.                                  *)

States == {"none", "open", "over", "raised", "away"}
Stages == {"free", "sent", "begin", "waiting", "holding", "done"}
Answers == {"none", "reservation", "conflict", "gone", "rate", "refused", "failed", "unsure"}
Users == Calls \cup {NoCall}
Snapshots == [reservation : [Calls -> States], request : [Keys -> Users], desk : Nat]
CallRows ==
    [stage : Stages, key : Keys \cup {NoCall}, ask : Asks \cup {NoCall}, known : BOOLEAN,
     seen : Snapshots \cup {{}}, repeats : Nat, answer : Answers, made : Users]

\* Every variable stays in its domain; finitely many reservations were made.
TypeOK ==
    /\ reservation \in [Calls -> States] /\ request \in [Keys -> Users] /\ desk \in Nat
    /\ call \in [Calls -> CallRows]
    /\ \A c \in Calls : call[c].stage # "free" => call[c].key \in Keys /\ call[c].ask \in Asks
    /\ IsFiniteSet(Created)

\* A used key tells the call that made the reservation, and each reservation has its key.
KeysAreTrue ==
    /\ \A k \in Keys : request[k] # NoCall =>
          request[k] \in Created /\ call[request[k]].key = k
    /\ \A c \in Created : call[c].stage # "free" /\ request[call[c].key] = c

\* a and m may be what call c is answered
Sound(c, a, m) ==
    LET user == request[call[c].key] IN
    /\ a = "reservation" => m = user /\ user # NoCall /\ call[user].ask = call[c].ask
    /\ a = "conflict" => user # NoCall /\ call[user].ask # call[c].ask
    /\ call[c].known => a \in {"reservation", "conflict", "gone"}

\* Answers were sound and stay so; a call whose key was used when it came is only
\* sent or done.
AnswersAreSound ==
    \A c \in Calls :
       /\ call[c].stage = "done" => Sound(c, call[c].answer, call[c].made)
       /\ call[c].known => call[c].stage \in {"sent", "done"} /\ request[call[c].key] # NoCall

\* s is a past state: what keys it knows are used as it says, and if it knows all of
\* them it shows every reservation that is open now.
IsPast(s) ==
    /\ s \in Snapshots
    /\ \A k \in Keys : s.request[k] # NoCall => request[k] = s.request[k]
    /\ \A c \in Calls : s.reservation[c] # "none" => c \in Created
    /\ s.request = request => \A c \in Calls : reservation[c] = "open" => s.reservation[c] = "open"

SnapshotsArePast ==
    \A c \in Calls : call[c].stage \in {"waiting", "holding"} => IsPast(call[c].seen)

MemberBookingInv ==
    TypeOK /\ KeysAreTrue /\ AnswersAreSound /\ SnapshotsArePast /\ LimitHolds
-----------------------------------------------------------------------------
(* What the steps do                                                       *)

\* of the calls only c changes, not in what was called
OnlyCall(c) ==
    /\ call' \in [Calls -> CallRows]
    /\ \A d \in Calls \ {c} : call'[d] = call[d]
    /\ call'[c].key = call[c].key /\ call'[c].ask = call[c].ask
    /\ call'[c].known = call[c].known

Called(c) ==
    /\ call' \in [Calls -> CallRows] /\ call[c].stage = "free"
    /\ \A d \in Calls \ {c} : call'[d] = call[d]
    /\ call'[c].stage = "sent" /\ call'[c].key \in Keys /\ call'[c].ask \in Asks
    /\ call'[c].known => request[call'[c].key] # NoCall

Answered(c, a, m) ==
    /\ OnlyCall(c) /\ call[c].stage # "free"
    /\ call'[c].stage = "done" /\ call'[c].answer = a /\ call'[c].made = m

Moved(c) ==
    /\ OnlyCall(c) /\ call[c].stage # "free" /\ ~call[c].known
    /\ call'[c].stage \in {"begin", "waiting", "holding"}
    /\ call'[c].stage \in {"waiting", "holding"} => IsPast(call'[c].seen)

\* reservation and request row are written behind a snapshot that knows all keys
Written(c) ==
    /\ reservation' = [reservation EXCEPT ![c] = "open"]
    /\ request' = [request EXCEPT ![call[c].key] = c]
    /\ request[call[c].key] = NoCall /\ ~call[c].known /\ call[c].stage # "free"
    /\ IsPast(call[c].seen) /\ call[c].seen.request = request
    /\ FutureCount(c, call[c].seen) < MaxFuture

\* An answer ends the call.
LEMMA AnswerAnswers ==
    ASSUME TypeOK, NEW c \in Calls, NEW a \in Answers, NEW m \in Users, Answer(c, a, m),
           call[c].stage # "free"
    PROVE  Answered(c, a, m)
<1> DEFINE after == [call[c] EXCEPT !.stage = "done", !.answer = a, !.made = m, !.seen = {}]
<1>1. call[c] \in CallRows
  BY DEF TypeOK
<1>2. call' = [call EXCEPT ![c] = after]
  BY DEF Answer
<1>3. /\ after \in CallRows /\ after.stage = "done" /\ after.answer = a /\ after.made = m
      /\ after.key = call[c].key /\ after.ask = call[c].ask /\ after.known = call[c].known
  BY <1>1 DEF CallRows, Stages
<1> HIDE DEF after
<1> QED BY <1>2, <1>3 DEF TypeOK, Answered, OnlyCall

\* The present is a past state.
LEMMA PresentIsPast ==
    ASSUME TypeOK
    PROVE  IsPast(Snapshot)
BY DEF TypeOK, IsPast, Snapshot, Snapshots, Created

\* What a used key is answered is sound, whatever state tells that it is used.
LEMMA ReplyIsSound ==
    ASSUME MemberBookingInv, NEW c \in Calls, call[c].stage # "free", NEW s, IsPast(s),
           s.request[call[c].key] # NoCall, Reply(c, s)
    PROVE  \E a \in Answers, m \in Users : Answered(c, a, m) /\ Sound(c, a, m)
<1> DEFINE d == s.request[call[c].key]
<1>1. TypeOK /\ call[c].key \in Keys
  BY DEF MemberBookingInv, TypeOK
<1>2. request[call[c].key] = d /\ d \in Calls
  BY <1>1 DEF IsPast, Snapshots, Users
<1>3. CASE call[d].ask # call[c].ask
  <2>1. Answer(c, "conflict", NoCall)
    BY <1>3 DEF Reply
  <2>2. Answered(c, "conflict", NoCall)
    BY <1>1, <2>1, AnswerAnswers DEF Answers, Users
  <2>3. Sound(c, "conflict", NoCall)
    BY <1>2, <1>3, MemberBookingAssumption DEF Sound
  <2> QED BY <2>2, <2>3 DEF Answers, Users
<1>4. CASE call[d].ask = call[c].ask /\ ~Owned(s, d)
  <2>1. Answer(c, "gone", NoCall)
    BY <1>4 DEF Reply
  <2>2. Answered(c, "gone", NoCall)
    BY <1>1, <2>1, AnswerAnswers DEF Answers, Users
  <2>3. Sound(c, "gone", NoCall)
    BY DEF Sound
  <2> QED BY <2>2, <2>3 DEF Answers, Users
<1>5. CASE call[d].ask = call[c].ask /\ Owned(s, d)
  <2>1. Answer(c, "reservation", d)
    BY <1>5 DEF Reply
  <2>2. Answered(c, "reservation", d)
    BY <1>1, <1>2, <2>1, AnswerAnswers DEF Answers, Users
  <2>3. Sound(c, "reservation", d)
    BY <1>2, <1>5, MemberBookingAssumption DEF Sound
  <2> QED BY <1>2, <2>2, <2>3 DEF Answers, Users
<1> QED BY <1>3, <1>4, <1>5

\* Calling, the check before the attempt, the attempt, the snapshot and the lock.
LEMMA BeforeTheLock ==
    ASSUME MemberBookingInv, NEW c \in Calls,
           \/ \E key \in Keys, ask \in Asks : Call(c, key, ask)
           \/ Precheck(c) \/ Begin(c) \/ Lock(c)
    PROVE  /\ UNCHANGED <<reservation, request, desk>>
           /\ \/ Called(c) \/ Moved(c)
              \/ \E a \in Answers, m \in Users : Answered(c, a, m) /\ Sound(c, a, m)
<1>1. TypeOK /\ call[c] \in CallRows
  BY DEF MemberBookingInv, TypeOK
<1>2. ASSUME NEW key \in Keys, NEW ask \in Asks, Call(c, key, ask)
      PROVE  UNCHANGED <<reservation, request, desk>> /\ Called(c)
  <2> DEFINE known == request[key] # NoCall
             after == [call[c] EXCEPT !.stage = "sent", !.key = key, !.ask = ask, !.known = known]
  <2>1. call' = [call EXCEPT ![c] = after] /\ call[c].stage = "free"
        /\ UNCHANGED <<reservation, request, desk>>
    BY <1>2 DEF Call, stored
  <2>2. known \in BOOLEAN
    OBVIOUS
  <2>3. after \in CallRows /\ after.stage = "sent" /\ after.key = key /\ after.ask = ask
        /\ after.known = known
    <3> HIDE DEF known
    <3> QED BY <1>1, <2>2 DEF CallRows, Stages
  <2> HIDE DEF after
  <2> QED BY <1>1, <2>1, <2>3 DEF Called, TypeOK
<1>3. CASE Precheck(c)
  <2>1. /\ call[c].stage = "sent" /\ UNCHANGED <<reservation, request, desk>>
        /\ call[c].key \in Keys
    BY <1>1, <1>3 DEF Precheck, stored, TypeOK
  <2>2. CASE request[call[c].key] # NoCall
    <3>1. Reply(c, Snapshot) /\ Snapshot.request = request
      BY <1>3, <2>2 DEF Precheck, Snapshot
    <3> QED BY <1>1, <2>1, <2>2, <3>1, PresentIsPast, ReplyIsSound
  <2>3. CASE request[call[c].key] = NoCall
    <3>1. ~call[c].known
      BY <2>3 DEF MemberBookingInv, AnswersAreSound
    <3>2. ConsumeAttempt(c)
      BY <1>3, <2>3 DEF Precheck
    <3>3. CASE Answer(c, "rate", NoCall)
      <4>1. Answered(c, "rate", NoCall)
        BY <1>1, <2>1, <3>3, AnswerAnswers DEF Answers, Users
      <4>2. Sound(c, "rate", NoCall)
        BY <3>1 DEF Sound
      <4> QED BY <2>1, <4>1, <4>2 DEF Answers, Users
    <3>4. CASE call' = [call EXCEPT ![c].stage = "begin"]
      <4>1. Moved(c)
        BY <1>1, <2>1, <3>1, <3>4 DEF Moved, OnlyCall, TypeOK, CallRows, Stages
      <4> QED BY <2>1, <4>1
    <3> QED BY <3>2, <3>3, <3>4 DEF ConsumeAttempt
  <2> QED BY <2>2, <2>3
<1>4. CASE Begin(c)
  <2> DEFINE after == [call[c] EXCEPT !.stage = "waiting", !.seen = Snapshot]
  <2>1. call' = [call EXCEPT ![c] = after] /\ call[c].stage = "begin"
        /\ UNCHANGED <<reservation, request, desk>> /\ ~call[c].known
    BY <1>1, <1>4 DEF Begin, stored, MemberBookingInv, AnswersAreSound, TypeOK
  <2>2. IsPast(Snapshot) /\ Snapshot \in Snapshots
    BY <1>1, PresentIsPast DEF IsPast
  <2>3. /\ after \in CallRows /\ after.stage = "waiting" /\ after.seen = Snapshot
        /\ after.key = call[c].key /\ after.ask = call[c].ask /\ after.known = call[c].known
    BY <1>1, <2>2 DEF CallRows, Stages
  <2> HIDE DEF after
  <2> QED BY <1>1, <2>1, <2>2, <2>3 DEF Moved, OnlyCall, TypeOK
<1>5. CASE Lock(c)
  <2>1. call' = [call EXCEPT ![c].stage = "holding"] /\ call[c].stage = "waiting"
        /\ UNCHANGED <<reservation, request, desk>> /\ ~call[c].known
    BY <1>1, <1>5 DEF Lock, stored, MemberBookingInv, AnswersAreSound
  <2>2. IsPast(call[c].seen)
    BY <2>1 DEF MemberBookingInv, SnapshotsArePast
  <2> QED BY <1>1, <2>1, <2>2 DEF Moved, OnlyCall, TypeOK, CallRows, Stages
<1> QED BY <1>2, <1>3, <1>4, <1>5
\* The transaction under the lock: it answers, starts again or writes.
LEMMA UnderTheLock ==
    ASSUME MemberBookingInv, NEW c \in Calls, Create(c)
    PROVE  /\ desk' = desk
           /\ \/ /\ UNCHANGED <<reservation, request>>
                 /\ \/ Moved(c)
                    \/ \E a \in Answers, m \in Users : Answered(c, a, m) /\ Sound(c, a, m)
              \/ /\ Written(c)
                 /\ Answered(c, "reservation", c) \/ Answered(c, "unsure", NoCall)
<1> DEFINE s == call[c].seen
           unused == s.request[call[c].key] = NoCall
           allowed == unused /\ FutureCount(c, s) < MaxFuture
           Replies == \E a \in Answers, m \in Users : Answered(c, a, m) /\ Sound(c, a, m)
<1>1. /\ TypeOK /\ call[c] \in CallRows /\ call[c].stage = "holding" /\ ~call[c].known
      /\ IsPast(s) /\ call[c].key \in Keys
  BY DEF MemberBookingInv, TypeOK, AnswersAreSound, SnapshotsArePast, Create
<1>2. ASSUME NEW a \in Answers, Answer(c, a, NoCall), a \notin {"reservation", "conflict"}
      PROVE  Answered(c, a, NoCall) /\ Sound(c, a, NoCall)
  <2>1. Answered(c, a, NoCall)
    BY <1>1, <1>2, AnswerAnswers DEF Users
  <2> QED BY <1>1, <1>2, <2>1 DEF Sound
<1>3. ASSUME Restart(c) PROVE Moved(c) \/ Replies
  <2> DEFINE n == call[c].repeats + 1
             first == [call[c] EXCEPT !.stage = "begin"]
             second == [first EXCEPT !.repeats = n]
             after == [second EXCEPT !.seen = {}]
  <2>1. CASE call[c].repeats < MaxRepeats
    <3>1. call' = [call EXCEPT ![c] = after]
      BY <1>1, <1>3, <2>1 DEF Restart, TypeOK, CallRows
    <3>2. n \in Nat
      BY <1>1 DEF CallRows
    <3>3. first \in CallRows /\ first.stage = "begin" /\ first.key = call[c].key
          /\ first.ask = call[c].ask /\ first.known = call[c].known
      BY <1>1 DEF CallRows, Stages
    <3>4. after \in CallRows /\ after.stage = "begin" /\ after.key = call[c].key
          /\ after.ask = call[c].ask /\ after.known = call[c].known
      <4> HIDE DEF n, first
      <4> QED BY <3>2, <3>3 DEF CallRows
    <3> HIDE DEF after
    <3> QED BY <1>1, <3>1, <3>4 DEF Moved, OnlyCall, TypeOK
  <2>2. CASE ~(call[c].repeats < MaxRepeats)
    <3>1. Answer(c, "failed", NoCall)
      BY <1>3, <2>2 DEF Restart
    <3> QED BY <1>2, <3>1 DEF Answers, Users
  <2> QED BY <2>1, <2>2
<1>4. ASSUME allowed, ~Stale(c), Write(c) PROVE Written(c) /\ desk' = desk
  BY <1>1, <1>4 DEF Written, Write, Stale
<1>5. CASE ~unused /\ Reply(c, s) /\ UNCHANGED stored
  <2>1. Replies
    BY <1>1, <1>5, ReplyIsSound
  <2> HIDE DEF Replies
  <2>2. UNCHANGED <<reservation, request, desk>>
    BY <1>5 DEF stored
  <2> QED BY <2>1, <2>2 DEF Replies
<1>6. CASE Answer(c, "refused", NoCall) /\ UNCHANGED stored
  BY <1>2, <1>6 DEF stored, Answers, Users
<1>7. CASE allowed /\ ~Stale(c) /\ Write(c) /\ Answer(c, "reservation", c)
  <2>1. Answered(c, "reservation", c)
    BY <1>1, <1>7, AnswerAnswers DEF Answers, Users
  <2> QED BY <1>4, <1>7, <2>1
<1>8. CASE Restart(c) /\ UNCHANGED stored
  BY <1>3, <1>8 DEF stored
<1>9. CASE /\ Answer(c, "unsure", NoCall)
           /\ UNCHANGED stored \/ (allowed /\ ~Stale(c) /\ Write(c))
  <2>1. Answered(c, "unsure", NoCall) /\ Sound(c, "unsure", NoCall)
    BY <1>2, <1>9 DEF Answers
  <2>2. CASE UNCHANGED stored
    BY <2>1, <2>2 DEF stored, Answers, Users
  <2>3. CASE allowed /\ ~Stale(c) /\ Write(c)
    BY <1>4, <2>1, <2>3
  <2> QED BY <1>9, <2>2, <2>3
<1> HIDE DEF Replies
<1>10. \/ ~unused /\ Reply(c, s) /\ UNCHANGED stored
       \/ Answer(c, "refused", NoCall) /\ UNCHANGED stored
       \/ allowed /\ ~Stale(c) /\ Write(c) /\ Answer(c, "reservation", c)
       \/ Restart(c) /\ UNCHANGED stored
       \/ /\ Answer(c, "unsure", NoCall)
          /\ UNCHANGED stored \/ (allowed /\ ~Stale(c) /\ Write(c))
  BY DEF Create
<1> QED BY <1>5, <1>6, <1>7, <1>8, <1>9, <1>10

-----------------------------------------------------------------------------
(* What the steps keep                                                     *)

\* calls that came stay as they were called
CallsStay ==
    /\ call' \in [Calls -> CallRows]
    /\ \A d \in Calls : call[d].stage # "free" =>
          /\ call'[d].stage # "free" /\ call'[d].key = call[d].key
          /\ call'[d].ask = call[d].ask /\ call'[d].known = call[d].known
    /\ \A d \in Calls : call'[d].stage # "free" => call'[d].key \in Keys /\ call'[d].ask \in Asks

\* reservations may only end, be raised or be given away; c may get its first one
ReservationsMove(c) ==
    \/ UNCHANGED <<reservation, request>>
    \/ /\ UNCHANGED request /\ reservation[c] # "none"
       /\ \E to \in {"over", "raised", "away"} : reservation' = [reservation EXCEPT ![c] = to]
    \/ Written(c)

\* Every kind of change to the calls keeps those that came.
LEMMA ChangesKeepCalls ==
    ASSUME TypeOK, NEW c \in Calls,
           \/ Called(c) \/ Moved(c) \/ UNCHANGED call
           \/ \E a, m : Answered(c, a, m)
    PROVE  CallsStay
<1>1. CASE Called(c)
  BY <1>1 DEF Called, CallsStay, TypeOK
<1>2. CASE Moved(c)
  BY <1>2 DEF Moved, OnlyCall, CallsStay, TypeOK
<1>3. CASE \E a, m : Answered(c, a, m)
  BY <1>3 DEF Answered, OnlyCall, CallsStay, TypeOK
<1>4. CASE UNCHANGED call
  BY <1>4 DEF CallsStay, TypeOK
<1> QED BY <1>1, <1>2, <1>3, <1>4

\* What was made stays made; Written(c) makes one more.
LEMMA CreatedGrows ==
    ASSUME MemberBookingInv, NEW c \in Calls, ReservationsMove(c)
    PROVE  /\ Created \subseteq Created' /\ Created' \subseteq Created \cup {c}
           /\ ~Written(c) => Created' = Created
           /\ reservation' \in [Calls -> States] /\ request' \in [Keys -> Users]
           /\ \A k \in Keys : request[k] # NoCall => request'[k] = request[k]
<1>1. TypeOK
  BY DEF MemberBookingInv
<1>2. CASE UNCHANGED <<reservation, request>>
  BY <1>1, <1>2 DEF Created, TypeOK
<1>3. CASE /\ UNCHANGED request /\ reservation[c] # "none"
           /\ \E to \in {"over", "raised", "away"} : reservation' = [reservation EXCEPT ![c] = to]
  BY <1>1, <1>3 DEF Created, TypeOK, States
<1>4. CASE Written(c)
  BY <1>1, <1>4 DEF Written, Created, TypeOK, States, Users
<1> QED BY <1>2, <1>3, <1>4 DEF ReservationsMove

\* Types are kept.
LEMMA TypesKept ==
    ASSUME MemberBookingInv, NEW c \in Calls, CallsStay, ReservationsMove(c), desk' \in Nat
    PROVE  TypeOK'
<1>1. TypeOK
  BY DEF MemberBookingInv
<1>2. IsFiniteSet(Created')
  <2>1. IsFiniteSet(Created \cup {c})
    BY <1>1, FS_AddElement DEF TypeOK
  <2> QED BY <2>1, CreatedGrows, FS_Subset
<1> QED BY <1>2, CreatedGrows DEF TypeOK, CallsStay

\* Keys tell the truth: a key is written once, with the reservation.
LEMMA KeysStayTrue ==
    ASSUME MemberBookingInv, NEW c \in Calls, CallsStay, ReservationsMove(c)
    PROVE  KeysAreTrue'
<1>1. TypeOK /\ KeysAreTrue
  BY DEF MemberBookingInv
<1>2. CASE ~Written(c)
  <2>1. Created' = Created /\ request' = request
    BY <1>2, CreatedGrows DEF ReservationsMove
  <2> QED BY <1>1, <2>1 DEF KeysAreTrue, CallsStay, Created
<1>3. CASE Written(c)
  <2> DEFINE k == call[c].key
  <2>1. k \in Keys /\ call'[c].key = k /\ call'[c].stage # "free" /\ request[k] = NoCall
    BY <1>1, <1>3 DEF TypeOK, CallsStay, Written
  <2>2. c \notin Created
    BY <1>1, <2>1, MemberBookingAssumption DEF KeysAreTrue
  <2>3. Created' = Created \cup {c}
    BY <1>1, <1>3 DEF Written, Created, TypeOK
  <2>4. request'[k] = c /\ \A other \in Keys \ {k} : request'[other] = request[other]
    BY <1>1, <1>3, <2>1 DEF Written, TypeOK
  <2>5. ASSUME NEW other \in Keys, request'[other] # NoCall
        PROVE  request'[other] \in Created' /\ call'[request'[other]].key = other
    <3>1. CASE other = k
      BY <2>1, <2>3, <2>4, <3>1
    <3>2. CASE other # k
      BY <1>1, <2>3, <2>4, <2>5, <3>2 DEF KeysAreTrue, CallsStay, Created
    <3> QED BY <3>1, <3>2
  <2>6. ASSUME NEW d \in Created'
        PROVE  call'[d].stage # "free" /\ request'[call'[d].key] = d
    <3>1. CASE d = c
      BY <2>1, <2>4, <3>1
    <3>2. CASE d # c
      <4>1. d \in Created /\ d \in Calls
        BY <2>3, <2>6, <3>2 DEF Created
      <4>2. call[d].stage # "free" /\ request[call[d].key] = d /\ call[d].key \in Keys
        BY <1>1, <4>1 DEF KeysAreTrue, TypeOK
      <4>3. call[d].key # k
        BY <2>1, <4>1, <4>2, MemberBookingAssumption
      <4> QED BY <2>4, <4>1, <4>2, <4>3 DEF CallsStay
    <3> QED BY <3>1, <3>2
  <2> HIDE DEF k
  <2>7. \A other \in Keys : request'[other] # NoCall =>
           request'[other] \in Created' /\ call'[request'[other]].key = other
    BY <2>5
  <2>8. \A d \in Created' : call'[d].stage # "free" /\ request'[call'[d].key] = d
    BY <2>6
  <2> QED BY <2>7, <2>8 DEF KeysAreTrue
<1> QED BY <1>2, <1>3

\* An answer stays sound, and a call that came with a used key is answered from it.
LEMMA AnswersStaySound ==
    ASSUME MemberBookingInv, NEW c \in Calls, CallsStay, ReservationsMove(c),
           NEW d \in Calls, call[d].stage # "free", NEW a, NEW m, Sound(d, a, m)
    PROVE  LET user == request'[call'[d].key] IN
           /\ a = "reservation" => m = user /\ user # NoCall /\ call'[user].ask = call'[d].ask
           /\ a = "conflict" => user # NoCall /\ call'[user].ask # call'[d].ask
           /\ call'[d].known => a \in {"reservation", "conflict", "gone"}
<1> DEFINE user == request[call[d].key]
<1>1. TypeOK /\ KeysAreTrue /\ call[d].key \in Keys
  BY DEF MemberBookingInv, TypeOK
<1>2. /\ call'[d].key = call[d].key /\ call'[d].ask = call[d].ask
      /\ call'[d].known = call[d].known
  BY DEF CallsStay
<1>3. CASE user # NoCall
  <2>1. user \in Calls /\ call[user].stage # "free"
    BY <1>1, <1>3 DEF KeysAreTrue, Created
  <2>2. request'[call[d].key] = user /\ call'[user].ask = call[user].ask
    BY <1>1, <1>3, <2>1, CreatedGrows DEF CallsStay
  <2> QED BY <1>2, <2>2 DEF Sound
<1>4. CASE user = NoCall
  BY <1>2, <1>4 DEF Sound
<1> QED BY <1>3, <1>4

\* Answers are sound after every kind of change to the calls.
LEMMA SoundnessKept ==
    ASSUME MemberBookingInv, NEW c \in Calls, CallsStay, ReservationsMove(c),
           \/ Called(c) \/ Moved(c) \/ UNCHANGED call
           \/ \E a \in Answers, m \in Users : Answered(c, a, m) /\ Sound(c, a, m)
           \/ Written(c) /\ (Answered(c, "reservation", c) \/ Answered(c, "unsure", NoCall))
    PROVE  AnswersAreSound'
<1> DEFINE SoundNow(d, a, m) ==
             LET user == request'[call'[d].key] IN
             /\ a = "reservation" => m = user /\ user # NoCall /\ call'[user].ask = call'[d].ask
             /\ a = "conflict" => user # NoCall /\ call'[user].ask # call'[d].ask
             /\ call'[d].known => a \in {"reservation", "conflict", "gone"}
           Right(d) ==
             /\ call'[d].stage = "done" => SoundNow(d, call'[d].answer, call'[d].made)
             /\ call'[d].known => call'[d].stage \in {"sent", "done"}
                                  /\ request'[call'[d].key] # NoCall
<1>1. TypeOK /\ AnswersAreSound
  BY DEF MemberBookingInv
<1>2. ASSUME NEW d \in Calls, call[d].stage # "free", NEW a, NEW m, Sound(d, a, m)
      PROVE  SoundNow(d, a, m)
  BY <1>2, AnswersStaySound
<1>3. ASSUME NEW d \in Calls, call[d].stage # "free", call[d].known
      PROVE  request'[call'[d].key] # NoCall
  <2>1. call[d].key \in Keys /\ request[call[d].key] # NoCall /\ call'[d].key = call[d].key
    BY <1>1, <1>3 DEF TypeOK, AnswersAreSound, CallsStay
  <2> QED BY <2>1, CreatedGrows
<1>4. ASSUME NEW d \in Calls, call'[d] = call[d] PROVE Right(d)
  <2>1. CASE call[d].stage = "free"
    BY <1>1, <1>4, <2>1 DEF AnswersAreSound
  <2>2. CASE call[d].stage # "free"
    <3>1. call[d].stage = "done" => SoundNow(d, call[d].answer, call[d].made)
      <4> HIDE DEF SoundNow
      <4> QED BY <1>1, <1>2, <2>2 DEF AnswersAreSound
    <3>2. call[d].known => call[d].stage \in {"sent", "done"}
      BY <1>1 DEF AnswersAreSound
    <3> HIDE DEF SoundNow
    <3> QED BY <1>3, <1>4, <2>2, <3>1, <3>2
  <2> QED BY <2>1, <2>2
<1>5. CASE Called(c)
  <2>1. Right(c)
    <3>1. call'[c].stage = "sent" /\ (call'[c].known => request[call'[c].key] # NoCall)
          /\ call'[c].key \in Keys
      BY <1>5 DEF Called
    <3> HIDE DEF SoundNow
    <3> QED BY <3>1, CreatedGrows
  <2> QED BY <1>4, <1>5, <2>1 DEF Called, AnswersAreSound, Sound
<1>6. CASE Moved(c)
  <2>1. Right(c)
    BY <1>6 DEF Moved, OnlyCall
  <2> QED BY <1>4, <1>6, <2>1 DEF Moved, OnlyCall, AnswersAreSound, Sound
<1>7. ASSUME NEW a \in Answers, NEW m \in Users, Answered(c, a, m), Sound(c, a, m)
      PROVE  AnswersAreSound'
  <2>1. Right(c)
    <3>1. SoundNow(c, a, m)
      <4> HIDE DEF SoundNow
      <4> QED BY <1>2, <1>7 DEF Answered
    <3> HIDE DEF SoundNow
    <3> QED BY <1>3, <1>7, <3>1 DEF Answered, OnlyCall
  <2> QED BY <1>4, <1>7, <2>1 DEF Answered, OnlyCall, AnswersAreSound, Sound
<1>8. CASE Written(c) /\ (Answered(c, "reservation", c) \/ Answered(c, "unsure", NoCall))
  <2>1. request'[call[c].key] = c /\ c # NoCall /\ ~call[c].known
    BY <1>1, <1>8, MemberBookingAssumption DEF Written, TypeOK
  <2>2. Right(c)
    BY <1>8, <2>1 DEF Answered, OnlyCall
  <2> QED BY <1>4, <1>8, <2>2 DEF Answered, OnlyCall, AnswersAreSound, Sound
<1>9. CASE UNCHANGED call
  BY <1>4, <1>9 DEF AnswersAreSound, Sound
<1> QED BY <1>5, <1>6, <1>7, <1>8, <1>9
\* A past state stays one: a written key that it does not know makes it differ for good.
LEMMA PastStaysPast ==
    ASSUME MemberBookingInv, NEW c \in Calls, ReservationsMove(c), NEW s, IsPast(s)
    PROVE  /\ \A k \in Keys : s.request[k] # NoCall => request'[k] = s.request[k]
           /\ \A d \in Calls : s.reservation[d] # "none" => d \in Created'
           /\ s.request = request' =>
                 \A d \in Calls : reservation'[d] = "open" => s.reservation[d] = "open"
<1>1. TypeOK
  BY DEF MemberBookingInv
<1>2. \A k \in Keys : s.request[k] # NoCall => request'[k] = s.request[k]
  BY CreatedGrows DEF IsPast
<1>3. \A d \in Calls : s.reservation[d] # "none" => d \in Created'
  BY CreatedGrows DEF IsPast
<1>4. CASE UNCHANGED <<reservation, request>>
  BY <1>2, <1>3, <1>4 DEF IsPast
<1>5. CASE /\ UNCHANGED request /\ reservation[c] # "none"
           /\ \E to \in {"over", "raised", "away"} : reservation' = [reservation EXCEPT ![c] = to]
  <2>1. \A d \in Calls : reservation'[d] = "open" => reservation[d] = "open"
    BY <1>1, <1>5 DEF TypeOK
  <2> QED BY <1>2, <1>3, <1>5, <2>1 DEF IsPast
<1>6. CASE Written(c)
  <2> DEFINE k == call[c].key
  <2>1. k \in Keys /\ request'[k] = c /\ request[k] = NoCall /\ c # NoCall
    BY <1>1, <1>6, MemberBookingAssumption DEF Written, TypeOK
  <2>2. s.request # request'
    <3>1. s.request[k] # c
      BY <2>1 DEF IsPast
    <3> QED BY <2>1, <3>1
  <2> QED BY <1>2, <1>3, <2>2
<1> QED BY <1>4, <1>5, <1>6 DEF ReservationsMove

\* Snapshots of waiting and holding calls stay past states.
LEMMA SnapshotsStayPast ==
    ASSUME MemberBookingInv, NEW c \in Calls, ReservationsMove(c),
           \/ Called(c) \/ Moved(c) \/ UNCHANGED call
           \/ \E a, m : Answered(c, a, m)
    PROVE  SnapshotsArePast'
<1> DEFINE StillPast(s) ==
             /\ s \in Snapshots
             /\ \A k \in Keys : s.request[k] # NoCall => request'[k] = s.request[k]
             /\ \A d \in Calls : s.reservation[d] # "none" => d \in Created'
             /\ s.request = request' =>
                   \A d \in Calls : reservation'[d] = "open" => s.reservation[d] = "open"
<1>1. ASSUME NEW s, IsPast(s) PROVE StillPast(s)
  BY <1>1, PastStaysPast DEF IsPast
<1>2. ASSUME NEW d \in Calls, call'[d] = call[d], call'[d].stage \in {"waiting", "holding"}
      PROVE  StillPast(call'[d].seen)
  <2>1. IsPast(call[d].seen)
    BY <1>2 DEF MemberBookingInv, SnapshotsArePast
  <2> HIDE DEF StillPast
  <2> QED BY <1>1, <1>2, <2>1
<1>3. ASSUME Moved(c), call'[c].stage \in {"waiting", "holding"}
      PROVE  StillPast(call'[c].seen)
  <2>1. IsPast(call'[c].seen)
    BY <1>3 DEF Moved
  <2> HIDE DEF StillPast
  <2> QED BY <1>1, <2>1
<1>4. ASSUME NEW d \in Calls, call'[d].stage \in {"waiting", "holding"}
      PROVE  StillPast(call'[d].seen)
  <2> HIDE DEF StillPast
  <2>1. CASE d # c \/ UNCHANGED call
    <3>1. call'[d] = call[d]
      BY <2>1 DEF Called, Moved, Answered, OnlyCall
    <3> QED BY <1>2, <1>4, <3>1
  <2>2. CASE d = c /\ Moved(c)
    BY <1>3, <1>4, <2>2
  <2>3. CASE d = c /\ (Called(c) \/ \E a, m : Answered(c, a, m))
    BY <1>4, <2>3 DEF Called, Answered
  <2> QED BY <2>1, <2>2, <2>3
<1> QED BY <1>4 DEF SnapshotsArePast, IsPast

\* Only a call that counted all open reservations adds one.
LEMMA LimitKept ==
    ASSUME MemberBookingInv, NEW c \in Calls, ReservationsMove(c)
    PROVE  LimitHolds'
<1> DEFINE open == {d \in Calls : reservation[d] = "open"}
           openNext == {d \in Calls : reservation'[d] = "open"}
<1>1. TypeOK /\ MaxFuture \in Nat /\ IsFiniteSet(Created)
  BY MemberBookingAssumption DEF MemberBookingInv, TypeOK
<1>2. IsFiniteSet(open) /\ Cardinality(open) \in Nat
  <2>1. open \subseteq Created
    BY DEF Created
  <2> QED BY <1>1, <2>1, FS_Subset, FS_CardinalityType
<1>3. CASE UNCHANGED reservation \/ \E to \in {"over", "raised", "away"} :
                                      reservation' = [reservation EXCEPT ![c] = to]
  <2>1. openNext \subseteq open
    BY <1>1, <1>3 DEF TypeOK
  <2>2. Cardinality(openNext) <= Cardinality(open) /\ Cardinality(openNext) \in Nat
    <3> HIDE DEF open, openNext
    <3> QED BY <1>2, <2>1, FS_Subset, FS_CardinalityType
  <2>3. Cardinality(open) <= MaxFuture
    BY DEF MemberBookingInv, LimitHolds
  <2>4. Cardinality(openNext) <= MaxFuture
    <3> HIDE DEF open, openNext
    <3> QED BY <1>1, <1>2, <2>2, <2>3
  <2> QED BY <2>4 DEF LimitHolds
<1>4. CASE Written(c)
  <2> DEFINE s == call[c].seen
             counted == {d \in Calls : s.reservation[d] \in {"open", "raised"}}
  <2>1. IsPast(s) /\ s.request = request /\ s.desk \in Nat
        /\ Cardinality(counted) + s.desk < MaxFuture
    BY <1>4 DEF Written, IsPast, Snapshots, FutureCount
  <2>2. open \subseteq counted /\ counted \subseteq Created
    BY <2>1 DEF IsPast, Created
  <2>3. openNext = open \cup {c}
    BY <1>1, <1>4 DEF Written, TypeOK
  <2> HIDE DEF open, openNext, counted, s
  <2>4. IsFiniteSet(counted) /\ Cardinality(counted) \in Nat
        /\ Cardinality(open) <= Cardinality(counted)
    BY <1>1, <2>2, FS_Subset, FS_CardinalityType
  <2>5. Cardinality(openNext) <= Cardinality(open) + 1 /\ Cardinality(openNext) \in Nat
    <3>1. IsFiniteSet(openNext)
          /\ Cardinality(openNext) = IF c \in open THEN Cardinality(open) ELSE Cardinality(open) + 1
      BY <1>2, <2>3, FS_AddElement
    <3> QED BY <1>2, <3>1
  <2>6. Cardinality(openNext) <= MaxFuture
    BY <1>1, <1>2, <2>1, <2>4, <2>5
  <2> QED BY <2>6 DEF LimitHolds, openNext
<1> QED BY <1>3, <1>4 DEF ReservationsMove

-----------------------------------------------------------------------------
(* The theorems                                                            *)

\* At the start nothing is called, made or used.
LEMMA InitMemberBookingInv == Init => MemberBookingInv
<1> SUFFICES ASSUME Init PROVE MemberBookingInv
  OBVIOUS
<1>1. NotCalled \in CallRows /\ NotCalled.stage = "free" /\ ~NotCalled.known
  BY DEF NotCalled, CallRows, Stages, Answers, Users
<1>2. Created = {} /\ {c \in Calls : reservation[c] = "open"} = {}
  BY DEF Init, Created
<1>3. TypeOK
  BY <1>1, <1>2, FS_EmptySet DEF TypeOK, Init, States, Users
<1>4. KeysAreTrue /\ AnswersAreSound /\ SnapshotsArePast
  BY <1>1, <1>2 DEF KeysAreTrue, AnswersAreSound, SnapshotsArePast, Init
<1>5. LimitHolds
  BY <1>2, FS_EmptySet, MemberBookingAssumption DEF LimitHolds
<1> QED BY <1>3, <1>4, <1>5 DEF MemberBookingInv

\* Every step of a call, of the salon or of the clock is one of the kinds above.
LEMMA StepKeepsMemberBookingInv == MemberBookingInv /\ [Next]_vars => MemberBookingInv'
<1> SUFFICES ASSUME MemberBookingInv, [Next]_vars PROVE MemberBookingInv'
  OBVIOUS
<1>1. TypeOK
  BY DEF MemberBookingInv
<1>2. ASSUME NEW c \in Calls, ReservationsMove(c), desk' \in Nat,
             \/ Called(c) \/ Moved(c) \/ UNCHANGED call
             \/ \E a \in Answers, m \in Users : Answered(c, a, m) /\ Sound(c, a, m)
             \/ Written(c) /\ (Answered(c, "reservation", c) \/ Answered(c, "unsure", NoCall))
      PROVE  MemberBookingInv'
  <2>1. \/ Called(c) \/ Moved(c) \/ UNCHANGED call
        \/ \E a, m : Answered(c, a, m)
    BY <1>2
  <2>2. CallsStay
    BY <1>1, <2>1, ChangesKeepCalls
  <2> QED
    BY <1>2, <2>1, <2>2, TypesKept, KeysStayTrue, SoundnessKept, SnapshotsStayPast, LimitKept
       DEF MemberBookingInv
<1>3. ASSUME NEW c \in Calls,
             \/ \E key \in Keys, ask \in Asks : Call(c, key, ask)
             \/ Precheck(c) \/ Begin(c) \/ Lock(c)
      PROVE  MemberBookingInv'
  BY <1>1, <1>2, <1>3, BeforeTheLock DEF ReservationsMove, TypeOK
<1>4. ASSUME NEW c \in Calls, Create(c) PROVE MemberBookingInv'
  BY <1>1, <1>2, <1>4, UnderTheLock DEF ReservationsMove, TypeOK
<1>5. ASSUME NEW c \in Calls,
             Cancel(c) \/ \E to \in {"over", "raised", "away"} : DeskChanges(c, to)
      PROVE  MemberBookingInv'
  <2>1. /\ UNCHANGED <<request, call, desk>> /\ reservation[c] # "none"
        /\ \E to \in {"over", "raised", "away"} : reservation' = [reservation EXCEPT ![c] = to]
    BY <1>5 DEF Cancel, DeskChanges
  <2> QED BY <1>1, <1>2, <2>1 DEF ReservationsMove, TypeOK
<1>6. ASSUME DeskBooks \/ NewWindow \/ UNCHANGED vars PROVE MemberBookingInv'
  <2>1. UNCHANGED <<reservation, request, call>> /\ desk' \in Nat
    BY <1>1, <1>6 DEF DeskBooks, NewWindow, vars, stored, TypeOK
  <2>2. TypeOK'
    BY <1>1, <2>1 DEF TypeOK, Created
  <2>3. KeysAreTrue' /\ AnswersAreSound' /\ LimitHolds'
    BY <2>1 DEF MemberBookingInv, KeysAreTrue, Created, AnswersAreSound, Sound, LimitHolds
  <2>4. SnapshotsArePast'
    BY <2>1 DEF MemberBookingInv, SnapshotsArePast, IsPast, Created
  <2> QED BY <2>2, <2>3, <2>4 DEF MemberBookingInv
<1> QED BY <1>3, <1>4, <1>5, <1>6 DEF Next

\* Keys, answers and snapshots stay as the invariant says, for any number of calls.
THEOREM MemberBookingSafe == Spec => []MemberBookingInv
<1> QED BY InitMemberBookingInv, StepKeepsMemberBookingInv, PTL DEF Spec

\* A key makes one reservation and a repeat gets that very one, or a conflict if it asks
\* for something else; it is never refused, counted or failed.
THEOREM RepeatsAreExact == Spec => []RepeatsGetTheReservation
<1>1. MemberBookingInv => RepeatsGetTheReservation
  <2> SUFFICES ASSUME MemberBookingInv PROVE RepeatsGetTheReservation
    OBVIOUS
  <2>1. \A c, d \in Created : call[c].key = call[d].key => c = d
    BY DEF MemberBookingInv, KeysAreTrue
  <2>2. \A c \in Calls : call[c].stage = "done" => Sound(c, call[c].answer, call[c].made)
    BY DEF MemberBookingInv, AnswersAreSound
  <2> QED BY <2>1, <2>2 DEF RepeatsGetTheReservation, Sound
<1> QED BY <1>1, MemberBookingSafe, PTL

\* The app never makes more open reservations for a member than the limit, whichever
\* snapshots the transactions work on.
THEOREM FutureLimitHolds == Spec => []LimitHolds
<1> QED BY MemberBookingSafe, PTL DEF MemberBookingInv

-----------------------------------------------------------------------------
(* Enrolment and provisioning (Membership): why an enrolled program keeps   *)
(* its tenant although triggers look at rows and not at each other, and     *)
(* why a reviewed plan is applied to nothing newer: rows carry a version    *)
(* that only grows.                                                         *)

TenantRows == [program : Programs \cup {None}, active : BOOLEAN, stamp : Nat]
ActorRows == [disabled : BOOLEAN, stamp : Nat]
RoleRows == [owner : BOOLEAN, stamp : Nat]
Holdings == Programs \X Members
LinkRows == [tenant : Tenants, customer : Customers, card : Holdings]
EnrolmentRows == [stage : {"free", "checked", "locked", "inserted"},
                  card : Holdings \cup {None}, holds : Tenants \cup {None}]

\* Every variable stays in its domain; a card that is shown is shown to a tenant.
ReceptionTypeOK ==
    /\ tenant \in [Tenants -> TenantRows]
    /\ program \in [Programs -> {"none", "active", "inactive"}]
    /\ account \in [Holdings -> {"none", "active", "inactive"}]
    /\ cardLinks \subseteq LinkRows
    /\ actor \in ActorRows /\ role \in [Tenants -> RoleRows]
    /\ enrolment \in [Enrolments -> EnrolmentRows]
    /\ \A e \in Enrolments : enrolment[e].stage # "free" => enrolment[e].card \in Holdings
    /\ shown.card # None => shown.card \in Holdings /\ shown.tenant \in Tenants
    /\ reviewed = [tenant |-> reviewed.tenant, program |-> reviewed.program,
                   hash |-> reviewed.hash, touched |-> reviewed.touched]
    /\ reviewed.touched \in BOOLEAN
    /\ reviewed # Reception!NothingReviewed =>
          reviewed.tenant \in Tenants /\ reviewed.program \in Programs

\* A program has one tenant at most.
OneTenantEach ==
    \A s, t \in Tenants : tenant[s].program = tenant[t].program => s = t \/ tenant[s].program = None

\* An enrolment that has locked or inserted holds a tenant of the program.
EnrolmentsHold ==
    \A e \in Enrolments : enrolment[e].stage \in {"locked", "inserted"} =>
       /\ enrolment[e].holds \in Tenants
       /\ tenant[enrolment[e].holds].program = enrolment[e].card[1]

\* A program with an account has a tenant, and a link is between the two.
AccountsHaveTenants ==
    \A a \in Holdings : account[a] # "none" => \E t \in Tenants : tenant[t].program = a[1]
LinksHaveAccounts ==
    \A l \in cardLinks : tenant[l.tenant].program = l.card[1] /\ account[l.card] # "none"

\* What a review has seen is older than what was written since.
ReviewsAge ==
    reviewed # Reception!NothingReviewed =>
       LET h == reviewed.hash
           t == reviewed.tenant
       IN /\ h.actor \in ActorRows /\ h.tenant \in TenantRows /\ h.role \in RoleRows
          /\ h.actor.stamp <= actor.stamp /\ h.tenant.stamp <= tenant[t].stamp
          /\ h.role.stamp <= role[t].stamp
          /\ reviewed.touched => \/ h.actor.stamp < actor.stamp
                                 \/ h.tenant.stamp < tenant[t].stamp
                                 \/ h.role.stamp < role[t].stamp

ReceptionInv ==
    /\ ReceptionTypeOK /\ OneTenantEach /\ EnrolmentsHold
    /\ AccountsHaveTenants /\ LinksHaveAccounts /\ ReviewsAge

\* An instance counts as its module does.
LEMMA ReceptionCounts == ASSUME NEW S PROVE Reception!Cardinality(S) = Cardinality(S)
BY DEF Reception!Cardinality, Cardinality

\* Touching tells a review whether it is about one of the tenants, and changes nothing else.
LEMMA Touched ==
    ASSUME ReceptionTypeOK, NEW tenants \in SUBSET Tenants, Reception!Touch(tenants)
    PROVE  /\ reviewed' = [tenant |-> reviewed.tenant, program |-> reviewed.program,
                           hash |-> reviewed.hash, touched |-> reviewed'.touched]
           /\ reviewed'.touched = (reviewed.touched \/ reviewed.tenant \in tenants)
           /\ reviewed'.touched \in BOOLEAN
           /\ reviewed' # Reception!NothingReviewed => reviewed # Reception!NothingReviewed
           /\ reviewed'.tenant = reviewed.tenant /\ reviewed'.program = reviewed.program
           /\ reviewed'.hash = reviewed.hash
<1>1. reviewed' = [tenant |-> reviewed.tenant, program |-> reviewed.program, hash |-> reviewed.hash,
                  touched |-> reviewed.touched \/ reviewed.tenant \in tenants]
  BY DEF ReceptionTypeOK, Reception!Touch
<1>2. reviewed = Reception!NothingReviewed => reviewed' = Reception!NothingReviewed
  <2> SUFFICES ASSUME reviewed = Reception!NothingReviewed PROVE reviewed' = Reception!NothingReviewed
    OBVIOUS
  <2>1. reviewed.tenant \notin tenants /\ reviewed.touched = FALSE
    BY CounterAssumption DEF Reception!NothingReviewed
  <2>2. (reviewed.touched \/ reviewed.tenant \in tenants) = FALSE
    BY <2>1
  <2> QED BY <1>1, <2>2 DEF Reception!NothingReviewed
<1> QED BY <1>1, <1>2 DEF ReceptionTypeOK

\* The first state satisfies the invariant.
LEMMA ReceptionBegins == Reception!Init => ReceptionInv
<1> SUFFICES ASSUME Reception!Init PROVE ReceptionInv
  OBVIOUS
<1> USE DEF Reception!Init, Reception!NothingShown, Reception!NothingReviewed
<1>1. ReceptionTypeOK
  BY CounterAssumption DEF ReceptionTypeOK, TenantRows, ActorRows, RoleRows, Holdings,
     EnrolmentRows,
     Reception!Holders
<1>2. OneTenantEach /\ EnrolmentsHold /\ AccountsHaveTenants /\ LinksHaveAccounts /\ ReviewsAge
  BY DEF OneTenantEach, EnrolmentsHold, AccountsHaveTenants, LinksHaveAccounts, ReviewsAge,
     Holdings, Reception!Holders
<1> QED BY <1>1, <1>2 DEF ReceptionInv

\* An enrolment begins.
LEMMA StartEnrolmentKeeps ==
    ASSUME ReceptionInv, NEW e \in Enrolments, NEW card \in Holdings,
           Reception!StartEnrolment(e, card)
    PROVE  ReceptionInv'
<1> USE DEF Reception!StartEnrolment, ReceptionInv
<1>1. ReceptionTypeOK'
  BY DEF ReceptionTypeOK, EnrolmentRows, Holdings
<1>2. EnrolmentsHold'
  BY DEF ReceptionTypeOK, EnrolmentsHold, EnrolmentRows, Holdings
<1>3. OneTenantEach' /\ AccountsHaveTenants' /\ LinksHaveAccounts' /\ ReviewsAge'
  BY DEF OneTenantEach, AccountsHaveTenants, LinksHaveAccounts, ReviewsAge
<1> QED BY <1>1, <1>2, <1>3

\* The tenant and the program are locked: the tenant is the one of the program.
LEMMA LockEnrolmentKeeps ==
    ASSUME ReceptionInv, NEW e \in Enrolments, Reception!LockEnrolment(e)
    PROVE  ReceptionInv'
<1> USE DEF Reception!LockEnrolment, ReceptionInv
<1> DEFINE a == enrolment[e].card
<1> SUFFICES ReceptionTypeOK' /\ EnrolmentsHold'
  BY DEF OneTenantEach, AccountsHaveTenants, LinksHaveAccounts, ReviewsAge
<1>1. CASE /\ Reception!Open(a[1]) /\ account[a] = "none"
  <2>1. PICK t \in Reception!OwnersOf(a[1]) :
           enrolment' = [enrolment EXCEPT ![e] = [stage |-> "locked", card |-> a, holds |-> t]]
    BY <1>1
  <2>2. t \in Tenants /\ tenant[t].program = a[1]
    BY DEF Reception!OwnersOf
  <2>3. a \in Holdings
    BY DEF ReceptionTypeOK
  <2> QED BY <2>1, <2>2, <2>3 DEF ReceptionTypeOK, EnrolmentRows, EnrolmentsHold
<1>2. CASE ~(Reception!Open(a[1]) /\ account[a] = "none")
  <2>1. enrolment' = [enrolment EXCEPT ![e] = [stage |-> "free", card |-> None, holds |-> None]]
    BY <1>2 DEF Reception!EndEnrolment
  <2> QED BY <2>1 DEF ReceptionTypeOK, EnrolmentsHold, EnrolmentRows
<1> QED BY <1>1, <1>2

\* An account is inserted, and the trigger holds the tenant.
LEMMA InsertKeeps ==
    ASSUME ReceptionInv, NEW e \in Enrolments, NEW card \in Holdings,
           Reception!Insert(e, card)
    PROVE  ReceptionInv'
<1> USE DEF Reception!Insert, ReceptionInv
<1>1. ReceptionTypeOK'
  BY DEF ReceptionTypeOK, EnrolmentRows, Holdings, Reception!OwnersOf
<1>2. EnrolmentsHold'
  BY DEF ReceptionTypeOK, EnrolmentsHold, EnrolmentRows, Holdings, Reception!OwnersOf
<1>3. OneTenantEach' /\ AccountsHaveTenants' /\ LinksHaveAccounts' /\ ReviewsAge'
  BY DEF OneTenantEach, AccountsHaveTenants, LinksHaveAccounts, ReviewsAge
<1> QED BY <1>1, <1>2, <1>3

\* The account is there; the tenant that was held is that of its program.
LEMMA CommitEnrolmentKeeps ==
    ASSUME ReceptionInv, NEW e \in Enrolments, Reception!CommitEnrolment(e)
    PROVE  ReceptionInv'
<1> USE DEF Reception!CommitEnrolment, ReceptionInv
<1>1. ReceptionTypeOK'
  BY DEF ReceptionTypeOK, EnrolmentRows, Holdings, Reception!EndEnrolment
<1>2. EnrolmentsHold'
  BY DEF ReceptionTypeOK, EnrolmentsHold, EnrolmentRows, Holdings, Reception!EndEnrolment
<1>3. AccountsHaveTenants'
  BY DEF ReceptionTypeOK, EnrolmentsHold, AccountsHaveTenants, Holdings
<1>4. LinksHaveAccounts'
  BY DEF ReceptionTypeOK, LinksHaveAccounts, LinkRows, Holdings
<1>5. OneTenantEach' /\ ReviewsAge'
  BY DEF OneTenantEach, ReviewsAge
<1> QED BY <1>1, <1>2, <1>3, <1>4, <1>5

\* A card is looked up: nothing changes but what is shown.
LEMMA LookupKeeps ==
    ASSUME ReceptionInv, NEW t \in Tenants, NEW a \in Holdings, NEW c,
           Reception!Lookup(t, a, c)
    PROVE  ReceptionInv'
<1> USE DEF Reception!Lookup, ReceptionInv
<1>1. ReceptionTypeOK'
  BY DEF ReceptionTypeOK, Reception!Shown
<1>2. OneTenantEach' /\ EnrolmentsHold' /\ AccountsHaveTenants' /\ LinksHaveAccounts' /\ ReviewsAge'
  BY DEF OneTenantEach, EnrolmentsHold, AccountsHaveTenants, LinksHaveAccounts, ReviewsAge
<1> QED BY <1>1, <1>2

\* The card of a customer is shown.
LEMMA ShowCustomerKeeps ==
    ASSUME ReceptionInv, NEW t \in Tenants, NEW c \in Customers, Reception!ShowCustomer(t, c)
    PROVE  ReceptionInv'
<1> USE DEF Reception!ShowCustomer, ReceptionInv
<1>1. ReceptionTypeOK'
  <2>1. CASE \E l \in Reception!LinkedTo(t, c) : account[l.card] = "active"
    <3> DEFINE l == CHOOSE l \in Reception!LinkedTo(t, c) : TRUE
    <3>1. l \in LinkRows
      BY <2>1 DEF Reception!LinkedTo, ReceptionTypeOK
    <3>2. shown'.card = l.card /\ shown'.tenant = t
      BY <2>1 DEF Reception!Shown
    <3> QED BY <3>1, <3>2 DEF ReceptionTypeOK, LinkRows
  <2>2. CASE ~ \E l \in Reception!LinkedTo(t, c) : account[l.card] = "active"
    BY <2>2 DEF ReceptionTypeOK, Reception!NothingShown
  <2> QED BY <2>1, <2>2
<1>2. OneTenantEach' /\ EnrolmentsHold' /\ AccountsHaveTenants' /\ LinksHaveAccounts' /\ ReviewsAge'
  BY DEF OneTenantEach, EnrolmentsHold, AccountsHaveTenants, LinksHaveAccounts, ReviewsAge
<1> QED BY <1>1, <1>2

\* A link is made between the tenant and an active card of its program.
LEMMA LinkCustomerKeeps ==
    ASSUME ReceptionInv, NEW c \in Customers, Reception!LinkCustomer(c)
    PROVE  ReceptionInv'
<1> USE DEF Reception!LinkCustomer, ReceptionInv
<1>1. ReceptionTypeOK'
  BY DEF ReceptionTypeOK, LinkRows
<1>2. LinksHaveAccounts'
  BY DEF LinksHaveAccounts, ReceptionTypeOK
<1>3. OneTenantEach' /\ EnrolmentsHold' /\ AccountsHaveTenants' /\ ReviewsAge'
  BY DEF OneTenantEach, EnrolmentsHold, AccountsHaveTenants, ReviewsAge
<1> QED BY <1>1, <1>2, <1>3

\* A review sees the rows as they are.
LEMMA DryRunKeeps ==
    ASSUME ReceptionInv, NEW t \in Tenants, NEW p \in Programs, Reception!DryRun(t, p)
    PROVE  ReceptionInv'
<1> USE DEF Reception!DryRun, ReceptionInv
<1>1. ReceptionTypeOK'
  BY DEF ReceptionTypeOK
<1>2. ReviewsAge'
  <2>1. /\ reviewed'.hash.actor = actor /\ reviewed'.hash.tenant = tenant[t]
        /\ reviewed'.hash.role = role[t] /\ reviewed'.tenant = t /\ ~reviewed'.touched
    BY DEF Reception!Hash
  <2>2. actor \in ActorRows /\ tenant[t] \in TenantRows /\ role[t] \in RoleRows
    BY DEF ReceptionTypeOK
  <2> QED BY <2>1, <2>2 DEF ReviewsAge, ActorRows, TenantRows, RoleRows
<1>3. OneTenantEach' /\ EnrolmentsHold' /\ AccountsHaveTenants' /\ LinksHaveAccounts'
  BY DEF OneTenantEach, EnrolmentsHold, AccountsHaveTenants, LinksHaveAccounts
<1> QED BY <1>1, <1>2, <1>3

\* A provisioning gives the tenant the program nobody else has; the tenant had none or this one.
LEMMA ApplyKeeps ==
    ASSUME ReceptionInv, Reception!Apply
    PROVE  ReceptionInv'
<1> USE DEF Reception!Apply, ReceptionInv
<1>1. reviewed.tenant \in Tenants /\ reviewed.program \in Programs
  BY DEF ReceptionTypeOK
<1>2. ReceptionTypeOK'
  BY <1>1 DEF ReceptionTypeOK, TenantRows, Reception!NothingReviewed
<1>3. \A t \in Tenants : \/ tenant'[t].program = tenant[t].program
                       \/ /\ t = reviewed.tenant /\ tenant[t].program = None
                          /\ tenant'[t].program = reviewed.program
  BY <1>1 DEF ReceptionTypeOK, TenantRows, Reception!Plannable
<1>4. \A t \in Tenants : tenant[t].program = reviewed.program => t = reviewed.tenant
  BY <1>1 DEF Reception!Plannable, Reception!OwnersOf
<1>5. OneTenantEach'
  BY <1>3, <1>4 DEF OneTenantEach
<1>6. EnrolmentsHold'
  BY <1>3 DEF EnrolmentsHold, Reception!TenantFree
<1>7. AccountsHaveTenants'
  BY <1>3, CounterAssumption DEF AccountsHaveTenants, Holdings
<1>8. LinksHaveAccounts'
  BY <1>3, CounterAssumption DEF LinksHaveAccounts, ReceptionTypeOK, LinkRows, Holdings
<1>9. ReviewsAge'
  BY DEF ReviewsAge
<1> QED BY <1>1, <1>2, <1>3, <1>4, <1>5, <1>6, <1>7, <1>8, <1>9

\* The operator's row is written: whatever was reviewed is older.
LEMMA ChangeActorKeeps ==
    ASSUME ReceptionInv, Reception!ChangeActor
    PROVE  ReceptionInv'
<1> USE DEF Reception!ChangeActor, ReceptionInv
<1> /\ ReceptionTypeOK /\ Reception!Touch(Tenants)
    /\ actor'.stamp > actor.stamp /\ actor' \in ActorRows
  BY DEF ReceptionTypeOK, ActorRows
<1>1. ReceptionTypeOK'
  BY Touched DEF ReceptionTypeOK
<1>2. ReviewsAge'
  BY Touched DEF ReviewsAge, ReceptionTypeOK, ActorRows, TenantRows, RoleRows
<1>3. OneTenantEach' /\ EnrolmentsHold' /\ AccountsHaveTenants' /\ LinksHaveAccounts'
  BY DEF OneTenantEach, EnrolmentsHold, AccountsHaveTenants, LinksHaveAccounts
<1> QED BY <1>1, <1>2, <1>3

\* A role is written: a review of its tenant is older.
LEMMA ChangeRoleKeeps ==
    ASSUME ReceptionInv, NEW t \in Tenants, Reception!ChangeRole(t)
    PROVE  ReceptionInv'
<1> USE DEF Reception!ChangeRole, ReceptionInv
<1> /\ ReceptionTypeOK /\ Reception!Touch({t})
    /\ role'[t].stamp > role[t].stamp /\ role' \in [Tenants -> RoleRows]
    /\ \A s \in Tenants : s # t => role'[s] = role[s]
  BY DEF ReceptionTypeOK, RoleRows
<1>1. ReceptionTypeOK'
  BY Touched DEF ReceptionTypeOK
<1>2. ReviewsAge'
  BY Touched DEF ReviewsAge, ReceptionTypeOK, ActorRows, TenantRows, RoleRows
<1>3. OneTenantEach' /\ EnrolmentsHold' /\ AccountsHaveTenants' /\ LinksHaveAccounts'
  BY DEF OneTenantEach, EnrolmentsHold, AccountsHaveTenants, LinksHaveAccounts
<1> QED BY <1>1, <1>2, <1>3

\* A tenant is written past the handlers: its program moves only as the key and the trigger let it.
LEMMA ChangeTenantKeeps ==
    ASSUME ReceptionInv, NEW t \in Tenants, NEW p \in Programs \cup {None},
           Reception!ChangeTenant(t, p)
    PROVE  ReceptionInv'
<1> USE DEF Reception!ChangeTenant, ReceptionInv
<1> /\ ReceptionTypeOK /\ Reception!Touch({t})
    /\ tenant'[t].stamp > tenant[t].stamp /\ tenant' \in [Tenants -> TenantRows]
  BY DEF ReceptionTypeOK, TenantRows
<1>1. ReceptionTypeOK'
  BY Touched DEF ReceptionTypeOK
<1>2. \A s \in Tenants : s # t => tenant'[s] = tenant[s]
  BY DEF ReceptionTypeOK
<1>3. tenant'[t].program = p
  BY DEF ReceptionTypeOK
<1>4. OneTenantEach'
  BY <1>2, <1>3 DEF OneTenantEach, Reception!ProgramMayMove, Reception!OwnersOf
<1>5. EnrolmentsHold'
  BY <1>2 DEF EnrolmentsHold, Reception!TenantFree
<1>6. tenant[t].program # None /\ p # tenant[t].program =>
         \A a \in Holdings : a[1] = tenant[t].program => account[a] = "none"
  BY DEF Reception!ProgramMayMove, Reception!Accounts, Reception!Holders, Holdings
<1>7. AccountsHaveTenants'
  <2> SUFFICES ASSUME NEW a \in Holdings, account[a] # "none"
               PROVE  \E s \in Tenants : tenant'[s].program = a[1]
    BY DEF AccountsHaveTenants
  <2>1. PICK s \in Tenants : tenant[s].program = a[1]
    BY DEF AccountsHaveTenants
  <2>2. a[1] # None
    BY CounterAssumption DEF Holdings
  <2> QED BY <2>1, <2>2, <1>2, <1>3, <1>6
<1>8. LinksHaveAccounts'
  <2> SUFFICES ASSUME NEW l \in cardLinks
               PROVE  tenant'[l.tenant].program = l.card[1] /\ account[l.card] # "none"
    BY DEF LinksHaveAccounts
  <2>1. l.tenant \in Tenants /\ l.card \in Holdings /\ l.card[1] # None
    BY CounterAssumption DEF ReceptionTypeOK, LinkRows, Holdings
  <2>2. tenant[l.tenant].program = l.card[1] /\ account[l.card] # "none"
    BY DEF LinksHaveAccounts
  <2> QED BY <2>1, <2>2, <1>2, <1>3, <1>6
<1>9. ReviewsAge'
  BY Touched, <1>2 DEF ReviewsAge, ReceptionTypeOK, ActorRows, TenantRows, RoleRows
<1> QED BY <1>1, <1>2, <1>3, <1>4, <1>5, <1>6, <1>7, <1>8, <1>9

\* A program is switched on or off.
LEMMA SwitchProgramKeeps ==
    ASSUME ReceptionInv, NEW p \in Programs, Reception!SwitchProgram(p)
    PROVE  ReceptionInv'
<1> USE DEF Reception!SwitchProgram, ReceptionInv
<1>1. ReceptionTypeOK'
  BY DEF ReceptionTypeOK
<1>2. OneTenantEach' /\ EnrolmentsHold' /\ AccountsHaveTenants' /\ LinksHaveAccounts' /\ ReviewsAge'
  BY DEF OneTenantEach, EnrolmentsHold, AccountsHaveTenants, LinksHaveAccounts, ReviewsAge
<1> QED BY <1>1, <1>2

\* An account is switched on or off, and stays an account.
LEMMA SwitchAccountKeeps ==
    ASSUME ReceptionInv, NEW a \in Holdings, Reception!SwitchAccount(a)
    PROVE  ReceptionInv'
<1> USE DEF Reception!SwitchAccount, ReceptionInv
<1>1. ReceptionTypeOK'
  BY DEF ReceptionTypeOK
<1>2. AccountsHaveTenants' /\ LinksHaveAccounts'
  BY DEF ReceptionTypeOK, AccountsHaveTenants, LinksHaveAccounts, LinkRows
<1>3. OneTenantEach' /\ EnrolmentsHold' /\ ReviewsAge'
  BY DEF OneTenantEach, EnrolmentsHold, ReviewsAge
<1> QED BY <1>1, <1>2, <1>3

\* Every step of the counter's membership part keeps the invariant.
LEMMA ReceptionStep == ReceptionInv /\ [Reception!Next]_(Reception!vars) => ReceptionInv'
<1> SUFFICES ASSUME ReceptionInv, [Reception!Next]_(Reception!vars) PROVE ReceptionInv'
  OBVIOUS
<1>1. CASE Reception!Next
  BY <1>1, StartEnrolmentKeeps, LockEnrolmentKeeps, InsertKeeps, CommitEnrolmentKeeps, LookupKeeps,
     ShowCustomerKeeps, LinkCustomerKeeps, DryRunKeeps, ApplyKeeps, ChangeActorKeeps,
        ChangeRoleKeeps,
     ChangeTenantKeeps, SwitchProgramKeeps, SwitchAccountKeeps
  DEF Reception!Next, Reception!Holders, Holdings
<1>2. CASE UNCHANGED Reception!vars
  BY <1>2 DEF Reception!vars, ReceptionInv, ReceptionTypeOK, OneTenantEach, EnrolmentsHold,
     AccountsHaveTenants, LinksHaveAccounts, ReviewsAge
<1> QED BY <1>1, <1>2

\* The inductive invariant of Membership: tenants, enrolments, accounts, links, reviews.
THEOREM ReceptionSafe == Reception!Spec => []ReceptionInv
BY ReceptionBegins, ReceptionStep, PTL DEF Reception!Spec

\* EnrolledProgramsStay: an account is only made while its program's tenant is held, and
\* no write takes the tenant away once there is one (membership-invariants.ts).
THEOREM EnrolledStay == Reception!Spec => []EnrolledProgramsStay
<1>1. ReceptionInv => EnrolledProgramsStay
  <2> SUFFICES ASSUME ReceptionInv PROVE EnrolledProgramsStay
    OBVIOUS
  <2>1. ASSUME NEW p \in Programs, Reception!Accounts(p) # {}
        PROVE  Cardinality(Reception!OwnersOf(p)) = 1
    <3>1. PICK t \in Tenants : tenant[t].program = p
      BY <2>1 DEF ReceptionInv, AccountsHaveTenants, Reception!Accounts, Reception!Holders, Holdings
    <3>2. Reception!OwnersOf(p) = {t}
      BY <3>1, CounterAssumption DEF ReceptionInv, OneTenantEach, Reception!OwnersOf
    <3> QED BY <3>2, FS_Singleton, ReceptionCounts
  <2>2. \A p \in Programs : Reception!Accounts(p) # {} => Reception!Cardinality(Reception!OwnersOf(p)) = 1
    BY <2>1, ReceptionCounts
  <2>3. \A l \in cardLinks : tenant[l.tenant].program = l.card[1]
    BY DEF ReceptionInv, LinksHaveAccounts
  <2> QED BY <2>2, <2>3 DEF EnrolledProgramsStay, Reception!EnrolledProgramsStay
<1> QED BY <1>1, ReceptionSafe, PTL DEF EnrolledProgramsStay

\* AppliesWhatWasReviewed: rows only get newer, and every write behind a review makes one
\* of the rows its hash binds newer, so an application with that hash finds none
\* (confirmationHash of membership-provision.ts).
THEOREM ReviewedIsApplied == Reception!Spec => AppliesWhatWasReviewed
<1>1. ReceptionInv /\ [Reception!Next]_(Reception!vars)
        => [Reception!Apply => ~reviewed.touched]_(Reception!vars)
  <2> SUFFICES ASSUME ReceptionInv, Reception!Apply PROVE ~reviewed.touched
    OBVIOUS
  <2>1. /\ reviewed.hash.actor = actor /\ reviewed.hash.tenant = tenant[reviewed.tenant]
        /\ reviewed.hash.role = role[reviewed.tenant] /\ reviewed # Reception!NothingReviewed
    BY DEF Reception!Apply, Reception!Hash
  <2> QED BY <2>1 DEF ReceptionInv, ReviewsAge, ActorRows, TenantRows, RoleRows
<1> QED BY <1>1, ReceptionSafe, PTL DEF Reception!Spec, AppliesWhatWasReviewed,
   Reception!AppliesWhatWasReviewed

-----------------------------------------------------------------------------
(* Receipts: the panel, the requests on their way, the key of an attempt    *)
(* and the outbox all carry the receipt the clerk agreed to.                *)

\* An attempt is named by the press it began with; what was agreed for it is known.
Agreed(id, receipt) == [press |-> id, receipt |-> receipt] \in agreed

\* The panel is a record, it has an attempt exactly while one is open, and its preview is
\* then what the clerk agreed to.
PanelIsAgreed ==
    /\ tries \in Nat
    /\ panel = [status |-> panel.status, version |-> panel.version, issuer |-> panel.issuer,
                preview |-> panel.preview, pdfReady |-> panel.pdfReady,
                confirmed |-> panel.confirmed, attempted |-> panel.attempted,
                attempt |-> panel.attempt, sent |-> panel.sent, waits |-> panel.waits]
    /\ panel.attempted \in BOOLEAN /\ panel.attempt \in Nat
    /\ panel.attempted <=> panel.attempt # 0
    /\ panel.attempted => Agreed(panel.attempt, panel.preview)

\* So is what requests ask for and what the messages are.
CallsAreAgreed == \A k \in mails : k.kind = "send" => Agreed(k.id, k.receipt)
MessagesAreAgreed == \A m \in outbox : Agreed(m.id, m.receipt)

\* No two messages are of one attempt; agreements are counted.
OneMessageEach ==
    /\ \A m, n \in outbox : m.id = n.id => m = n
    /\ IsFiniteSet(agreed)

MailInv == PanelIsAgreed /\ CallsAreAgreed /\ MessagesAreAgreed /\ OneMessageEach

\* An instance counts as its module does.
LEMMA MailCounts == ASSUME NEW S PROVE Mail!Cardinality(S) = Cardinality(S)
BY DEF Mail!Cardinality, Cardinality

\* Nothing is under way at first.
LEMMA MailBegins == Mail!Init => MailInv
<1> SUFFICES ASSUME Mail!Init PROVE MailInv
  OBVIOUS
<1>1. PanelIsAgreed
  BY DEF Mail!Init, Mail!Opened, PanelIsAgreed
<1>2. CallsAreAgreed /\ MessagesAreAgreed /\ OneMessageEach
  BY FS_EmptySet DEF Mail!Init, CallsAreAgreed, MessagesAreAgreed, OneMessageEach
<1> QED BY <1>1, <1>2 DEF MailInv

\* A panel just opened has no attempt.
LEMMA OpenKeeps == ASSUME MailInv, Mail!Open PROVE MailInv'
<1>1. PanelIsAgreed'
  BY DEF MailInv, PanelIsAgreed, Agreed, Mail!Open, Mail!Opened
<1>2. CallsAreAgreed' /\ MessagesAreAgreed' /\ OneMessageEach'
  BY DEF MailInv, CallsAreAgreed, MessagesAreAgreed, OneMessageEach, Agreed, Mail!Open, Mail!Opened
<1> QED BY <1>1, <1>2 DEF MailInv

\* The history is read again.
LEMMA RefreshHistoryKeeps == ASSUME MailInv, Mail!RefreshHistory PROVE MailInv'
<1>1. PanelIsAgreed'
  BY DEF MailInv, PanelIsAgreed, Agreed, Mail!RefreshHistory
<1>2. CallsAreAgreed' /\ MessagesAreAgreed' /\ OneMessageEach'
  BY DEF MailInv, CallsAreAgreed, MessagesAreAgreed, OneMessageEach, Agreed, Mail!RefreshHistory
<1> QED BY <1>1, <1>2 DEF MailInv

\* A preview is asked for.
LEMMA PrepareKeeps == ASSUME MailInv, Mail!Prepare PROVE MailInv'
<1>1. PanelIsAgreed'
  BY DEF MailInv, PanelIsAgreed, Agreed, Mail!Prepare, Mail!Post, Mail!Call
<1>2. CallsAreAgreed' /\ MessagesAreAgreed' /\ OneMessageEach'
  BY DEF MailInv, CallsAreAgreed, MessagesAreAgreed, OneMessageEach, Agreed, Mail!Prepare,
     Mail!Post, Mail!Call
<1> QED BY <1>1, <1>2 DEF MailInv

\* The preview is shown.
LEMMA ShowPdfKeeps == ASSUME MailInv, Mail!ShowPdf PROVE MailInv'
<1>1. PanelIsAgreed'
  BY DEF MailInv, PanelIsAgreed, Agreed, Mail!ShowPdf
<1>2. CallsAreAgreed' /\ MessagesAreAgreed' /\ OneMessageEach'
  BY DEF MailInv, CallsAreAgreed, MessagesAreAgreed, OneMessageEach, Agreed, Mail!ShowPdf
<1> QED BY <1>1, <1>2 DEF MailInv

\* The clerk confirms what is shown.
LEMMA ConfirmKeeps == ASSUME MailInv, Mail!Confirm PROVE MailInv'
<1>1. PanelIsAgreed'
  BY DEF MailInv, PanelIsAgreed, Agreed, Mail!Confirm
<1>2. CallsAreAgreed' /\ MessagesAreAgreed' /\ OneMessageEach'
  BY DEF MailInv, CallsAreAgreed, MessagesAreAgreed, OneMessageEach, Agreed, Mail!Confirm
<1> QED BY <1>1, <1>2 DEF MailInv

\* "Send" begins an attempt, with what is shown agreed to, or repeats one.
LEMMA SendKeeps == ASSUME MailInv, Mail!Send PROVE MailInv'
<1> DEFINE id == Mail!Attempt
           new == [press |-> tries + 1, receipt |-> panel.preview]
<1>1. /\ tries' = tries + 1 /\ UNCHANGED outbox
      /\ panel' = [[panel EXCEPT !.attempted = TRUE, !.attempt = id] EXCEPT !.waits = tries + 1]
      /\ agreed' = IF panel.attempted THEN agreed ELSE agreed \cup {new}
      /\ mails' = mails \cup {[Mail!Call("send", panel.preview, id) EXCEPT !.number = tries + 1]}
  BY DEF Mail!Send, Mail!Post
<1>2. panel.attempted => id = panel.attempt
  BY DEF MailInv, PanelIsAgreed, Mail!Attempt
<1>3. ~panel.attempted => id = tries + 1
  BY DEF MailInv, PanelIsAgreed, Mail!Attempt
<1>4. id \in Nat \ {0} /\ agreed \subseteq agreed'
  BY <1>1, <1>2, <1>3 DEF MailInv, PanelIsAgreed
<1>5. [press |-> id, receipt |-> panel.preview] \in agreed'
  BY <1>1, <1>2, <1>3 DEF MailInv, PanelIsAgreed, Agreed
<1>6. PanelIsAgreed'
  <2> HIDE DEF id
  <2>1. panel'.preview = panel.preview /\ panel'.attempt = id /\ panel'.attempted = TRUE
    BY <1>1 DEF MailInv, PanelIsAgreed
  <2>2. panel' = [status |-> panel.status, version |-> panel.version, issuer |-> panel.issuer,
                  preview |-> panel.preview, pdfReady |-> panel.pdfReady,
                  confirmed |-> panel.confirmed, attempted |-> TRUE,
                  attempt |-> id, sent |-> panel.sent, waits |-> tries + 1]
    BY <1>1 DEF MailInv, PanelIsAgreed
  <2>3. tries' \in Nat
    BY <1>1 DEF MailInv, PanelIsAgreed
  <2>4. panel' = [status |-> panel'.status, version |-> panel'.version, issuer |-> panel'.issuer,
                  preview |-> panel'.preview, pdfReady |-> panel'.pdfReady,
                  confirmed |-> panel'.confirmed, attempted |-> panel'.attempted,
                  attempt |-> panel'.attempt, sent |-> panel'.sent, waits |-> panel'.waits]
    BY <2>2
  <2> QED BY <1>4, <1>5, <2>1, <2>3, <2>4 DEF PanelIsAgreed, Agreed
<1>7. CallsAreAgreed'
  <2> SUFFICES ASSUME NEW k \in mails', k.kind = "send"
               PROVE  [press |-> k.id, receipt |-> k.receipt] \in agreed'
    BY DEF CallsAreAgreed, Agreed
  <2>1. CASE k \in mails
    BY <2>1, <1>4 DEF MailInv, CallsAreAgreed, Agreed
  <2>2. CASE k \notin mails
    BY <2>2, <1>1, <1>5 DEF Mail!Call
  <2> QED BY <2>1, <2>2
<1>8. MessagesAreAgreed' /\ OneMessageEach'
  BY <1>1, <1>4, FS_AddElement DEF MailInv, MessagesAreAgreed, OneMessageEach, Agreed
<1> QED BY <1>6, <1>7, <1>8 DEF MailInv

\* The attempt is given up together with its preview.
LEMMA ResetKeeps == ASSUME MailInv, Mail!Reset PROVE MailInv'
<1>1. PanelIsAgreed'
  BY DEF MailInv, PanelIsAgreed, Agreed, Mail!Reset
<1>2. CallsAreAgreed' /\ MessagesAreAgreed' /\ OneMessageEach'
  BY DEF MailInv, CallsAreAgreed, MessagesAreAgreed, OneMessageEach, Agreed, Mail!Reset
<1> QED BY <1>1, <1>2 DEF MailInv

\* A new preview or a refusal ends the attempt; nothing else touches the preview.
LEMMA ReceiveKeeps == ASSUME MailInv, Mail!Receive PROVE MailInv'
<1>1. PanelIsAgreed'
  BY DEF MailInv, PanelIsAgreed, Agreed, Mail!Receive, Mail!AfterRefusal
<1>2. CallsAreAgreed' /\ MessagesAreAgreed' /\ OneMessageEach'
  BY DEF MailInv, CallsAreAgreed, MessagesAreAgreed, OneMessageEach, Agreed, Mail!Receive,
     Mail!AfterRefusal
<1> QED BY <1>1, <1>2 DEF MailInv

\* The answer does not come.
LEMMA FailKeeps == ASSUME MailInv, Mail!Fail PROVE MailInv'
<1>1. PanelIsAgreed'
  BY DEF MailInv, PanelIsAgreed, Agreed, Mail!Fail
<1>2. CallsAreAgreed' /\ MessagesAreAgreed' /\ OneMessageEach'
  BY DEF MailInv, CallsAreAgreed, MessagesAreAgreed, OneMessageEach, Agreed, Mail!Fail
<1> QED BY <1>1, <1>2 DEF MailInv

\* A preview is answered.
LEMMA HandlePreviewKeeps == ASSUME MailInv, NEW k \in mails, Mail!HandlePreview(k) PROVE MailInv'
<1>1. PanelIsAgreed'
  BY DEF MailInv, PanelIsAgreed, Agreed, Mail!HandlePreview, Mail!Done
<1>2. CallsAreAgreed' /\ MessagesAreAgreed' /\ OneMessageEach'
  BY DEF MailInv, CallsAreAgreed, MessagesAreAgreed, OneMessageEach, Agreed,
     Mail!HandlePreview, Mail!Done
<1> QED BY <1>1, <1>2 DEF MailInv

\* A message is made of a request whose id has none yet, word for word.
LEMMA HandleSendKeeps == ASSUME MailInv, NEW k \in mails, Mail!HandleSend(k) PROVE MailInv'
<1> DEFINE message == [id |-> k.id, receipt |-> Mail!Receipt(k.receipt.fields, issuer)]
<1>1. /\ mails' = mails \ {k} /\ k.kind = "send" /\ UNCHANGED <<panel, tries, agreed>>
      /\ \/ outbox' = outbox
         \/ /\ outbox' = outbox \cup {message} /\ Mail!StillAsPreviewed(k)
            /\ {m \in outbox : m.id = k.id} = {}
  BY DEF Mail!HandleSend, Mail!Done
<1>2. Mail!StillAsPreviewed(k) => Agreed(message.id, message.receipt)
  BY <1>1 DEF Mail!StillAsPreviewed, MailInv, CallsAreAgreed
<1>3. PanelIsAgreed' /\ CallsAreAgreed'
  BY <1>1 DEF MailInv, PanelIsAgreed, CallsAreAgreed, Agreed
<1>4. MessagesAreAgreed' /\ OneMessageEach'
  <2> HIDE DEF message
  <2>1. message.id = k.id
    BY DEF message
  <2> QED BY <1>1, <1>2, <2>1 DEF MailInv, MessagesAreAgreed, OneMessageEach, Agreed
<1> QED BY <1>3, <1>4 DEF MailInv

\* A request is refused.
LEMMA DenyKeeps == ASSUME MailInv, NEW k \in mails, Mail!Deny(k) PROVE MailInv'
<1>1. PanelIsAgreed'
  BY DEF MailInv, PanelIsAgreed, Agreed, Mail!Deny, Mail!Done
<1>2. CallsAreAgreed' /\ MessagesAreAgreed' /\ OneMessageEach'
  BY DEF MailInv, CallsAreAgreed, MessagesAreAgreed, OneMessageEach, Agreed, Mail!Deny, Mail!Done
<1> QED BY <1>1, <1>2 DEF MailInv

\* The checkout goes on.
LEMMA SettleKeeps == ASSUME MailInv, Mail!Settle PROVE MailInv'
<1>1. PanelIsAgreed'
  BY DEF MailInv, PanelIsAgreed, Agreed, Mail!Settle
<1>2. CallsAreAgreed' /\ MessagesAreAgreed' /\ OneMessageEach'
  BY DEF MailInv, CallsAreAgreed, MessagesAreAgreed, OneMessageEach, Agreed, Mail!Settle
<1> QED BY <1>1, <1>2 DEF MailInv

\* The settings change.
LEMMA SaveSettingsKeeps == ASSUME MailInv, Mail!SaveSettings PROVE MailInv'
<1>1. PanelIsAgreed'
  BY DEF MailInv, PanelIsAgreed, Agreed, Mail!SaveSettings
<1>2. CallsAreAgreed' /\ MessagesAreAgreed' /\ OneMessageEach'
  BY DEF MailInv, CallsAreAgreed, MessagesAreAgreed, OneMessageEach, Agreed, Mail!SaveSettings
<1> QED BY <1>1, <1>2 DEF MailInv

\* Every step of the receipts keeps the invariant.
LEMMA MailStep == MailInv /\ [Mail!Next]_(Mail!vars) => MailInv'
<1> SUFFICES ASSUME MailInv, [Mail!Next]_(Mail!vars) PROVE MailInv'
  OBVIOUS
<1>1. CASE Mail!Next
  BY <1>1, OpenKeeps, RefreshHistoryKeeps, PrepareKeeps, ShowPdfKeeps, ConfirmKeeps, SendKeeps,
     ResetKeeps, ReceiveKeeps, FailKeeps, HandlePreviewKeeps, HandleSendKeeps, DenyKeeps,
     SettleKeeps, SaveSettingsKeeps
  DEF Mail!Next
<1>2. CASE UNCHANGED Mail!vars
  BY <1>2 DEF Mail!vars, MailInv, PanelIsAgreed, CallsAreAgreed, MessagesAreAgreed, OneMessageEach,
     Agreed
<1> QED BY <1>1, <1>2

\* The inductive invariant of Receipts: requests and messages are of agreed attempts.
THEOREM MailSafe == Mail!Spec => []MailInv
BY MailBegins, MailStep, PTL DEF Mail!Spec

\* SentAsConfirmed: each message names an agreement of its own about just this receipt
\* (receipt-email-routes.ts with the attempts of receipt-email.ts).
THEOREM QueuedAsConfirmed == Mail!Spec => []SentAsConfirmed
<1>1. MailInv => SentAsConfirmed
  <2> SUFFICES ASSUME MailInv PROVE SentAsConfirmed
    OBVIOUS
  <2>1. ASSUME NEW receipt
        PROVE  Cardinality({m \in outbox : m.receipt = receipt})
                 <= Cardinality({a \in agreed : a.receipt = receipt})
    <3> DEFINE M == {m \in outbox : m.receipt = receipt}
               A == {a \in agreed : a.receipt = receipt}
               f == [m \in M |-> [press |-> m.id, receipt |-> m.receipt]]
    <3>1. IsFiniteSet(A)
      BY FS_Subset DEF MailInv, OneMessageEach
    <3>2. f \in Injection(M, A)
      <4>1. \A m \in M : f[m] \in A
        BY DEF MailInv, MessagesAreAgreed, Agreed
      <4>2. \A m, n \in M : f[m] = f[n] => m = n
        <5> SUFFICES ASSUME NEW m \in M, NEW n \in M, f[m] = f[n] PROVE m = n
          OBVIOUS
        <5>1. f[m].press = m.id /\ f[n].press = n.id
          OBVIOUS
        <5> QED BY <5>1 DEF MailInv, OneMessageEach
      <4> QED BY <4>1, <4>2 DEF Injection, IsInjective
    <3> HIDE DEF M, A, f
    <3> QED BY <3>1, <3>2, FS_Injection DEF ExistsInjection, M, A
  <2> QED BY <2>1, MailCounts DEF SentAsConfirmed, Mail!SentAsConfirmed
<1> QED BY <1>1, MailSafe, PTL

-----------------------------------------------------------------------------
(* Till: what a press asked for stays the same under its key, on its way,   *)
(* on the server and on the way back, also when it is pressed again.        *)

DeskRows == [status : {"DRAFT", "FINALIZED", "REVERSED", "OPEN", "CLOSED"}, version : Nat,
         lines : Lines \cup {Fresh}]
DeskScreens == [shown : DeskRows, lines : Lines \cup {Fresh}, first : Entries, second : Entries,
            keys : [Desk!Keyed -> Nat], waits : Nat]
DeskStatuses == IF kind = "checkout" THEN {"DRAFT", "FINALIZED", "REVERSED"} ELSE {"OPEN", "CLOSED"}

\* what a request with a key asked for, as the log keeps it
Keyed(c) == [op |-> c.op, key |-> c.key, asked |-> c.asked]

\* Every variable stays in its domain; requests are of the kind of row there is.
DeskTypeOK ==
    /\ kind \in {"checkout", "register"} /\ presses \in Nat
    /\ row \in DeskRows /\ row.status \in DeskStatuses
    /\ screen \in DeskScreens
    /\ \A c \in pressed : c.op \in Desk!Ops /\ c.key \in Nat /\ c.lines \in Lines \cup {Fresh}
    /\ \A e \in log : e.op \in Desk!Ops \cap Desk!Keyed /\ e.key \in Nat /\ Keyed(e) = e
    /\ told # Desk!NoAnswer => told.op \in Desk!Ops /\ told.row \in DeskRows /\ told.done \in BOOLEAN

\* r was the row at some time when it is now: r is now, or older; a row once finalized is
\* left only by its reversal.
WasRow(r, now) ==
    /\ r \in DeskRows /\ r.version <= now.version
    /\ r.version = now.version => r = now
    /\ r.status = "FINALIZED" => r = now \/ now.status = "REVERSED"

\* What the screen shows, what was pressed over and what is answered was the row.
RowsWere ==
    /\ WasRow(screen.shown, row)
    /\ \A c \in pressed : WasRow(c.over, row) /\ c.over.status = Desk!Before(c.op)
    /\ told # Desk!NoAnswer => WasRow(told.row, row)

\* The requests with a key, under way or carried out.
UnderKeys == {Keyed(c) : c \in {d \in pressed : d.op \in Desk!Keyed}} \cup log

\* A key is of one request, and of no press to come.
OneRequestEach ==
    /\ \A x, y \in UnderKeys : x.op = y.op /\ x.key = y.key => x.asked = y.asked
    /\ \A x \in UnderKeys : x.key \in 1 .. presses
    /\ \A op \in Desk!Keyed : screen.keys[op] <= presses

\* Pressed again, a button asks what its key has asked already.
KeysAreKept ==
    \A x \in UnderKeys :
       /\ x.key = screen.keys[x.op]
       /\ x.op = "reverse" \/ screen.shown.status = Desk!Before(x.op)
       => x.asked = Desk!Asked(x.op)

\* What was carried out shows in the row, and in the answer.
Shows(op, status) ==
    /\ op \in {"finalize", "reverse"} => status # "DRAFT"
    /\ op = "close" => status # "OPEN"
DoneShows ==
    /\ \A e \in log : Shows(e.op, row.status)
    /\ told # Desk!NoAnswer /\ told.done => Shows(told.op, told.row.status)

DeskInv == DeskTypeOK /\ RowsWere /\ OneRequestEach /\ KeysAreKept /\ DoneShows

\* What an operation is asked of and what it leaves are statuses of the kind, in their order.
LEMMA StatusesInOrder ==
    ASSUME kind \in {"checkout", "register"}, NEW op \in Desk!Ops
    PROVE  /\ Desk!Before(op) \in DeskStatuses /\ Desk!After(op) \in DeskStatuses
           /\ Desk!Before(op) = "FINALIZED" <=> op = "reverse"
           /\ Desk!Before(op) \notin {"REVERSED", "CLOSED"}
           /\ Desk!After(op) = "FINALIZED" => Desk!Before(op) = "DRAFT"
           /\ Desk!After(op) = "DRAFT" => Desk!Before(op) = "DRAFT"
           /\ Desk!After(op) = "OPEN" => Desk!Before(op) = "OPEN"
           /\ op = "reverse" => Desk!After(op) = "REVERSED"
           /\ Shows(op, Desk!After(op))
BY DEF Desk!Ops, Desk!Before, Desk!After, DeskStatuses, Shows

\* the row changes by an operation
Moves(op) ==
    /\ op \in Desk!Ops /\ row.status = Desk!Before(op)
    /\ row' \in DeskRows /\ row'.version = row.version + 1 /\ row'.status = Desk!After(op)

\* A row of the past stays one.
LEMMA PastStays ==
    ASSUME DeskTypeOK, NEW op, Moves(op), NEW r, WasRow(r, row)
    PROVE  WasRow(r, row')
BY StatusesInOrder DEF DeskTypeOK, Moves, WasRow, DeskRows

\* What was carried out still shows.
LEMMA ShownStays ==
    ASSUME DeskTypeOK, NEW op, Moves(op), NEW done \in Desk!Ops, Shows(done, row.status)
    PROVE  Shows(done, row'.status)
BY StatusesInOrder DEF DeskTypeOK, Moves, Shows

\* A step that adds no request with a key and leaves the screen's questions alone keeps
\* what is known of keys.
LEMMA FewerKeys ==
    ASSUME DeskInv, UnderKeys' \subseteq UnderKeys, UNCHANGED <<kind, presses>>,
           screen'.keys = screen.keys, screen'.shown = screen.shown,
           screen'.first = screen.first, screen'.second = screen.second
    PROVE  OneRequestEach' /\ KeysAreKept'
<1>1. OneRequestEach'
  BY DEF DeskInv, OneRequestEach
<1>2. \A op : Desk!Asked(op)' = Desk!Asked(op) \/ op \notin Desk!Keyed
  BY DEF Desk!Asked, Desk!Keyed
<1>3. \A x \in UnderKeys : x.op \in Desk!Keyed
  BY DEF UnderKeys, Keyed, DeskInv, DeskTypeOK
<1>4. KeysAreKept'
  BY <1>2, <1>3 DEF DeskInv, KeysAreKept, Desk!Before
<1> QED BY <1>1, <1>4

\* A screen just opened shows the row and has no keys.
LEMMA DeskBegins == Desk!Init => DeskInv
<1> SUFFICES ASSUME Desk!Init PROVE DeskInv
  OBVIOUS
<1> PICK e \in Entries :
       screen = [shown |-> row, lines |-> Fresh, first |-> e, second |-> e,
                 keys |-> [op \in Desk!Keyed |-> 0], waits |-> 0]
  BY DEF Desk!Init
<1> USE DEF Desk!Init
<1>1. row \in DeskRows
  BY DEF DeskRows
<1>2. DeskTypeOK
  BY <1>1 DEF DeskTypeOK, DeskScreens, DeskStatuses, DeskRows
<1>3. RowsWere
  BY <1>1 DEF RowsWere, WasRow, DeskRows
<1>4. UnderKeys = {}
  BY DEF UnderKeys
<1>5. OneRequestEach /\ KeysAreKept /\ DoneShows
  BY <1>4 DEF OneRequestEach, KeysAreKept, DoneShows, Desk!Keyed
<1> QED BY <1>2, <1>3, <1>5 DEF DeskInv

\* The lines on the screen change.
LEMMA EditKeeps == ASSUME DeskInv, Desk!Edit PROVE DeskInv'
<1>1. PICK l \in Lines : screen' = [screen EXCEPT !.lines = l]
  BY DEF Desk!Edit
<1>2. UNCHANGED <<kind, row, log, pressed, told, presses>>
  BY DEF Desk!Edit
<1>3. screen \in DeskScreens
  BY DEF DeskInv, DeskTypeOK
<1>4. DeskTypeOK'
  BY <1>1, <1>2, <1>3 DEF DeskInv, DeskTypeOK, DeskScreens, DeskStatuses, Desk!Ops
<1>5. RowsWere' /\ DoneShows'
  BY <1>1, <1>2, <1>3 DEF DeskInv, RowsWere, WasRow, DoneShows, DeskScreens, Desk!Before
<1>6. OneRequestEach' /\ KeysAreKept'
  BY <1>1, <1>2, <1>3, FewerKeys DEF UnderKeys, DeskScreens
<1> QED BY <1>4, <1>5, <1>6 DEF DeskInv

\* Something else is typed: the keys of what would be asked with it are given up.
LEMMA EnterKeeps ==
    ASSUME DeskInv, Desk!EnterFirst \/ Desk!EnterSecond PROVE DeskInv'
<1>1. UNCHANGED <<kind, row, log, pressed, told, presses>>
  BY DEF Desk!EnterFirst, Desk!EnterSecond
<1>2. screen \in DeskScreens
  BY DEF DeskInv, DeskTypeOK
<1>3. PICK e \in Entries, ops \in SUBSET Desk!Keyed :
        \/ /\ screen' = [screen EXCEPT !.first = e, !.keys = Desk!Forget(ops)]
           /\ ops = IF kind = "checkout" THEN {"finalize", "reverse"} ELSE {"move"}
        \/ /\ screen' = [screen EXCEPT !.second = e, !.keys = Desk!Forget(ops)]
           /\ ops = IF kind = "checkout" THEN {"reverse"} ELSE {"close"}
  <2>1. CASE Desk!EnterFirst
    <3> DEFINE ops == IF kind = "checkout" THEN {"finalize", "reverse"} ELSE {"move"}
    <3>1. ops \in SUBSET Desk!Keyed
      BY DEF Desk!Keyed
    <3> QED BY <2>1, <3>1 DEF Desk!EnterFirst
  <2>2. CASE Desk!EnterSecond
    <3>1. Desk!GivenUp \in SUBSET Desk!Keyed
      BY DEF Desk!Keyed, Desk!GivenUp
    <3> QED BY <2>2, <3>1 DEF Desk!EnterSecond, Desk!GivenUp
  <2> QED BY <2>1, <2>2
<1>4. /\ screen' \in DeskScreens /\ screen'.shown = screen.shown
      /\ \A op \in Desk!Keyed : screen'.keys[op] = IF op \in ops THEN 0 ELSE screen.keys[op]
  <2>1. /\ Desk!Forget(ops) \in [Desk!Keyed -> Nat]
        /\ \A op \in Desk!Keyed : Desk!Forget(ops)[op] = IF op \in ops THEN 0 ELSE screen.keys[op]
    BY <1>2 DEF DeskScreens, Desk!Forget
  <2> DEFINE keys == Desk!Forget(ops)
  <2> HIDE DEF keys
  <2>2. \/ screen' = [screen EXCEPT !.first = e, !.keys = keys]
        \/ screen' = [screen EXCEPT !.second = e, !.keys = keys]
    BY <1>3 DEF keys
  <2>3. keys \in [Desk!Keyed -> Nat]
    BY <2>1 DEF keys
  <2>4. screen' \in DeskScreens /\ screen'.shown = screen.shown /\ screen'.keys = keys
    BY <1>2, <2>2, <2>3 DEF DeskScreens
  <2> QED BY <2>1, <2>4 DEF keys
<1>5. DeskTypeOK'
  BY <1>1, <1>4 DEF DeskInv, DeskTypeOK, DeskStatuses, Desk!Ops
<1>6. RowsWere' /\ DoneShows'
  BY <1>1, <1>4 DEF DeskInv, RowsWere, WasRow, DoneShows, Desk!Before
<1>7. UnderKeys' = UnderKeys
  BY <1>1 DEF UnderKeys
<1>8. OneRequestEach'
  BY <1>1, <1>2, <1>4, <1>7 DEF DeskInv, DeskTypeOK, DeskScreens, OneRequestEach
<1>9. KeysAreKept'
  <2> SUFFICES ASSUME NEW x \in UnderKeys, x.key = screen'.keys[x.op],
                      x.op = "reverse" \/ screen'.shown.status = Desk!Before(x.op)
               PROVE  x.asked = Desk!Asked(x.op)'
    BY <1>7 DEF KeysAreKept, Desk!Before
  <2>1. x.op \in Desk!Ops \cap Desk!Keyed /\ x.key \in 1 .. presses
    BY DEF DeskInv, DeskTypeOK, OneRequestEach, UnderKeys, Keyed
  <2>2. x.op \notin ops /\ x.key = screen.keys[x.op]
    BY <1>4, <2>1
  <2>3. x.asked = Desk!Asked(x.op)
    BY <1>4, <2>2 DEF DeskInv, KeysAreKept
  <2>4. screen'.shown = screen.shown /\ (screen'.first = screen.first \/ screen'.second = screen.second)
    BY <1>2, <1>3 DEF DeskScreens
  <2> QED BY <1>2, <1>3, <2>1, <2>2, <2>3, <2>4 DEF Desk!Asked, Desk!Ops, Desk!Keyed, DeskScreens
<1> QED BY <1>5, <1>6, <1>8, <1>9 DEF DeskInv

\* A button is pressed: the request asks what its key has asked, or has a new key.
LEMMA PressKeeps == ASSUME DeskInv, NEW op \in Desk!Ops, Desk!Press(op) PROVE DeskInv'
<1> DEFINE key == Desk!Key(op)
           new == [number |-> presses + 1, op |-> op, key |-> key, asked |-> Desk!Asked(op),
                   over |-> screen.shown, lines |-> screen.lines]
<1>1. /\ presses' = presses + 1 /\ pressed' = pressed \cup {new}
      /\ screen' = [screen EXCEPT !.waits = presses + 1,
                       !.keys = [k \in Desk!Keyed |-> IF k = op THEN key ELSE screen.keys[k]]]
      /\ UNCHANGED <<kind, row, log, told>> /\ screen.shown.status = Desk!Before(op)
  BY DEF Desk!Press, Desk!Offered, DeskInv, DeskTypeOK, DeskScreens
<1>2. screen \in DeskScreens /\ presses \in Nat
  BY DEF DeskInv, DeskTypeOK
<1>3. /\ key \in Nat /\ key <= presses + 1
      /\ op \in Desk!Keyed => key = IF screen.keys[op] # 0 THEN screen.keys[op] ELSE presses + 1
  BY <1>2 DEF Desk!Key, DeskScreens, DeskInv, OneRequestEach
<1> HIDE DEF key
<1>4. /\ screen' \in DeskScreens /\ screen'.shown = screen.shown
      /\ screen'.first = screen.first /\ screen'.second = screen.second
      /\ \A k \in Desk!Keyed : screen'.keys[k] = IF k = op THEN key ELSE screen.keys[k]
  <2> DEFINE keys == [k \in Desk!Keyed |-> IF k = op THEN key ELSE screen.keys[k]]
  <2>1. keys \in [Desk!Keyed -> Nat]
    BY <1>2, <1>3 DEF DeskScreens
  <2>2. \A k \in Desk!Keyed : keys[k] = IF k = op THEN key ELSE screen.keys[k]
    OBVIOUS
  <2>3. screen' = [screen EXCEPT !.waits = presses + 1, !.keys = keys]
    BY <1>1
  <2> HIDE DEF keys
  <2> DEFINE waits == presses + 1
  <2>4. waits \in Nat /\ screen' = [screen EXCEPT !.waits = waits, !.keys = keys]
    BY <1>2, <2>3
  <2> HIDE DEF waits
  <2>5. /\ screen' \in DeskScreens /\ screen'.keys = keys /\ screen'.shown = screen.shown
        /\ screen'.first = screen.first /\ screen'.second = screen.second
    BY <1>2, <2>1, <2>4 DEF DeskScreens
  <2> QED BY <2>2, <2>5
<1>5. DeskTypeOK'
  <2>1. new.op \in Desk!Ops /\ new.key \in Nat /\ new.lines \in Lines \cup {Fresh}
    BY <1>2, <1>3 DEF DeskScreens
  <2>2. \A c \in pressed' : c.op \in Desk!Ops /\ c.key \in Nat /\ c.lines \in Lines \cup {Fresh}
    BY <1>1, <2>1 DEF DeskInv, DeskTypeOK
  <2>3. Desk!Ops' = Desk!Ops
    BY <1>1 DEF Desk!Ops
  <2> QED BY <1>1, <1>2, <1>4, <2>2, <2>3 DEF DeskInv, DeskTypeOK, DeskStatuses
<1>6. RowsWere' /\ DoneShows'
  BY <1>1, <1>4 DEF DeskInv, RowsWere, WasRow, DoneShows, Desk!Before
<1>7. UnderKeys' \subseteq UnderKeys \cup (IF op \in Desk!Keyed THEN {Keyed(new)} ELSE {})
  BY <1>1 DEF UnderKeys
<1>8. \A x \in UnderKeys : x.op \in Desk!Keyed /\ x.key \in 1 .. presses
  BY DEF UnderKeys, Keyed, DeskInv, DeskTypeOK, OneRequestEach
<1>9. Keyed(new).op = op /\ Keyed(new).key = key /\ Keyed(new).asked = Desk!Asked(op)
  BY DEF Keyed
<1>10. ASSUME NEW x \in UnderKeys, x.op = op, x.key = key
       PROVE  x.asked = Desk!Asked(op)
  <2>1. op \in Desk!Keyed /\ x.key <= presses
    BY <1>8, <1>10
  <2>2. x.key = screen.keys[op]
    BY <1>2, <1>3, <1>10, <2>1
  <2> QED BY <1>1, <1>10, <2>2 DEF DeskInv, KeysAreKept
<1>11. OneRequestEach'
  <2>1. ASSUME NEW x \in UnderKeys', NEW y \in UnderKeys', x.op = y.op, x.key = y.key
        PROVE  x.asked = y.asked
    BY <2>1, <1>7, <1>9, <1>10 DEF DeskInv, OneRequestEach
  <2>2. \A x \in UnderKeys' : x.key \in 1 .. presses'
    <3> SUFFICES ASSUME NEW x \in UnderKeys' PROVE x.key \in 1 .. presses'
      OBVIOUS
    <3>1. CASE x \in UnderKeys
      BY <3>1, <1>1, <1>2, <1>8
    <3>2. CASE x \notin UnderKeys
      <4>1. op \in Desk!Keyed /\ x.key = key
        BY <3>2, <1>7, <1>9
      <4>2. screen.keys[op] \in Nat
        BY <1>2, <4>1 DEF DeskScreens
      <4> QED BY <4>1, <4>2, <1>1, <1>2, <1>3
    <3> QED BY <3>1, <3>2
  <2>3. \A k \in Desk!Keyed : screen'.keys[k] <= presses'
    <3> SUFFICES ASSUME NEW k \in Desk!Keyed PROVE screen'.keys[k] <= presses'
      OBVIOUS
    <3>1. screen.keys[k] \in Nat /\ screen.keys[k] <= presses
      BY <1>2 DEF DeskScreens, DeskInv, OneRequestEach
    <3> QED BY <3>1, <1>1, <1>2, <1>3, <1>4
  <2> QED BY <2>1, <2>2, <2>3 DEF OneRequestEach
<1>12. KeysAreKept'
  <2> SUFFICES ASSUME NEW x \in UnderKeys', x.key = screen'.keys[x.op],
                      x.op = "reverse" \/ screen'.shown.status = Desk!Before(x.op)
               PROVE  x.asked = Desk!Asked(x.op)'
    BY DEF KeysAreKept, Desk!Before
  <2>1. x.op \in Desk!Keyed
    BY <1>7, <1>8, <1>9
  <2>2. Desk!Asked(x.op)' = Desk!Asked(x.op)
    BY <1>4, <2>1 DEF Desk!Asked, Desk!Keyed
  <2>3. CASE x \notin UnderKeys
    BY <2>2, <2>3, <1>7, <1>9
  <2>4. CASE x \in UnderKeys /\ x.op = op
    BY <2>1, <2>2, <2>4, <1>4, <1>10
  <2>5. CASE x \in UnderKeys /\ x.op # op
    BY <2>1, <2>2, <2>5, <1>4 DEF DeskInv, KeysAreKept
  <2> QED BY <2>3, <2>4, <2>5
<1> QED BY <1>5, <1>6, <1>11, <1>12 DEF DeskInv

\* The answer arrives.  Keys whose question the new row would change are given up, and
\* what was carried out cannot be asked of the new row.
LEMMA DeskReceiveKeeps == ASSUME DeskInv, Desk!Receive PROVE DeskInv'
<1>1. /\ told # Desk!NoAnswer /\ told' = Desk!NoAnswer
      /\ UNCHANGED <<kind, row, log, pressed, presses>>
      /\ IF told.done
         THEN screen' = [screen EXCEPT !.shown = told.row, !.lines = told.row.lines, !.waits = 0,
                                       !.keys = Desk!KeysAfter(told.op)]
         ELSE screen' = [screen EXCEPT !.waits = 0]
  BY DEF Desk!Receive, Desk!Replaced
<1>2. screen \in DeskScreens /\ told.op \in Desk!Ops /\ told.row \in DeskRows /\ WasRow(told.row, row)
  BY <1>1 DEF DeskInv, DeskTypeOK, RowsWere
<1> DEFINE given == CASE told.op \in {"save", "refresh"} -> {"finalize"}
                      [] told.op = "move" -> {"move", "close"} [] OTHER -> {}
<1>3. /\ Desk!KeysAfter(told.op) \in [Desk!Keyed -> Nat]
      /\ \A k \in Desk!Keyed : Desk!KeysAfter(told.op)[k] = IF k \in given THEN 0 ELSE screen.keys[k]
  BY <1>2 DEF Desk!KeysAfter, Desk!Forget, DeskScreens
<1>4. /\ screen' \in DeskScreens /\ screen'.first = screen.first /\ screen'.second = screen.second
      /\ IF told.done THEN screen'.shown = told.row /\ screen'.keys = Desk!KeysAfter(told.op)
         ELSE screen'.shown = screen.shown /\ screen'.keys = screen.keys
  <2> DEFINE keys == Desk!KeysAfter(told.op)
  <2> HIDE DEF keys
  <2>1. keys \in [Desk!Keyed -> Nat] /\ told.row.lines \in Lines \cup {Fresh}
    BY <1>2, <1>3 DEF keys, DeskRows
  <2>2. IF told.done
        THEN screen' = [screen EXCEPT !.shown = told.row, !.lines = told.row.lines, !.waits = 0,
                                      !.keys = keys]
        ELSE screen' = [screen EXCEPT !.waits = 0]
    BY <1>1 DEF keys
  <2>3. /\ screen' \in DeskScreens /\ screen'.first = screen.first /\ screen'.second = screen.second
        /\ IF told.done THEN screen'.shown = told.row /\ screen'.keys = keys
           ELSE screen'.shown = screen.shown /\ screen'.keys = screen.keys
    <3>1. CASE told.done
      <4> DEFINE lines == told.row.lines
                 new == told.row
      <4>1. screen' = [screen EXCEPT !.shown = new, !.lines = lines, !.waits = 0, !.keys = keys]
        BY <2>2, <3>1
      <4>2. new \in DeskRows /\ lines \in Lines \cup {Fresh}
        BY <1>2, <2>1
      <4> HIDE DEF lines, new
      <4>3. /\ screen' \in DeskScreens /\ screen'.first = screen.first /\ screen'.second = screen.second
            /\ screen'.shown = new /\ screen'.keys = keys
        BY <1>2, <2>1, <4>1, <4>2 DEF DeskScreens
      <4> QED BY <3>1, <4>3 DEF new
    <3>2. CASE ~told.done
      BY <1>2, <2>2, <3>2 DEF DeskScreens
    <3> QED BY <3>1, <3>2
  <2> QED BY <2>3 DEF keys
<1>5. DeskTypeOK'
  BY <1>1, <1>4 DEF DeskInv, DeskTypeOK, DeskStatuses, Desk!Ops
<1>6. RowsWere' /\ DoneShows'
  BY <1>1, <1>2, <1>4 DEF DeskInv, RowsWere, WasRow, DoneShows, Desk!Before
<1>7. UnderKeys' = UnderKeys
  BY <1>1 DEF UnderKeys
<1>8. CASE ~told.done
  <2>1. OneRequestEach' /\ KeysAreKept'
    BY <1>1, <1>4, <1>7, <1>8, FewerKeys
  <2> QED BY <2>1, <1>5, <1>6 DEF DeskInv
<1>9. CASE told.done
  <2>1. \A k \in Desk!Keyed : screen'.keys[k] = IF k \in given THEN 0 ELSE screen.keys[k]
    BY <1>3, <1>4, <1>9
  <2>2. OneRequestEach'
    BY <1>1, <1>2, <1>7, <2>1 DEF DeskInv, DeskTypeOK, DeskScreens, OneRequestEach
  <2>3. KeysAreKept'
    <3> SUFFICES ASSUME NEW x \in UnderKeys, x.key = screen'.keys[x.op],
                        x.op = "reverse" \/ told.row.status = Desk!Before(x.op)
                 PROVE  x.asked = Desk!Asked(x.op)'
      BY <1>4, <1>7, <1>9 DEF KeysAreKept, Desk!Before
    <3>1. x.op \in Desk!Ops \cap Desk!Keyed /\ x.key \in 1 .. presses
      BY DEF DeskInv, DeskTypeOK, OneRequestEach, UnderKeys, Keyed
    <3>2. x.op \notin given /\ x.key = screen.keys[x.op]
      BY <2>1, <3>1
    <3>3. Shows(told.op, told.row.status)
      BY <1>1, <1>9 DEF DeskInv, DoneShows
    <3>4. x.op = "reverse"
      BY <1>2, <3>1, <3>2, <3>3 DEF Shows, Desk!Ops, Desk!Keyed, Desk!Before
    <3>5. x.asked = Desk!Asked(x.op)
      BY <3>2, <3>4 DEF DeskInv, KeysAreKept
    <3> QED BY <3>4, <3>5, <1>4 DEF Desk!Asked
  <2> QED BY <2>2, <2>3, <1>5, <1>6 DEF DeskInv
<1> QED BY <1>8, <1>9

\* The clerk is told that it failed: requests are lost or stay.
LEMMA FailedKeeps == ASSUME DeskInv, Desk!Fail PROVE DeskInv'
<1>1. /\ UNCHANGED <<kind, row, log, presses>> /\ pressed' \subseteq pressed
      /\ told' = Desk!NoAnswer /\ screen' = [screen EXCEPT !.waits = 0]
  BY DEF Desk!Fail
<1>2. screen \in DeskScreens
  BY DEF DeskInv, DeskTypeOK
<1>3. /\ screen' \in DeskScreens /\ screen'.shown = screen.shown /\ screen'.keys = screen.keys
      /\ screen'.first = screen.first /\ screen'.second = screen.second
  BY <1>1, <1>2 DEF DeskScreens
<1>4. DeskTypeOK'
  BY <1>1, <1>3 DEF DeskInv, DeskTypeOK, DeskStatuses, Desk!Ops
<1>5. RowsWere' /\ DoneShows'
  BY <1>1, <1>3 DEF DeskInv, RowsWere, WasRow, DoneShows, Desk!Before
<1>6. UnderKeys' \subseteq UnderKeys
  BY <1>1 DEF UnderKeys
<1> QED BY <1>1, <1>3, <1>4, <1>5, <1>6, FewerKeys DEF DeskInv

\* The screen is loaded again, and asks under new keys.
LEMMA ReloadKeeps == ASSUME DeskInv, Desk!Reload PROVE DeskInv'
<1> DEFINE keys == Desk!Forget(Desk!Keyed)
           lines == row.lines
<1>1. /\ UNCHANGED <<kind, row, log, pressed, told, presses>>
      /\ screen' = [screen EXCEPT !.shown = row, !.lines = lines, !.waits = 0, !.keys = keys]
  BY DEF Desk!Reload, Desk!Replaced
<1>2. /\ keys \in [Desk!Keyed -> Nat] /\ \A k \in Desk!Keyed : keys[k] = 0
  BY DEF Desk!Forget
<1>3. screen \in DeskScreens /\ row \in DeskRows /\ lines \in Lines \cup {Fresh} /\ presses \in Nat
  BY DEF DeskInv, DeskTypeOK, DeskRows
<1> HIDE DEF keys, lines
<1>4. screen' \in DeskScreens /\ screen'.shown = row /\ screen'.keys = keys
  BY <1>1, <1>2, <1>3 DEF DeskScreens
<1>5. DeskTypeOK'
  BY <1>1, <1>4 DEF DeskInv, DeskTypeOK, DeskStatuses, Desk!Ops
<1>6. RowsWere' /\ DoneShows'
  BY <1>1, <1>3, <1>4 DEF DeskInv, RowsWere, WasRow, DoneShows, Desk!Before, DeskRows
<1>7. UnderKeys' = UnderKeys
  BY <1>1 DEF UnderKeys
<1>8. \A x \in UnderKeys : x.op \in Desk!Keyed /\ x.key \in 1 .. presses
  BY DEF UnderKeys, Keyed, DeskInv, DeskTypeOK, OneRequestEach
<1>9. OneRequestEach' /\ KeysAreKept'
  BY <1>1, <1>2, <1>3, <1>4, <1>7, <1>8 DEF DeskInv, OneRequestEach, KeysAreKept
<1> QED BY <1>5, <1>6, <1>9 DEF DeskInv

\* c is answered: with done and the row new
DeskAnswers(c, done, new) ==
    /\ pressed' = pressed \ {c}
    /\ told' = told \/ /\ told'.op = c.op /\ told'.done = done /\ told'.row = new

\* A request is answered and the row changes by it, or neither it nor the log does.
LEMMA AnswerKeeps ==
    ASSUME DeskInv, NEW c \in pressed, NEW done \in BOOLEAN, DeskAnswers(c, done, row'),
           UNCHANGED <<kind, screen, presses>>,
           \/ UNCHANGED <<row, log>> /\ (done => Shows(c.op, row.status))
           \/ /\ Moves(c.op)
              /\ log' = log \cup (IF c.op \in Desk!Keyed THEN {Keyed(c)} ELSE {})
    PROVE  DeskInv'
<1>1. c.op \in Desk!Ops /\ c.key \in Nat
  BY DEF DeskInv, DeskTypeOK
<1>2. row' \in DeskRows /\ row'.status \in DeskStatuses
  BY <1>1, StatusesInOrder DEF DeskInv, DeskTypeOK, Moves
<1>3. \A r : WasRow(r, row) => WasRow(r, row')
  BY PastStays DEF DeskInv
<1>4. \A op \in Desk!Ops : Shows(op, row.status) => Shows(op, row'.status)
  BY ShownStays DEF DeskInv
<1>5. done => Shows(c.op, row'.status)
  BY <1>1, StatusesInOrder DEF Moves, DeskInv, DeskTypeOK
<1>6. DeskTypeOK'
  <2>1. DeskStatuses' = DeskStatuses /\ Desk!Ops' = Desk!Ops
    BY DEF DeskStatuses, Desk!Ops
  <2>2. \A e \in log' : e.op \in Desk!Ops \cap Desk!Keyed /\ e.key \in Nat /\ Keyed(e) = e
    BY <1>1 DEF DeskInv, DeskTypeOK, Keyed
  <2>3. told' # Desk!NoAnswer => told'.op \in Desk!Ops /\ told'.row \in DeskRows /\ told'.done \in BOOLEAN
    BY <1>1, <1>2 DEF DeskInv, DeskTypeOK, DeskAnswers
  <2> QED BY <1>2, <2>1, <2>2, <2>3 DEF DeskInv, DeskTypeOK, DeskAnswers
<1>7. RowsWere'
  <2>1. /\ WasRow(screen.shown, row)'
        /\ \A d \in pressed' : WasRow(d.over, row)' /\ d.over.status = Desk!Before(d.op)
    <3>1. \A d \in pressed : WasRow(d.over, row) /\ d.over.status = Desk!Before(d.op)
      BY DEF DeskInv, RowsWere
    <3>2. WasRow(screen.shown, row)
      BY DEF DeskInv, RowsWere
    <3>3. WasRow(screen.shown, row)'
      BY <1>3, <3>2
    <3>4. ASSUME NEW d \in pressed' PROVE WasRow(d.over, row)' /\ d.over.status = Desk!Before(d.op)
      BY <1>3, <3>1 DEF DeskAnswers
    <3> QED BY <3>3, <3>4
  <2>2. told' # Desk!NoAnswer => WasRow(told.row, row)'
    <3>1. CASE told' = told
      <4> SUFFICES ASSUME told # Desk!NoAnswer PROVE WasRow(told.row, row)'
        BY <3>1 DEF Desk!NoAnswer
      <4>1. WasRow(told.row, row)
        BY DEF DeskInv, RowsWere
      <4> QED BY <3>1, <4>1, <1>3
    <3>2. CASE told'.row = row'
      BY <3>2, <1>2 DEF WasRow, DeskRows
    <3> QED BY <3>1, <3>2 DEF DeskAnswers
  <2> QED BY <2>1, <2>2 DEF RowsWere, Desk!Before
<1>8. UnderKeys' \subseteq UnderKeys
  BY DEF UnderKeys, DeskAnswers
<1>9. OneRequestEach' /\ KeysAreKept'
  BY <1>8, FewerKeys
<1>10. DoneShows'
  <2>1. \A e \in log' : Shows(e.op, row'.status)
    <3> SUFFICES ASSUME NEW e \in log' PROVE Shows(e.op, row'.status)
      OBVIOUS
    <3>1. CASE e \in log
      BY <3>1, <1>4 DEF DeskInv, DeskTypeOK, DoneShows
    <3>2. CASE e \notin log
      <4>1. e.op = c.op /\ Moves(c.op)
        BY <3>2 DEF Keyed
      <4> QED BY <4>1, StatusesInOrder DEF Moves, DeskInv, DeskTypeOK
    <3> QED BY <3>1, <3>2
  <2>2. told' # Desk!NoAnswer /\ told'.done => Shows(told'.op, told'.row.status)
    BY <1>5 DEF DeskInv, DoneShows, DeskAnswers
  <2> QED BY <2>1, <2>2 DEF DoneShows, Shows
<1> QED BY <1>6, <1>7, <1>9, <1>10 DEF DeskInv

\* What the handler does with a request.
LEMMA HandleIs ==
    ASSUME DeskInv, NEW c \in pressed, Desk!Handle(c)
    PROVE  /\ UNCHANGED <<kind, screen, presses>>
           /\ \E done \in BOOLEAN :
                 /\ DeskAnswers(c, done, row')
                 /\ \/ UNCHANGED <<row, log>> /\ (done => Shows(c.op, row.status))
                    \/ /\ Moves(c.op) /\ Desk!Acceptable(c) /\ row' = Desk!Result(c)
                       /\ log' = log \cup (IF c.op \in Desk!Keyed THEN {Keyed(c)} ELSE {})
<1>1. UNCHANGED <<kind, screen, presses>>
  BY DEF Desk!Handle
<1>2. ASSUME NEW done, NEW new, Desk!Reply(c, done, new) PROVE DeskAnswers(c, done, new)
  BY <1>2 DEF Desk!Reply, DeskAnswers
<1>3. CASE Desk!Entered(c) # {}
  <2> DEFINE done == \A e \in Desk!Entered(c) : e.asked = c.asked
  <2>1. done \in BOOLEAN /\ Desk!Reply(c, done, row) /\ UNCHANGED <<row, log>>
    BY <1>3 DEF Desk!Handle
  <2>2. DeskAnswers(c, done, row')
    BY <1>2, <2>1
  <2>3. Shows(c.op, row.status)
    BY <1>3 DEF Desk!Entered, DeskInv, DoneShows
  <2> HIDE DEF done
  <2> QED BY <1>1, <2>1, <2>2, <2>3
<1>4. CASE Desk!Entered(c) = {} /\ ~Desk!Acceptable(c)
  <2>1. Desk!Reply(c, FALSE, row) /\ UNCHANGED <<row, log>>
    BY <1>4 DEF Desk!Handle
  <2>2. DeskAnswers(c, FALSE, row')
    BY <1>2, <2>1
  <2> QED BY <1>1, <2>1, <2>2
<1>5. CASE Desk!Entered(c) = {} /\ Desk!Acceptable(c)
  <2>1. /\ row' = Desk!Result(c) /\ Desk!Reply(c, TRUE, row')
        /\ log' = log \cup (IF c.op \in Desk!Keyed THEN {Keyed(c)} ELSE {})
    BY <1>5 DEF Desk!Handle, Keyed
  <2>2. DeskAnswers(c, TRUE, row')
    BY <1>2, <2>1
  <2>3. /\ c.op \in Desk!Ops /\ c.lines \in Lines \cup {Fresh} /\ row \in DeskRows
        /\ kind \in {"checkout", "register"}
    BY DEF DeskInv, DeskTypeOK
  <2>4. Desk!After(c.op) \in {"DRAFT", "FINALIZED", "REVERSED", "OPEN", "CLOSED"}
    BY <2>3, StatusesInOrder DEF DeskStatuses
  <2>5. Moves(c.op)
    BY <1>5, <2>1, <2>3, <2>4 DEF Moves, Desk!Acceptable, Desk!Result, DeskRows
  <2> QED BY <1>1, <1>5, <2>1, <2>2, <2>5
<1> QED BY <1>3, <1>4, <1>5

\* A request is handled.
LEMMA HandleKeeps == ASSUME DeskInv, NEW c \in pressed, Desk!Handle(c) PROVE DeskInv'
BY HandleIs, AnswerKeeps

\* A request is refused.
LEMMA RefuseKeeps == ASSUME DeskInv, NEW c \in pressed, Desk!Refuse(c) PROVE DeskInv'
<1>1. DeskAnswers(c, FALSE, row') /\ UNCHANGED <<kind, screen, presses, row, log>>
  BY DEF Desk!Refuse, Desk!Reply, DeskAnswers
<1> QED BY <1>1, AnswerKeeps

\* Somebody else changes the row.
LEMMA ElsewhereKeeps == ASSUME DeskInv, NEW op \in Desk!Ops, Desk!Elsewhere(op) PROVE DeskInv'
<1>1. UNCHANGED <<kind, log, screen, pressed, told, presses>>
  BY DEF Desk!Elsewhere
<1>2. Moves(op) /\ row'.status \in DeskStatuses
  <2>1. row \in DeskRows /\ kind \in {"checkout", "register"}
    BY DEF DeskInv, DeskTypeOK
  <2>2. Desk!After(op) \in {"DRAFT", "FINALIZED", "REVERSED", "OPEN", "CLOSED"}
    BY <2>1, StatusesInOrder DEF DeskStatuses
  <2>3. /\ row.status = Desk!Before(op)
        /\ row' = [row EXCEPT !.status = Desk!After(op), !.version = @ + 1]
    BY DEF Desk!Elsewhere
  <2>4. row' \in DeskRows /\ row'.version = row.version + 1 /\ row'.status = Desk!After(op)
    <3> DEFINE after == Desk!After(op)
    <3> HIDE DEF after
    <3>1. /\ row' = [row EXCEPT !.status = after, !.version = @ + 1]
          /\ after \in {"DRAFT", "FINALIZED", "REVERSED", "OPEN", "CLOSED"}
      BY <2>2, <2>3 DEF after
    <3>2. row' \in DeskRows /\ row'.version = row.version + 1 /\ row'.status = after
      <4> DEFINE later == row.version + 1
      <4>1. later \in Nat /\ row' = [row EXCEPT !.status = after, !.version = later]
        BY <2>1, <3>1 DEF DeskRows
      <4> HIDE DEF later
      <4>2. row' = [status |-> after, version |-> later, lines |-> row.lines]
        BY <2>1, <4>1 DEF DeskRows
      <4>3. row' \in DeskRows
        BY <2>1, <3>1, <4>1, <4>2 DEF DeskRows
      <4> QED BY <4>2, <4>3 DEF later
    <3> QED BY <3>2 DEF after
  <2> QED BY <2>1, <2>3, <2>4, StatusesInOrder DEF Moves
<1>3. DeskTypeOK'
  BY <1>1, <1>2 DEF DeskInv, DeskTypeOK, Moves, DeskStatuses, Desk!Ops
<1>4. RowsWere'
  BY <1>1, <1>2, PastStays DEF DeskInv, RowsWere, Desk!Before
<1>5. DoneShows'
  BY <1>1, <1>2, ShownStays DEF DeskInv, DeskTypeOK, DoneShows, Shows
<1>6. OneRequestEach' /\ KeysAreKept'
  BY <1>1, FewerKeys DEF UnderKeys
<1> QED BY <1>3, <1>4, <1>5, <1>6 DEF DeskInv

\* Every step of the till keeps the invariant.
LEMMA DeskStep == DeskInv /\ [Desk!Next]_(Desk!vars) => DeskInv'
<1> SUFFICES ASSUME DeskInv, [Desk!Next]_(Desk!vars) PROVE DeskInv'
  OBVIOUS
<1>1. CASE Desk!Next
  BY <1>1, EditKeeps, EnterKeeps, PressKeeps, DeskReceiveKeeps, FailedKeeps, ReloadKeeps,
     HandleKeeps,
     RefuseKeeps, ElsewhereKeeps
  DEF Desk!Next
<1>2. CASE UNCHANGED Desk!vars
  <2>1. DeskTypeOK'
    BY <1>2 DEF Desk!vars, DeskInv, DeskTypeOK, DeskStatuses, Desk!Ops
  <2>2. RowsWere' /\ DoneShows'
    BY <1>2 DEF Desk!vars, DeskInv, RowsWere, WasRow, DoneShows, Desk!Before
  <2>3. OneRequestEach' /\ KeysAreKept'
    BY <1>2, FewerKeys DEF Desk!vars, UnderKeys
  <2> QED BY <2>1, <2>2, <2>3 DEF DeskInv
<1> QED BY <1>1, <1>2

\* The inductive invariant of Till: rows of the past, keys and what was carried out.
THEOREM DeskSafe == Desk!Spec => []DeskInv
BY DeskBegins, DeskStep, PTL DEF Desk!Spec

\* PressesAreExact: a key asks one thing, and a press changes only the row it was over
\* (the keys of cash-views.tsx with the versions and request ids of cash-routes.ts).
THEOREM PressesTakeEffectOnce == Desk!Spec => PressesAreExact
<1> DEFINE Exact == \A c \in pressed \ pressed' : row' # row =>
                       row = c.over /\ (c.op = "save" => row'.lines = c.lines)
<1>1. DeskInv => Desk!KeysNameOneRequest
  <2> SUFFICES ASSUME DeskInv, NEW c \in pressed, NEW e \in log, c.op = e.op, c.key = e.key
               PROVE  c.asked = e.asked
    BY DEF Desk!KeysNameOneRequest
  <2>1. e.op \in Desk!Keyed
    BY DEF DeskInv, DeskTypeOK
  <2>2. Keyed(c) \in UnderKeys /\ e \in UnderKeys
    BY <2>1 DEF UnderKeys
  <2>3. Keyed(c).op = e.op /\ Keyed(c).key = e.key /\ Keyed(c).asked = c.asked
    BY DEF Keyed
  <2> QED BY <2>2, <2>3 DEF DeskInv, OneRequestEach
<1>2. DeskInv /\ [Desk!Next]_(Desk!vars) => [Exact]_(Desk!vars)
  <2> SUFFICES ASSUME DeskInv, Desk!Next, NEW c \in pressed \ pressed', row' # row
               PROVE  row = c.over /\ (c.op = "save" => row'.lines = c.lines)
    OBVIOUS
  <2>1. PICK d \in pressed : Desk!Handle(d)
    BY DEF Desk!Next, Desk!Edit, Desk!EnterFirst, Desk!EnterSecond, Desk!Receive, Desk!Fail,
       Desk!Reload, Desk!Press, Desk!Elsewhere, Desk!Refuse
  <2>2. /\ pressed' = pressed \ {d} /\ row' = Desk!Result(d) /\ Desk!Acceptable(d)
    BY <2>1, HandleIs DEF DeskAnswers
  <2>3. c = d /\ WasRow(c.over, row) /\ c.over.status = Desk!Before(c.op) /\ row.status = Desk!Before(c.op)
    BY <2>2 DEF DeskInv, RowsWere, Desk!Acceptable
  <2>4. row = c.over
    BY <2>2, <2>3 DEF Desk!Acceptable, WasRow, Desk!Before
  <2>5. c.op = "save" => row'.lines = c.lines
    BY <2>2, <2>3 DEF Desk!Result
  <2> QED BY <2>4, <2>5
<1> QED BY <1>1, <1>2, DeskSafe, PTL DEF Desk!Spec, PressesAreExact, Desk!PressesAreExact

-----------------------------------------------------------------------------
(* Card reader: the last ticket given out is about the card in the reader,  *)
(* so is what is answered for it.                                           *)

\* The reader is a record, cards are cards, and tickets were given out.
ReaderTypeOK ==
    /\ points \in [Cards -> Nat] /\ asked \in Nat
    /\ reader = [open |-> reader.open, card |-> reader.card, holder |-> reader.holder,
                 ticket |-> reader.ticket, pending |-> reader.pending]
    /\ saved = [version |-> saved.version, member |-> saved.member]
    /\ reader.ticket \in 0 .. asked
    /\ \A k \in lookups : k.ticket \in 1 .. asked /\ k.card \in Cards
    /\ \A a \in found : a.ticket \in 1 .. asked /\ (~a.refused => a.holder.points \in Nat)
    /\ reader.card \in Cards \cup {NoCard} /\ form.card \in Cards \cup {NoCard}
    /\ saved.member.card \in Cards \cup {NoCard} /\ sent.card \in Cards \cup {NoCard}
    /\ \A a \in found : ~a.refused => a.holder.card \in Cards

\* A holder found linked holds the card in the reader.
HolderIsRead == reader.holder.link = "ours" => reader.holder.card \in Cards /\ reader.holder.card = reader.card

\* The last ticket is about the card in the reader, on its way there and back.
TicketIsOfTheCard ==
    /\ \A k \in lookups : k.ticket = reader.ticket => k.card = reader.card
    /\ \A a \in found : a.ticket = reader.ticket /\ ~a.refused => a.holder.card = reader.card

ReaderInv == ReaderTypeOK /\ HolderIsRead /\ TicketIsOfTheCard

\* The reader is shut at first.
LEMMA ReaderBegins == Reader!Init => ReaderInv
BY CounterAssumption DEF Reader!Init, Reader!Shut, Reader!Nobody, Reader!NoMember, ReaderInv,
   ReaderTypeOK, HolderIsRead,
   TicketIsOfTheCard

\* The reader opens with the card of the checkout and no holder.
LEMMA OpenReaderReads == ASSUME ReaderInv, Reader!OpenReader PROVE ReaderInv'
<1>1. reader' = [open |-> TRUE, card |-> form.card, holder |-> Reader!Nobody, ticket |-> 0,
   pending |-> TRUE]
  BY DEF Reader!OpenReader, Reader!Shut
<1>0. UNCHANGED <<saved, points, form, sent, lookups, found, asked>>
  BY DEF Reader!OpenReader
<1>2. Reader!Nobody.link # "ours"
  BY DEF Reader!Nobody
<1>3. ReaderTypeOK'
  BY <1>0, <1>1 DEF ReaderInv, ReaderTypeOK
<1>4. HolderIsRead'
  BY <1>1, <1>2 DEF HolderIsRead
<1>5. TicketIsOfTheCard'
  BY <1>0, <1>1 DEF ReaderInv, ReaderTypeOK, TicketIsOfTheCard
<1> QED BY <1>3, <1>4, <1>5 DEF ReaderInv

\* Another card is read: what was asked about the last one is not current any more.
LEMMA EnterCardReads == ASSUME ReaderInv, NEW card \in Cards,
   Reader!EnterCard(card) PROVE ReaderInv'
<1>1. reader' = [open |-> TRUE, card |-> card, holder |-> Reader!Nobody, ticket |-> 0,
   pending |-> TRUE]
  BY DEF Reader!EnterCard, Reader!Shut
<1>0. UNCHANGED <<saved, points, form, sent, lookups, found, asked>>
  BY DEF Reader!EnterCard
<1>2. Reader!Nobody.link # "ours"
  BY DEF Reader!Nobody
<1>3. ReaderTypeOK'
  BY <1>0, <1>1 DEF ReaderInv, ReaderTypeOK
<1>4. HolderIsRead'
  BY <1>1, <1>2 DEF HolderIsRead
<1>5. TicketIsOfTheCard'
  BY <1>0, <1>1 DEF ReaderInv, ReaderTypeOK, TicketIsOfTheCard
<1> QED BY <1>3, <1>4, <1>5 DEF ReaderInv

\* The reader is shut.
LEMMA CloseReaderReads == ASSUME ReaderInv, Reader!CloseReader PROVE ReaderInv'
BY DEF ReaderInv, ReaderTypeOK, HolderIsRead, TicketIsOfTheCard, Reader!CloseReader,
   Reader!Shut, Reader!Nobody

\* A ticket is given out for the card in the reader.
LEMMA AskReads == ASSUME ReaderInv, NEW toLink \in BOOLEAN, Reader!Ask(toLink) PROVE ReaderInv'
<1> DEFINE t == asked + 1
           k == [ticket |-> t, card |-> reader.card, toLink |-> toLink, before |-> form]
<1>1. /\ reader' = [open |-> reader.open, card |-> reader.card, ticket |-> t, pending |-> TRUE,
                    holder |-> IF toLink THEN reader.holder ELSE Reader!Nobody]
      /\ lookups' = lookups \cup {k} /\ asked' = t
      /\ reader.card # NoCard
      /\ UNCHANGED <<saved, link, points, draft, form, sent, found, changes>>
  BY DEF Reader!Ask, ReaderInv, ReaderTypeOK
<1>2. k.ticket = t /\ k.card = reader.card
  OBVIOUS
<1>3. t \in Nat /\ asked \in Nat /\ t > asked
  BY DEF ReaderInv, ReaderTypeOK
<1> HIDE DEF t, k
<1>4. ReaderTypeOK'
  <2>1. reader.card \in Cards
    BY <1>1 DEF ReaderInv, ReaderTypeOK
  <2>2. \A q \in lookups' : q.ticket \in 1 .. asked' /\ q.card \in Cards
    BY <1>1, <1>2, <1>3, <2>1 DEF ReaderInv, ReaderTypeOK, t
  <2>3. \A a \in found' : a.ticket \in 1 .. asked'
    BY <1>1, <1>3 DEF ReaderInv, ReaderTypeOK, t
  <2> QED BY <1>1, <1>3, <2>2, <2>3 DEF ReaderInv, ReaderTypeOK
<1>5. HolderIsRead'
  BY <1>1 DEF ReaderInv, HolderIsRead, Reader!Nobody
<1>6. TicketIsOfTheCard'
  BY <1>1, <1>2, <1>3 DEF ReaderInv, ReaderTypeOK, TicketIsOfTheCard
<1> QED BY <1>4, <1>5, <1>6 DEF ReaderInv

\* A current answer brings the holder of the card in the reader.
LEMMA ReceiveReads == ASSUME ReaderInv, NEW a \in found, Reader!Receive(a) PROVE ReaderInv'
<1> DEFINE h == a.holder
<1>1. UNCHANGED <<saved, points, sent, lookups, asked>> /\ found' = found \ {a}
  BY DEF Reader!Receive
<1>2. CASE ~Reader!Current(a)
  BY <1>1, <1>2 DEF Reader!Receive, ReaderInv, ReaderTypeOK, HolderIsRead, TicketIsOfTheCard
<1>3. CASE Reader!Current(a) /\ a.refused
  <2>1. UNCHANGED form /\ reader' = [open |-> reader.open, card |-> reader.card, ticket |-> 0,
                                     holder |-> reader.holder, pending |-> reader.pending]
    BY <1>3 DEF Reader!Receive, ReaderInv, ReaderTypeOK
  <2> QED BY <1>1, <2>1 DEF ReaderInv, ReaderTypeOK, HolderIsRead, TicketIsOfTheCard
<1>4. CASE Reader!Current(a) /\ ~a.refused
  <2>1. /\ reader' = [open |-> reader.open, card |-> h.card, ticket |-> 0, holder |-> h,
                      pending |-> h.link # "ours"]
        /\ h.card \in Cards
    BY <1>4 DEF Reader!Receive, ReaderInv, ReaderTypeOK
  <2>2. form'.card \in Cards \cup {NoCard}
    BY <1>4, <2>1 DEF Reader!Receive, Reader!Restored, ReaderInv, ReaderTypeOK
  <2> HIDE DEF h
  <2>3. ReaderTypeOK'
    BY <1>1, <2>1, <2>2 DEF ReaderInv, ReaderTypeOK
  <2>4. HolderIsRead'
    BY <2>1 DEF HolderIsRead
  <2>5. TicketIsOfTheCard'
    BY <1>1, <2>1 DEF ReaderInv, ReaderTypeOK, TicketIsOfTheCard
  <2> QED BY <2>3, <2>4, <2>5 DEF ReaderInv
<1> QED BY <1>2, <1>3, <1>4

\* No answer comes in time.
LEMMA TimeOutReads == ASSUME ReaderInv, Reader!TimeOut PROVE ReaderInv'
BY DEF ReaderInv, ReaderTypeOK, HolderIsRead, TicketIsOfTheCard, Reader!TimeOut

\* The points to be used are entered.
LEMMA EnterPointsReads == ASSUME ReaderInv, NEW n \in 0 .. MaxPoints,
   Reader!EnterPoints(n) PROVE ReaderInv'
BY DEF ReaderInv, ReaderTypeOK, HolderIsRead, TicketIsOfTheCard, Reader!EnterPoints

\* The checkout is loaded again.
LEMMA ReloadReads == ASSUME ReaderInv, Reader!Reload PROVE ReaderInv'
<1>1. UNCHANGED <<saved, points, sent, lookups, found, asked>> /\ form' = saved.member
  BY DEF Reader!Reload, Reader!Replace
<1>2. CASE saved.version = draft.version
  <2>1. reader' = [open |-> reader.open, card |-> reader.card, holder |-> reader.holder,
                   ticket |-> reader.ticket, pending |-> FALSE]
    BY <1>2 DEF Reader!Reload, Reader!Replace, ReaderInv, ReaderTypeOK
  <2> QED BY <1>1, <2>1 DEF ReaderInv, ReaderTypeOK, HolderIsRead, TicketIsOfTheCard
<1>3. CASE saved.version # draft.version
  <2>1. reader' = Reader!Shut
    BY <1>3 DEF Reader!Reload, Reader!Replace
  <2> QED BY <1>1, <2>1 DEF ReaderInv, ReaderTypeOK, HolderIsRead, TicketIsOfTheCard, Reader!Shut,
             Reader!Nobody
<1> QED BY <1>2, <1>3

\* A save is asked for.
LEMMA SaveReads == ASSUME ReaderInv, Reader!Save PROVE ReaderInv'
BY DEF ReaderInv, ReaderTypeOK, HolderIsRead, TicketIsOfTheCard, Reader!Save

\* The save is answered: with the next version the reader starts anew.
LEMMA SavedReads == ASSUME ReaderInv, Reader!Saved PROVE ReaderInv'
BY DEF ReaderInv, ReaderTypeOK, HolderIsRead, TicketIsOfTheCard, Reader!Saved, Reader!Replace,
   Reader!Shut, Reader!Nobody

\* A lookup is answered about the card it was asked about.
LEMMA LookupReads == ASSUME ReaderInv, NEW k \in lookups, Reader!Lookup(k) PROVE ReaderInv'
BY DEF ReaderInv, ReaderTypeOK, HolderIsRead, TicketIsOfTheCard, Reader!Lookup

\* A lookup is refused.
LEMMA RefuseLookupReads == ASSUME ReaderInv, NEW k \in lookups,
   Reader!RefuseLookup(k) PROVE ReaderInv'
BY DEF ReaderInv, ReaderTypeOK, HolderIsRead, TicketIsOfTheCard, Reader!RefuseLookup

\* Others change the checkout, or take points.
LEMMA ElsewhereReads == ASSUME ReaderInv, Reader!Elsewhere PROVE ReaderInv'
BY DEF ReaderInv, ReaderTypeOK, HolderIsRead, TicketIsOfTheCard, Reader!Elsewhere

\* Every step of the reader keeps the invariant.
LEMMA ReaderStep == ReaderInv /\ [Reader!Next]_(Reader!vars) => ReaderInv'
<1> SUFFICES ASSUME ReaderInv, [Reader!Next]_(Reader!vars) PROVE ReaderInv'
  OBVIOUS
<1>1. CASE Reader!Next
  BY <1>1, OpenReaderReads, EnterCardReads, CloseReaderReads, AskReads, ReceiveReads, TimeOutReads,
     EnterPointsReads, ReloadReads, SaveReads, SavedReads, LookupReads, RefuseLookupReads,
     ElsewhereReads
  DEF Reader!Next
<1>2. CASE UNCHANGED Reader!vars
  BY <1>2 DEF Reader!vars, ReaderInv, ReaderTypeOK, HolderIsRead, TicketIsOfTheCard
<1> QED BY <1>1, <1>2

\* The inductive invariant of CardReader: tickets and holders are of the card in the reader.
THEOREM ReaderSafe == Reader!Spec => []ReaderInv
BY ReaderBegins, ReaderStep, PTL DEF Reader!Spec

\* MemberIsTheCardRead: an answer that is current is about the card in the reader
\* (runLookup and changePoints of membership-confirmation.tsx).
THEOREM MembersAreRead == Reader!Spec => MemberIsTheCardRead
<1> DEFINE Read == \A m \in {form'} : m # form /\ m # draft'.member =>
                     /\ m.card = reader.card /\ reader'.holder.card = m.card
                     /\ reader'.holder.link = "ours" /\ m.used <= Reader!Limit(reader'.holder)
<1>1. ReaderInv /\ [Reader!Next]_(Reader!vars) => [Read]_(Reader!vars)
  <2> SUFFICES ASSUME ReaderInv, Reader!Next, form' # form, form' # draft'.member
               PROVE  /\ form'.card = reader.card /\ reader'.holder.card = form'.card
                      /\ reader'.holder.link = "ours"
                      /\ form'.used <= Reader!Limit(reader'.holder)
    OBVIOUS
  <2>1. \/ \E a \in found : Reader!Receive(a)
        \/ \E n \in 0 .. MaxPoints : Reader!EnterPoints(n)
    BY DEF Reader!Next, Reader!OpenReader, Reader!EnterCard, Reader!CloseReader, Reader!Ask,
       Reader!TimeOut, Reader!Reload, Reader!Save, Reader!Saved, Reader!Lookup,
       Reader!RefuseLookup, Reader!Elsewhere, Reader!Replace
  <2>2. ASSUME NEW a \in found, Reader!Receive(a)
        PROVE  /\ form'.card = reader.card /\ reader'.holder.card = form'.card
               /\ reader'.holder.link = "ours" /\ form'.used <= Reader!Limit(reader'.holder)
    <3>1. /\ a.ticket = reader.ticket /\ ~a.refused /\ a.holder.link = "ours"
          /\ form' = Reader!Restored(a.holder, a.before)
          /\ reader' = [reader EXCEPT !.ticket = 0, !.card = a.holder.card, !.holder = a.holder,
                           !.pending = a.holder.link # "ours"]
      BY <2>2 DEF Reader!Receive, Reader!Current
    <3>2. reader'.holder = a.holder /\ a.holder.card = reader.card /\ a.holder.points \in Nat
      BY <3>1 DEF ReaderInv, ReaderTypeOK, TicketIsOfTheCard
    <3> QED BY <3>1, <3>2 DEF Reader!Restored, Reader!Limit
  <2>3. ASSUME NEW n \in 0 .. MaxPoints, Reader!EnterPoints(n)
        PROVE  /\ form'.card = reader.card /\ reader'.holder.card = form'.card
               /\ reader'.holder.link = "ours" /\ form'.used <= Reader!Limit(reader'.holder)
    BY <2>3 DEF Reader!EnterPoints, Reader!Limit, ReaderInv, ReaderTypeOK, HolderIsRead
  <2> QED BY <2>1, <2>2, <2>3
<1> QED BY <1>1, ReaderSafe, PTL DEF Reader!Spec, MemberIsTheCardRead, Reader!MemberIsTheCardRead
=============================================================================
