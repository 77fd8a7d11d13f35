------------------------- MODULE ContestPageProofs -------------------------
(***************************************************************************)
(* The contest page for every number of overlapping requests, duration and *)
(* skew of the browser's clock.  The argument is about one request at a    *)
(* time: CallOK says what is known of it from the attempt as it is now,    *)
(* and stays true while the attempt moves on (Later) and time passes.      *)
(***************************************************************************)
EXTENDS ContestPage, TLAPS

Shut(a) == a # Null /\ a.submitted # Null

\* a has become b: once there it stays, with its deadline; closed, it stays as
\* it is.
Later(a, b) ==
    a # Null => /\ b # Null /\ b.expires = a.expires
                /\ a.submitted # Null => b.submitted = a.submitted

HasRow(r) == r.at \in {"read", "decided", "stated"} \/ (r.at = "answered" /\ r.why \in Loads)

\* What was true when the request was sent, or done by it.
Cause(r, a, t) ==
    /\ r.why \in {"finish", "started", "finished", "zero"} => a # Null
    /\ r.why = "start" /\ r.at = "answered" => a # Null
    /\ r.why = "finish" /\ r.at = "answered" => Shut(a)
    /\ r.why = "finished" => Shut(a)
    /\ r.why = "zero" => a.expires <= t

\* The answer as far as it has been made.
Answer(r, a, t) ==
    /\ r.at \in {"read", "decided", "stated"} => r.why \in Loads
    /\ r.row # Null => a # Null /\ r.row.expires = a.expires
    /\ HasRow(r) /\ r.why = "started" => r.row # Null
    /\ HasRow(r) /\ r.why \in {"zero", "finished"} => Shut(r.row)
    /\ HasRow(r) /\ r.at # "read" => (r.access = "locked" <=> r.row = Null)
    /\ HasRow(r) /\ r.at # "read" /\ Shut(r.row) => r.access = "practice"
    /\ HasRow(r) /\ r.at # "read" => r.access \in {"locked", "timed", "practice"}
    /\ HasRow(r) /\ r.at \in {"stated", "answered"} =>
          /\ r.status \in {"not_started", "active"} \cup Closed
          /\ r.status = "active" => r.row # Null
          /\ Shut(r.row) => r.status \in Closed
    /\ HasRow(r) /\ r.at = "answered" => r.time \in Nat /\ r.time <= t

CallOK(r, a, t) == Cause(r, a, t) /\ Answer(r, a, t)

\* The page.
PageOK ==
    /\ shown # Null /\ shown.expires # Null => attempt # Null /\ attempt.expires = shown.expires
    /\ shown # Null /\ shown.access # "locked" => shown.expires # Null
    /\ Running => offset + skew <= 0

\* The countdown, which may go on with an older answer than the one shown, is for
\* the one deadline there is.
CountOK ==
    interval # Null =>
        /\ attempt # Null /\ attempt.expires = interval.expires
        /\ interval.offset + skew <= 0
        /\ remaining * TicksPerSecond >= interval.expires - now

CallsOK(cs, a, t) == \A c \in Calls : cs[c] # Null => CallOK(cs[c], a, t)

Inv == TypeOK /\ PageOK /\ CountOK /\ CallsOK(calls, attempt, now)

-----------------------------------------------------------------------------
(* The server *)

LEMMA StatusOf ==
    ASSUME NEW a \in Row \cup {Null}, NEW t \in Nat
    PROVE  /\ AttemptStatus(a, t) \in {"not_started", "active"} \cup Closed
           /\ AttemptStatus(a, t) = "not_started" <=> a = Null
           /\ Shut(a) \/ (a # Null /\ a.expires <= t) => AttemptStatus(a, t) \in Closed
BY NullAssumption DEF AttemptStatus, Closed, Shut, Row

LEMMA AccessOf ==
    ASSUME NEW st \in {"not_started", "active"} \cup Closed
    PROVE  /\ AccessState(st) \in {"locked", "timed", "practice"}
           /\ AccessState(st) = "locked" <=> st = "not_started"
           /\ st \in Closed => AccessState(st) = "practice"
BY DEF AccessState, Closed

LEMMA SyncOf ==
    ASSUME attempt \in Row \cup {Null}, now \in Nat
    PROVE  /\ Sync(attempt) \in Row \cup {Null}
           /\ Later(attempt, Sync(attempt))
           /\ Sync(attempt) = Null <=> attempt = Null
           /\ attempt # Null /\ attempt.expires <= now => Shut(Sync(attempt))
BY NullAssumption DEF Sync, AttemptStatus, Later, Shut, Row

LEMMA StartedOf ==
    ASSUME attempt \in Row \cup {Null}, now \in Nat
    PROVE  Started \in Row /\ Later(attempt, Started)
<1>1. CASE attempt = Null
  BY <1>1, PageAssumption DEF Started, Later, Row
<1>2. CASE attempt # Null
  BY <1>2, SyncOf, NullAssumption DEF Started
<1>3. QED
  BY <1>1, <1>2

LEMMA FinishedOf ==
    ASSUME attempt \in Row \cup {Null}, now \in Nat
    PROVE  /\ Finished \in Row \cup {Null}
           /\ Later(attempt, Finished)
           /\ attempt # Null => Shut(Finished)
<1>1. CASE attempt = Null
  BY <1>1, SyncOf DEF Finished, Later
<1>2. CASE attempt # Null /\ Sync(attempt).submitted # Null
  BY <1>2, SyncOf DEF Finished, Shut
<1>3. CASE attempt # Null /\ Sync(attempt).submitted = Null
  <2>1. Sync(attempt) \in Row
    BY <1>3, SyncOf
  <2>2. Finished = [Sync(attempt) EXCEPT !.submitted = now]
    BY <1>3, <2>1, SyncOf DEF Finished
  <2>3. Finished \in Row /\ Finished.submitted = now /\ Finished.expires = Sync(attempt).expires
    BY <2>1, <2>2 DEF Row
  <2>4. QED
    BY <1>3, <2>1, <2>3, SyncOf, NullAssumption DEF Later, Shut
<1>4. QED
  BY <1>1, <1>2, <1>3

\* No step takes an attempt back or turns a clock.
LEMMA Moves ==
    ASSUME Inv, [Next]_vars
    PROVE  /\ attempt' \in Row \cup {Null} /\ Later(attempt, attempt')
           /\ now' \in Nat /\ now <= now'
           /\ skew' = skew
<1> USE DEF Inv, TypeOK
<1>0. attempt' = attempt => attempt' \in Row \cup {Null} /\ Later(attempt, attempt')
  BY DEF Later
<1>1. CASE Tick
  BY <1>0, <1>1 DEF Tick
<1>2. CASE Elsewhere
  BY <1>2, SyncOf, StartedOf, FinishedOf DEF Elsewhere
<1>3. ASSUME NEW c \in Calls, ReadAttempt(c) \/ Act(c)
      PROVE  attempt' \in {Sync(attempt), Started, Finished} /\ now' = now /\ skew' = skew
  BY <1>3 DEF ReadAttempt, Act
<1>4. ASSUME NEW c \in Calls,
             DecideAccess(c) \/ StateStatus(c) \/ StateTime(c) \/ Lose(c) \/ Receive(c)
               \/ Refresh(c) \/ CountDown(c) \/ Start(c) \/ Finish(c)
      PROVE  attempt' = attempt /\ now' = now /\ skew' = skew
  BY <1>4 DEF DecideAccess, StateStatus, StateTime, Lose, Receive, Show, StartCountdown,
     ShowError, Follow, Refresh, CountDown, Start, Finish
<1>5. CASE UNCHANGED vars
  BY <1>0, <1>5 DEF vars
<1>6. QED
  BY <1>0, <1>1, <1>2, <1>3, <1>4, <1>5, SyncOf, StartedOf, FinishedOf DEF Next, Serve

-----------------------------------------------------------------------------
(* Requests *)

LEMMA Kept ==
    ASSUME NEW r \in Call, NEW a \in Row \cup {Null}, NEW b \in Row \cup {Null},
           NEW t \in Nat, NEW u \in Nat, CallOK(r, a, t), Later(a, b), t <= u
    PROVE  CallOK(r, b, u)
<1>1. Cause(r, b, u)
  BY DEF CallOK, Cause, Later, Shut, Row
<1>2. Answer(r, b, u)
  BY DEF CallOK, Answer, Later, Call
<1>3. QED
  BY <1>1, <1>2 DEF CallOK

Typed(cs) == cs \in [Calls -> Call \cup {Null}]

\* A step that changes one request at most leaves all of them in order.
LEMMA PutKeeps ==
    ASSUME Inv, [Next]_vars, NEW c \in Calls, NEW r \in Call \cup {Null}, Put(c, r),
           r # Null => CallOK(r, attempt', now')
    PROVE  Typed(calls') /\ CallsOK(calls', attempt', now')
<1>1. Typed(calls')
  BY DEF Inv, TypeOK, Put, Typed
<1>2. ASSUME NEW d \in Calls, calls'[d] # Null PROVE CallOK(calls'[d], attempt', now')
  <2>1. CASE d = c
    BY <1>2, <2>1 DEF Inv, TypeOK, Put
  <2>2. CASE d # c
    <3>1. calls'[d] = calls[d] /\ calls[d] \in Call
      BY <1>2, <2>2 DEF Inv, TypeOK, Put
    <3>2. CallOK(calls[d], attempt, now)
      BY <1>2, <3>1 DEF Inv, CallsOK
    <3>3. QED
      BY <3>1, <3>2, Kept, Moves DEF Inv, TypeOK
  <2>3. QED
    BY <2>1, <2>2
<1>3. QED
  BY <1>1, <1>2 DEF CallsOK

LEMMA SameKeeps ==
    ASSUME Inv, [Next]_vars, calls' = calls
    PROVE  Typed(calls') /\ CallsOK(calls', attempt', now')
<1>1. ASSUME NEW d \in Calls, calls[d] # Null PROVE CallOK(calls[d], attempt', now')
  BY <1>1, Kept, Moves DEF Inv, TypeOK, CallsOK
<1>2. QED
  BY <1>1 DEF Inv, TypeOK, CallsOK, Typed

\* A request just sent, or failed, or a load that was rendered, has only its cause.
LEMMA SentOK ==
    ASSUME NEW why \in Loads \cup Actions, NEW at \in {"sent", "failed", "rendered"},
           NEW a \in Row \cup {Null}, NEW t \in Nat,
           why \in {"finish", "started", "finished", "zero"} => a # Null,
           why = "finished" => Shut(a),
           why = "zero" => a.expires <= t
    PROVE  /\ [Sent(why) EXCEPT !.at = at] \in Call
           /\ CallOK([Sent(why) EXCEPT !.at = at], a, t)
BY DEF Sent, Call, CallOK, Cause, Answer, HasRow, Loads, Actions

LEMMA SentFresh ==
    ASSUME NEW why \in Loads \cup Actions, NEW a \in Row \cup {Null}, NEW t \in Nat,
           why \in {"finish", "started", "finished", "zero"} => a # Null,
           why = "finished" => Shut(a),
           why = "zero" => a.expires <= t
    PROVE  Sent(why) \in Call /\ CallOK(Sent(why), a, t)
BY DEF Sent, Call, CallOK, Cause, Answer, HasRow, Loads, Actions

-----------------------------------------------------------------------------
(* The server's steps keep the requests in order *)

RequestsOK == Typed(calls') /\ CallsOK(calls', attempt', now')

\* What a step may rely on about the request it is for.
LEMMA Known ==
    ASSUME Inv, NEW c \in Calls, calls[c] # Null
    PROVE  calls[c] \in Call /\ CallOK(calls[c], attempt, now)
BY DEF Inv, TypeOK, CallsOK

LEMMA ReadKeeps ==
    ASSUME Inv, [Next]_vars, NEW c \in Calls, ReadAttempt(c) PROVE RequestsOK
<1> DEFINE r == [calls[c] EXCEPT !.at = "read", !.row = Sync(attempt)]
<1>1. calls[c] \in Call /\ CallOK(calls[c], attempt, now) /\ calls[c].at = "sent" /\ calls[c].why \in Loads
  BY Known DEF ReadAttempt, At
<1>2. /\ Sync(attempt) \in Row \cup {Null} /\ Later(attempt, Sync(attempt))
      /\ Sync(attempt) = Null <=> attempt = Null
      /\ attempt # Null /\ attempt.expires <= now => Shut(Sync(attempt))
      /\ attempt' = Sync(attempt) /\ now' = now /\ now \in Nat /\ attempt \in Row \cup {Null}
  BY SyncOf DEF Inv, TypeOK, ReadAttempt
<1>3. r \in Call /\ r.why = calls[c].why /\ r.at = "read" /\ r.row = Sync(attempt)
  BY <1>1, <1>2 DEF Call
<1>4. Cause(calls[c], Sync(attempt), now)
  BY <1>1, <1>2, Kept DEF CallOK
<1>5. Cause(r, Sync(attempt), now)
  BY <1>1, <1>3, <1>4 DEF Cause
<1>6. Shut(attempt) => Shut(Sync(attempt))
  BY <1>2 DEF Later, Shut
<1>7. r.why \in {"zero", "finished"} => Shut(r.row)
  BY <1>1, <1>2, <1>3, <1>6 DEF CallOK, Cause
<1>8. r.why = "started" => r.row # Null
  BY <1>1, <1>2, <1>3 DEF CallOK, Cause
<1>9. Answer(r, Sync(attempt), now)
  BY <1>1, <1>3, <1>7, <1>8 DEF Answer, HasRow
<1>10. QED
  BY <1>2, <1>3, <1>5, <1>9, PutKeeps DEF ReadAttempt, RequestsOK, CallOK

\* The three looks at the clock: what is decided about one row agrees with it,
\* whatever the time is by then.
LEMMA DecideKeeps ==
    ASSUME Inv, [Next]_vars, NEW c \in Calls, DecideAccess(c) PROVE RequestsOK
<1> DEFINE st == AttemptStatus(calls[c].row, now)
           r == [calls[c] EXCEPT !.at = "decided", !.access = AccessState(st)]
<1>1. calls[c] \in Call /\ CallOK(calls[c], attempt, now) /\ calls[c].at = "read"
  BY Known DEF DecideAccess, At
<1>2. calls[c].row \in Row \cup {Null} /\ now \in Nat
  BY <1>1 DEF Inv, TypeOK, Call
<1>3. /\ st \in {"not_started", "active"} \cup Closed
      /\ st = "not_started" <=> calls[c].row = Null
      /\ Shut(calls[c].row) => st \in Closed
  BY <1>2, StatusOf
<1>4. /\ AccessState(st) \in {"locked", "timed", "practice"}
      /\ AccessState(st) = "locked" <=> calls[c].row = Null
      /\ Shut(calls[c].row) => AccessState(st) = "practice"
  BY <1>3, AccessOf
<1>5. r \in Call /\ r.at = "decided" /\ r.why = calls[c].why /\ r.row = calls[c].row /\ r.access = AccessState(st)
  BY <1>1, <1>4 DEF Call
<1>6. Put(c, r) /\ attempt' = attempt /\ now' = now
  BY DEF DecideAccess
<1> HIDE DEF r, st
<1>7. CallOK(r, attempt, now)
  BY <1>1, <1>4, <1>5 DEF CallOK, Cause, Answer, HasRow
<1>8. QED
  BY <1>5, <1>6, <1>7, PutKeeps DEF RequestsOK

LEMMA StatusKeeps ==
    ASSUME Inv, [Next]_vars, NEW c \in Calls, StateStatus(c) PROVE RequestsOK
<1> DEFINE st == AttemptStatus(calls[c].row, now)
           r == [calls[c] EXCEPT !.at = "stated", !.status = st]
<1>1. calls[c] \in Call /\ CallOK(calls[c], attempt, now) /\ calls[c].at = "decided"
  BY Known DEF StateStatus, At
<1>2. calls[c].row \in Row \cup {Null} /\ now \in Nat
  BY <1>1 DEF Inv, TypeOK, Call
<1>3. /\ st \in {"not_started", "active"} \cup Closed
      /\ st = "not_started" <=> calls[c].row = Null
      /\ Shut(calls[c].row) => st \in Closed
  BY <1>2, StatusOf
<1>4. r \in Call /\ r.at = "stated" /\ r.why = calls[c].why /\ r.row = calls[c].row
        /\ r.access = calls[c].access /\ r.status = st
  BY <1>1, <1>3 DEF Call
<1>5. Put(c, r) /\ attempt' = attempt /\ now' = now
  BY DEF StateStatus
<1> HIDE DEF r, st
<1>6. st = "active" => calls[c].row # Null
  BY <1>2, NullAssumption, StatusOf DEF st
<1>7. CallOK(r, attempt, now)
  BY <1>1, <1>3, <1>4, <1>6 DEF CallOK, Cause, Answer, HasRow
<1>8. QED
  BY <1>4, <1>5, <1>7, PutKeeps DEF RequestsOK

LEMMA TimeKeeps ==
    ASSUME Inv, [Next]_vars, NEW c \in Calls, StateTime(c) PROVE RequestsOK
<1> DEFINE r == [calls[c] EXCEPT !.at = "answered", !.time = now]
<1>1. calls[c] \in Call /\ CallOK(calls[c], attempt, now) /\ calls[c].at = "stated" /\ now \in Nat
  BY Known DEF StateTime, At, Inv, TypeOK
<1>2. r \in Call /\ r.at = "answered" /\ r.why = calls[c].why /\ r.row = calls[c].row
        /\ r.access = calls[c].access /\ r.status = calls[c].status /\ r.time = now
  BY <1>1 DEF Call
<1>3. Put(c, r) /\ attempt' = attempt /\ now' = now
  BY DEF StateTime
<1> HIDE DEF r
<1>4. r.why \in Loads
  BY <1>1, <1>2 DEF CallOK, Answer
<1>5. CallOK(r, attempt, now)
  BY <1>1, <1>2, <1>4 DEF CallOK, Cause, Answer, HasRow, Loads
<1>6. QED
  BY <1>2, <1>3, <1>5, PutKeeps DEF RequestsOK

LEMMA ActKeeps ==
    ASSUME Inv, [Next]_vars, NEW c \in Calls, Act(c) PROVE RequestsOK
<1> DEFINE r == [calls[c] EXCEPT !.at = "answered"]
<1>1. /\ calls[c] \in Call /\ CallOK(calls[c], attempt, now)
      /\ calls[c].at = "sent" /\ calls[c].why \in Actions
  BY Known DEF Act, At
<1>2. r \in Call /\ r.at = "answered" /\ r.why = calls[c].why /\ r.row = calls[c].row
  BY <1>1 DEF Call
<1>3. Put(c, r) /\ now' = now /\ attempt' = IF calls[c].why = "start" THEN Started ELSE Finished
  BY DEF Act
<1> HIDE DEF r
<1>4. Cause(r, attempt', now)
  <2>1. CASE calls[c].why = "start"
    BY <1>2, <1>3, <2>1, StartedOf, NullAssumption DEF Cause, Inv, TypeOK
  <2>2. CASE calls[c].why = "finish"
    <3>1. attempt # Null
      BY <1>1, <2>2 DEF CallOK, Cause
    <3>2. Shut(Finished)
      BY <3>1, FinishedOf DEF Inv, TypeOK
    <3>3. QED
      BY <1>2, <1>3, <2>2, <3>2 DEF Cause, Shut
  <2>3. QED
    BY <1>1, <2>1, <2>2 DEF Actions
<1>5. Answer(calls[c], attempt', now)
  BY <1>1, <1>3, Kept, Moves DEF CallOK, Inv, TypeOK
<1>6. Answer(r, attempt', now)
  BY <1>1, <1>2, <1>5 DEF Answer, HasRow, Loads, Actions
<1>7. QED
  BY <1>2, <1>3, <1>4, <1>6, PutKeeps DEF RequestsOK, CallOK

LEMMA LoseKeeps ==
    ASSUME Inv, [Next]_vars, NEW c \in Calls, Lose(c) PROVE RequestsOK
<1>1. calls[c] \in Call /\ CallOK(calls[c], attempt, now) /\ calls[c].why \in Loads \cup Actions
  BY Known DEF Lose, Call
<1>2. /\ [Sent(calls[c].why) EXCEPT !.at = "failed"] \in Call
      /\ CallOK([Sent(calls[c].why) EXCEPT !.at = "failed"], attempt, now)
  BY <1>1, SentOK DEF CallOK, Cause, Inv, TypeOK
<1>3. QED
  BY <1>2, PutKeeps DEF Lose, RequestsOK

-----------------------------------------------------------------------------
(* The page *)

PageTyped ==
    /\ shown \in View \cup {Null}
    /\ offset \in Int /\ remaining \in Nat
    /\ interval \in Interval \cup {Null} /\ busy \in BOOLEAN
    /\ Running => shown.expires # Null

PageFine == PageTyped /\ PageOK /\ CountOK

\* What a countdown shows, going by a clock that is not ahead of the server's.
LEMMA Rendered ==
    ASSUME NEW e \in Nat, NEW o \in Int, now \in Nat, skew \in Int, o + skew <= 0
    PROVE  /\ GetRemainingSeconds(e, o) \in Nat
           /\ GetRemainingSeconds(e, o) * TicksPerSecond >= e - now
           /\ GetRemainingSeconds(e, o) = 0 => e <= now
BY DEF GetRemainingSeconds, Seconds, TicksPerSecond

\* Time and the attempt go on, and a countdown stays right.
LEMMA CountKept ==
    ASSUME Inv, [Next]_vars, UNCHANGED <<remaining, interval>>
    PROVE  CountOK'
<1> SUFFICES ASSUME interval # Null
             PROVE  /\ attempt' # Null /\ attempt'.expires = interval.expires
                    /\ interval.offset + skew' <= 0
                    /\ remaining * TicksPerSecond >= interval.expires - now'
  BY DEF CountOK
<1>1. /\ attempt # Null /\ attempt.expires = interval.expires
      /\ interval.offset + skew <= 0
      /\ remaining * TicksPerSecond >= interval.expires - now
  BY DEF Inv, CountOK
<1>2. interval.expires \in Nat /\ remaining \in Nat /\ now \in Nat
  BY DEF Inv, TypeOK, Interval
<1>3. QED
  BY <1>1, <1>2, Moves DEF Later, TicksPerSecond

\* So does the rest of the page.
LEMMA PageKept ==
    ASSUME Inv, [Next]_vars, UNCHANGED <<shown, offset, remaining, interval>>, busy' \in BOOLEAN
    PROVE  PageFine'
<1>1. PageTyped'
  BY DEF PageTyped, Running, Inv, TypeOK
<1>2. PageOK'
  BY <1>1, Moves DEF PageOK, Running, Later, Inv, TypeOK, PageTyped
<1>3. QED
  BY <1>1, <1>2, CountKept DEF PageFine

LEMMA ShowFine ==
    ASSUME Inv, [Next]_vars, NEW c \in Calls, Show(c) PROVE PageFine' /\ RequestsOK
<1> DEFINE r == calls[c]
           o == GetServerOffset(r.time)
           next == [Sent(r.why) EXCEPT !.at = "rendered"]
<1>1. r \in Call /\ CallOK(r, attempt, now) /\ r.at = "answered" /\ r.why \in Loads
  BY Known DEF Show, At
<1>2. HasRow(r)
  BY <1>1 DEF HasRow
<1>3. /\ r.access \in {"locked", "timed", "practice"}
      /\ r.status \in {"not_started", "active"} \cup Closed
      /\ r.access = "locked" <=> r.row = Null
      /\ r.status = "active" => r.row # Null
      /\ r.row # Null => attempt # Null /\ r.row.expires = attempt.expires
      /\ r.time \in Nat /\ r.time <= now
  BY <1>1, <1>2 DEF CallOK, Answer
<1>4. r.row # Null => r.row.expires \in Nat
  BY <1>1 DEF Call, Row
<1>5. now \in Nat /\ skew \in Int /\ o \in Int /\ o + skew <= 0
  BY <1>3 DEF Inv, TypeOK, GetServerOffset
<1>6. /\ shown' = [access |-> r.access, status |-> r.status,
                   expires |-> IF r.row = Null THEN Null ELSE r.row.expires]
      /\ offset' = IF r.row = Null THEN 0 ELSE o
      /\ remaining' = remaining /\ interval' = interval
      /\ Put(c, next)
      /\ busy' = (busy /\ r.why \in {"refresh", "zero"})
      /\ now' = now /\ skew' = skew /\ attempt' = attempt
  BY DEF Show
<1> HIDE DEF o
<1>7. /\ shown' \in View /\ shown'.status = r.status /\ shown'.access = r.access
      /\ r.row = Null => shown'.expires = Null
      /\ r.row # Null => shown'.expires = r.row.expires
  BY <1>3, <1>4, <1>6 DEF View
<1>8. shown' # Null
  BY <1>7, NullAssumption
<1>9. PageTyped'
  BY <1>3, <1>4, <1>5, <1>6, <1>7, NullAssumption DEF PageTyped, Running, Inv, TypeOK
<1>10. PageOK'
  BY <1>3, <1>4, <1>5, <1>6, <1>7, NullAssumption DEF PageOK, Running
<1>11. next \in Call /\ CallOK(next, attempt', now')
  <2>1. r.why \in Loads \cup Actions /\ Cause(r, attempt, now)
    BY <1>1 DEF CallOK
  <2>2. QED
    BY <1>6, <2>1, SentOK DEF Cause, Inv, TypeOK
<1>12. RequestsOK
  BY <1>6, <1>11, PutKeeps DEF RequestsOK
<1>13. QED
  BY <1>6, <1>9, <1>10, <1>12, CountKept DEF PageFine

\* A countdown that reaches zero sends a load, which is right about the deadline.
LEMMA ZeroOK ==
    ASSUME Inv, [Next]_vars, attempt' = attempt, now' = now,
           attempt # Null, attempt.expires <= now
    PROVE  Sent("zero") \in Call /\ CallOK(Sent("zero"), attempt', now')
BY SentFresh DEF Inv, TypeOK, Loads

LEMMA StartCountdownFine ==
    ASSUME Inv, [Next]_vars, NEW c \in Calls, StartCountdown(c) PROVE PageFine' /\ RequestsOK
<1>1. /\ UNCHANGED <<now, skew, attempt, shown, offset, busy>>
      /\ now \in Nat /\ skew \in Int /\ offset \in Int
  BY DEF StartCountdown, Inv, TypeOK
<1>2. PageOK'
  BY <1>1 DEF PageOK, Running, Inv
<1>3. CASE Running
  <2> DEFINE left == GetRemainingSeconds(shown.expires, offset)
  <2>1. /\ shown.expires \in Nat /\ offset + skew <= 0
        /\ attempt # Null /\ attempt.expires = shown.expires
    BY <1>3 DEF Running, Inv, TypeOK, PageOK, View
  <2>2. left \in Nat /\ left * TicksPerSecond >= shown.expires - now /\ (left = 0 => shown.expires <= now)
    BY <1>1, <2>1, Rendered
  <2>3. /\ remaining' = left
        /\ interval' = [expires |-> shown.expires, offset |-> offset, expired |-> left = 0]
        /\ Put(c, IF left = 0 THEN Sent("zero") ELSE Null)
    BY <1>3 DEF StartCountdown
  <2> HIDE DEF left
  <2>4. interval' \in Interval /\ interval'.expires = shown.expires /\ interval'.offset = offset
    BY <1>1, <2>1, <2>3 DEF Interval
  <2>5. PageTyped'
    BY <1>1, <2>2, <2>3, <2>4 DEF PageTyped, Running, Inv, TypeOK
  <2>6. CountOK'
    BY <1>1, <2>1, <2>2, <2>3, <2>4 DEF CountOK
  <2>7. RequestsOK
    <3>1. CASE left = 0
      BY <1>1, <2>1, <2>2, <2>3, <3>1, ZeroOK, PutKeeps DEF RequestsOK
    <3>2. CASE left # 0
      BY <2>3, <3>2, PutKeeps DEF RequestsOK
    <3>3. QED
      BY <3>1, <3>2
  <2>8. QED
    BY <1>2, <2>5, <2>6, <2>7 DEF PageFine
<1>4. CASE ~Running
  <2>1. remaining' = remaining /\ interval' = Null /\ Put(c, Null)
    BY <1>4 DEF StartCountdown
  <2>2. PageTyped' /\ CountOK'
    BY <1>1, <2>1 DEF PageTyped, CountOK, Running, Inv, TypeOK
  <2>3. QED
    BY <1>2, <2>1, <2>2, PutKeeps DEF PageFine, RequestsOK
<1>5. QED
  BY <1>3, <1>4

LEMMA CountDownFine ==
    ASSUME Inv, [Next]_vars, NEW c \in Calls, CountDown(c) PROVE PageFine' /\ RequestsOK
<1>1. /\ interval \in Interval /\ interval # Null
      /\ interval.expires \in Nat /\ interval.offset \in Int /\ interval.offset + skew <= 0
      /\ attempt # Null /\ attempt.expires = interval.expires
      /\ now \in Nat /\ skew \in Int
  BY DEF CountDown, Inv, TypeOK, CountOK, Interval
<1>2. /\ remaining' \in Nat /\ remaining' * TicksPerSecond >= interval.expires - now
      /\ remaining' = 0 => interval.expires <= now
  BY <1>1, Rendered DEF CountDown
<1>3. UNCHANGED <<now, skew, attempt, shown, offset, busy>>
  BY DEF CountDown
<1>4. /\ interval' \in Interval
      /\ interval'.expires = interval.expires /\ interval'.offset = interval.offset
  BY <1>1 DEF CountDown, Interval
<1>5. PageFine'
  <2>1. PageTyped' /\ PageOK'
    BY <1>2, <1>3, <1>4 DEF PageTyped, PageOK, Running, Inv, TypeOK
  <2>2. CountOK'
    BY <1>1, <1>2, <1>3, <1>4 DEF CountOK
  <2>3. QED
    BY <2>1, <2>2 DEF PageFine
<1>6. CASE remaining' = 0 /\ ~interval.expired
  <2>1. Sent("zero") \in Call /\ CallOK(Sent("zero"), attempt', now')
    BY <1>1, <1>2, <1>3, <1>6, ZeroOK
  <2>2. Put(c, Sent("zero"))
    BY <1>6 DEF CountDown
  <2>3. QED
    BY <1>5, <2>1, <2>2, PutKeeps DEF RequestsOK
<1>7. CASE ~(remaining' = 0 /\ ~interval.expired)
  BY <1>5, <1>7, SameKeeps DEF CountDown, RequestsOK
<1>8. QED
  BY <1>6, <1>7

LEMMA ShowErrorFine ==
    ASSUME Inv, [Next]_vars, NEW c \in Calls, ShowError(c) PROVE PageFine' /\ RequestsOK
<1>1. PageFine'
  BY PageKept DEF ShowError, Inv, TypeOK
<1>2. RequestsOK
  BY PutKeeps DEF ShowError, RequestsOK
<1>3. QED
  BY <1>1, <1>2

LEMMA RefreshFine ==
    ASSUME Inv, [Next]_vars, NEW c \in Calls, Refresh(c) PROVE PageFine' /\ RequestsOK
<1>1. PageFine'
  BY PageKept DEF Refresh, page, Inv, TypeOK
<1>2. Sent("refresh") \in Call /\ CallOK(Sent("refresh"), attempt', now')
  BY SentFresh, Moves DEF Loads
<1>3. QED
  BY <1>1, <1>2, PutKeeps DEF Refresh, RequestsOK

LEMMA StartFine ==
    ASSUME Inv, [Next]_vars, NEW c \in Calls, Start(c) PROVE PageFine' /\ RequestsOK
<1>1. PageFine'
  BY PageKept DEF Start, Inv, TypeOK
<1>2. Sent("start") \in Call /\ CallOK(Sent("start"), attempt', now')
  BY SentFresh, Moves DEF Actions
<1>3. QED
  BY <1>1, <1>2, PutKeeps DEF Start, RequestsOK

\* The button is there for a contest that is timed, so there is an attempt.
LEMMA FinishFine ==
    ASSUME Inv, [Next]_vars, NEW c \in Calls, Finish(c) PROVE PageFine' /\ RequestsOK
<1>1. PageFine'
  BY PageKept DEF Finish, Inv, TypeOK
<1>2. attempt' # Null
  BY DEF Finish, Inv, PageOK
<1>3. Sent("finish") \in Call /\ CallOK(Sent("finish"), attempt', now')
  BY <1>2, SentFresh, Moves DEF Actions
<1>4. QED
  BY <1>1, <1>3, PutKeeps DEF Finish, RequestsOK

LEMMA FollowFine ==
    ASSUME Inv, [Next]_vars, NEW c \in Calls, Follow(c) PROVE PageFine' /\ RequestsOK
<1>1. PageFine'
  BY PageKept DEF Follow, Inv, TypeOK
<1>2. /\ calls[c].at = "answered" /\ calls[c].why \in Actions
      /\ Cause(calls[c], attempt, now) /\ attempt' = attempt /\ now' = now
  BY Known DEF Follow, At, CallOK
<1>3. CASE calls[c].why = "start"
  <2>1. Sent("started") \in Call /\ CallOK(Sent("started"), attempt', now')
    BY <1>2, <1>3, SentFresh, Moves DEF Cause, Loads
  <2>2. QED
    BY <1>1, <1>3, <2>1, PutKeeps DEF Follow, RequestsOK
<1>4. CASE calls[c].why = "finish"
  <2>1. Sent("finished") \in Call /\ CallOK(Sent("finished"), attempt', now')
    BY <1>2, <1>4, SentFresh, Moves DEF Cause, Shut, Loads
  <2>2. QED
    BY <1>1, <1>4, <2>1, PutKeeps DEF Follow, RequestsOK
<1>5. QED
  BY <1>2, <1>3, <1>4 DEF Actions

-----------------------------------------------------------------------------

LEMMA InitInv == Init => Inv
<1> SUFFICES ASSUME Init PROVE Inv
  OBVIOUS
<1>1. TypeOK
  <2>1. skew \in Int /\ calls \in [Calls -> Call \cup {Null}]
    BY PageAssumption DEF Init
  <2>2. ~Running
    BY DEF Init, Running
  <2>3. 0 \in Nat /\ 0 \in Int
    OBVIOUS
  <2>4. QED
    BY <2>1, <2>2, <2>3, Zenon DEF Init, TypeOK
<1>2. PageOK /\ CountOK /\ CallsOK(calls, attempt, now)
  BY DEF Init, PageOK, CountOK, CallsOK, Running
<1>3. QED
  BY <1>1, <1>2 DEF Inv

LEMMA StepFine ==
    ASSUME Inv, [Next]_vars
    PROVE  PageFine' /\ RequestsOK /\ faults' \in Nat
<1>1. CASE Tick
  BY <1>1, PageKept, SameKeeps DEF Tick, page, RequestsOK, Inv, TypeOK
<1>2. CASE Elsewhere
  BY <1>2, PageKept, SameKeeps DEF Elsewhere, page, RequestsOK, Inv, TypeOK
<1>3. CASE UNCHANGED vars
  BY <1>3, PageKept, SameKeeps DEF vars, RequestsOK, Inv, TypeOK
<1>4. ASSUME NEW c \in Calls, Serve(c) \/ Lose(c) PROVE PageFine' /\ RequestsOK /\ faults' \in Nat
  <2>1. PageFine' /\ faults' \in Nat
    BY <1>4, PageKept DEF Serve, ReadAttempt, DecideAccess, StateStatus, StateTime, Act, Lose,
       page, Inv, TypeOK
  <2>2. RequestsOK
    BY <1>4, ReadKeeps, DecideKeeps, StatusKeeps, TimeKeeps, ActKeeps, LoseKeeps DEF Serve
  <2>3. QED
    BY <2>1, <2>2
<1>5. ASSUME NEW c \in Calls, Receive(c) \/ Refresh(c) \/ CountDown(c) \/ Start(c) \/ Finish(c)
      PROVE  PageFine' /\ RequestsOK /\ faults' \in Nat
  <2>1. faults' = faults
    BY <1>5 DEF Receive, Show, StartCountdown, ShowError, Follow, Refresh, CountDown, Start, Finish
  <2>2. QED
    BY <1>5, <2>1, ShowFine, StartCountdownFine, ShowErrorFine, FollowFine, RefreshFine, CountDownFine, StartFine,
       FinishFine DEF Receive, Inv, TypeOK
<1>6. QED
  BY <1>1, <1>2, <1>3, <1>4, <1>5 DEF Next

LEMMA StepInv == Inv /\ [Next]_vars => Inv'
<1> SUFFICES ASSUME Inv, [Next]_vars PROVE Inv'
  OBVIOUS
<1>1. PageFine' /\ RequestsOK /\ faults' \in Nat
  BY StepFine
<1>2. TypeOK'
  BY <1>1, Moves DEF PageFine, PageTyped, RequestsOK, Typed, Inv, TypeOK
<1>3. QED
  BY <1>1, <1>2 DEF PageFine, RequestsOK, Inv

LEMMA Always == Spec => []Inv
BY InitInv, StepInv, PTL DEF Spec

\* Every variable keeps to its type, and only a page with an attempt counts down.
THEOREM TypeCorrect == Spec => []TypeOK
<1>1. Inv => TypeOK
  BY DEF Inv
<1>2. QED
  BY <1>1, Always, PTL

\* However far the browser's clock is off and however late an answer comes, a
\* countdown that has been started leaves at least the time the server does, also
\* while a later answer is rendered whose effect has not run.
THEOREM CountdownIsFair == Spec => []NeverShort
<1>1. Inv => NeverShort
  BY DEF Inv, TypeOK, PageOK, CountOK, NeverShort, Running
<1>2. QED
  BY <1>1, Always, PTL

\* The load a countdown asks for at zero finds the attempt closed.
THEOREM ZeroIsTheEnd == Spec => []ZeroFindsItClosed
<1>1. Inv => ZeroFindsItClosed
  <2> SUFFICES ASSUME Inv, NEW c \in Calls, At(c, "answered"), calls[c].why = "zero"
               PROVE  calls[c].access = "practice" /\ calls[c].status \in Closed
    BY DEF ZeroFindsItClosed
  <2>1. Answer(calls[c], attempt, now) /\ HasRow(calls[c])
    BY Known DEF At, CallOK, HasRow, Loads
  <2>2. QED
    BY <2>1 DEF Answer, At
<1>2. QED
  BY <1>1, Always, PTL

\* The load after a start does not say "locked", the one after a finish says
\* "practice": the page waits for the answer to the first request.
THEOREM EffectsAreSeen == Spec => []ActionsShowTheirEffect
<1>1. Inv => ActionsShowTheirEffect
  <2> SUFFICES ASSUME Inv, NEW c \in Calls, At(c, "answered"),
                      calls[c].why \in {"started", "finished"}
               PROVE  /\ calls[c].why = "started" => calls[c].access # "locked"
                      /\ calls[c].why = "finished" => calls[c].access = "practice"
    BY DEF ActionsShowTheirEffect
  <2>1. Answer(calls[c], attempt, now) /\ HasRow(calls[c])
    BY Known DEF At, CallOK, HasRow, Loads
  <2>2. QED
    BY <2>1 DEF Answer, At
<1>2. QED
  BY <1>1, Always, PTL
=============================================================================
