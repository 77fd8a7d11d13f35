---------------------------- MODULE ContestPage ----------------------------
(***************************************************************************)
(* The contest page (TestDetail.tsx) and its countdown (contestTime.ts,    *)
(* contestClock.ts) against the API that knows the deadline.               *)
(*                                                                         *)
(* The page loads the contest when it opens, every 30 seconds, whenever it *)
(* gets the focus, when its countdown reaches zero and after a start or a  *)
(* finish.  The loads overlap, their answers come in any order or not at   *)
(* all, and whichever comes last is shown.  The server reads its clock     *)
(* anew for each thing it decides about an answer, and the browser's clock *)
(* is off by a skew nobody knows: the countdown goes by the server's time  *)
(* in the answer, less what the browser's clock showed when it arrived.    *)
(*                                                                         *)
(* Time is in half seconds: what the browser drops of the microseconds in  *)
(* an answer is far below that.  The attempts row and the two handlers     *)
(* that write it are Contest's, here in one step each; the attempt may     *)
(* also be started or finished elsewhere, in another tab or by another     *)
(* request.                                                                *)
(***************************************************************************)
EXTENDS Integers, FiniteSets

CONSTANTS
    Calls,        \* requests of the page that may be under way at once (bound)
    Duration,     \* Test.duration
    Skews,        \* what the browser's clock may be off by
    MaxNow,       \* bound on the clock
    MaxFaults,    \* bound on the requests that fail
    Null

TicksPerSecond == 2

Row == [expires: Nat, submitted: Nat \cup {Null}]
Closed == {"completed", "expired"}

\* Why the page sent a request; a start and a finish are followed by a load.
Loads   == {"refresh", "zero", "started", "finished"}
Actions == {"start", "finish"}

\* A request: how far it is, the row its session has, and what the answer says.
\* A load that is "rendered" has still to run the effect of its countdown.
Call == [why: Loads \cup Actions,
         at: {"sent", "read", "decided", "stated", "answered", "failed", "rendered"},
         row: Row \cup {Null},
         access: {"locked", "timed", "practice", Null},
         status: {"not_started", "active", Null} \cup Closed,
         time: Nat \cup {Null}]

\* What an interval of the countdown closes over: one effect's attempt, its offset,
\* and whether it has asked for a reload.
Interval == [expires: Nat, offset: Int, expired: BOOLEAN]

\* What the page keeps of an answer.
View == [access: {"locked", "timed", "practice"},
         status: {"not_started", "active"} \cup Closed,
         expires: Nat \cup {Null}]

ASSUME PageAssumption == /\ Duration \in Nat /\ MaxNow \in Nat /\ MaxFaults \in Nat
                         /\ Skews \subseteq Int
ASSUME NullAssumption == Null \notin Int \cup STRING /\ Null \notin Row /\ Null \notin Call /\ Null \notin View
                          /\ Null \notin Interval

VARIABLES
    now,        \* the server's clock
    skew,       \* the browser's clock less the server's
    attempt,    \* the attempts row, or Null
    calls,      \* the requests of the page under way
    shown,      \* what the page has of the last answer (test), or Null
    offset,     \* serverOffsetMs of the attempt shown
    remaining,  \* seconds on the countdown
    interval,   \* the interval that is running, or Null
    busy,       \* actionLoading
    faults      \* requests that have failed

vars == <<now, skew, attempt, calls, shown, offset, remaining, interval, busy, faults>>

-----------------------------------------------------------------------------
(* The server *)

\* Mutant: the last moment still counts as open.
AttemptStatusInclusive(a, t) ==
    IF a = Null THEN "not_started"
    ELSE IF a.submitted # Null
         THEN IF a.submitted >= a.expires THEN "expired" ELSE "completed"
         ELSE IF t > a.expires THEN "expired" ELSE "active"

\* attempt_status
AttemptStatus(a, t) ==
    IF a = Null THEN "not_started"
    ELSE IF a.submitted # Null
         THEN IF a.submitted >= a.expires THEN "expired" ELSE "completed"
         ELSE IF t >= a.expires THEN "expired" ELSE "active"

\* sync_attempt: one that ran out is closed with its own deadline.
Sync(a) ==
    IF a # Null /\ AttemptStatus(a, now) = "expired" /\ a.submitted = Null
    THEN [a EXCEPT !.submitted = a.expires] ELSE a

AccessState(status) ==
    CASE status = "not_started" -> "locked"
      [] status = "active" -> "timed"
      [] OTHER -> "practice"

\* Mutant: no deadline is computed.
StartedWithoutDeadline == IF attempt = Null THEN [expires |-> Null, submitted |-> Null]
                          ELSE Sync(attempt)

\* start_attempt and finish_test_attempt.
Started == IF attempt = Null THEN [expires |-> now + Duration, submitted |-> Null]
           ELSE Sync(attempt)
Finished == LET a == Sync(attempt) IN
            IF a # Null /\ a.submitted = Null THEN [a EXCEPT !.submitted = now] ELSE a

-----------------------------------------------------------------------------
(* Requests of the page and their handling *)

Sent(why) == [why |-> why, at |-> "sent", row |-> Null,
              access |-> Null, status |-> Null, time |-> Null]

page == <<shown, offset, remaining, interval, busy>>

Put(c, call) == calls' = [calls EXCEPT ![c] = call]
At(c, at) == calls[c] # Null /\ calls[c].at = at

\* get_user_attempt of a load: the row is read, and closed if it ran out.
ReadAttempt(c) ==
    /\ At(c, "sent") /\ calls[c].why \in Loads
    /\ attempt' = Sync(attempt)
    /\ Put(c, [calls[c] EXCEPT !.at = "read", !.row = Sync(attempt)])
    /\ UNCHANGED <<now, skew, page, faults>>

\* test_response decides what may be seen, ...
DecideAccess(c) ==
    /\ At(c, "read")
    /\ Put(c, [calls[c] EXCEPT !.at = "decided",
                 !.access = AccessState(AttemptStatus(calls[c].row, now))])
    /\ UNCHANGED <<now, skew, attempt, page, faults>>

\* ... attempt_response states the status, by another look at the clock, ...
StateStatus(c) ==
    /\ At(c, "decided")
    /\ Put(c, [calls[c] EXCEPT !.at = "stated", !.status = AttemptStatus(calls[c].row, now)])
    /\ UNCHANGED <<now, skew, attempt, page, faults>>

\* ... and the server_time, by a third.
StateTime(c) ==
    /\ At(c, "stated")
    /\ Put(c, [calls[c] EXCEPT !.at = "answered", !.time = now])
    /\ UNCHANGED <<now, skew, attempt, page, faults>>

\* start_test_attempt or finish_test_attempt.
Act(c) ==
    /\ At(c, "sent") /\ calls[c].why \in Actions
    /\ attempt' = IF calls[c].why = "start" THEN Started ELSE Finished
    /\ Put(c, [calls[c] EXCEPT !.at = "answered"])
    /\ UNCHANGED <<now, skew, page, faults>>

\* The request or its answer is lost, or the server fails.
Lose(c) ==
    /\ calls[c] # Null /\ calls[c].at \notin {"failed", "rendered"}
    /\ faults < MaxFaults
    /\ faults' = faults + 1
    /\ Put(c, [Sent(calls[c].why) EXCEPT !.at = "failed"])
    /\ UNCHANGED <<now, skew, attempt, page>>

-----------------------------------------------------------------------------
(* The page *)

\* Mutant: whole seconds are counted down.
SecondsFloor(ticks) == IF ticks <= 0 THEN 0 ELSE ticks \div TicksPerSecond

\* Math.max(0, Math.ceil(... / 1000))
Seconds(ticks) ==
    IF ticks <= 0 THEN 0 ELSE (ticks + TicksPerSecond - 1) \div TicksPerSecond

\* Mutant: the browser's clock is believed.
GetServerOffsetIgnored(server_time) == 0

GetServerOffset(server_time) == server_time - (now + skew)

GetRemainingSeconds(expires, o) == Seconds(expires - (now + skew + o))

\* A load is answered and rendered, once the effect of the last one has run.  The
\* number on the countdown is still the one that was there: 0, when the page opens.
Show(c) ==
    /\ At(c, "answered") /\ calls[c].why \in Loads
    /\ \A d \in Calls : ~At(d, "rendered")
    /\ LET r == calls[c] IN
       /\ shown' = [access |-> r.access, status |-> r.status,
                    expires |-> IF r.row = Null THEN Null ELSE r.row.expires]
       /\ offset' = IF r.row = Null THEN 0 ELSE GetServerOffset(r.time)
       /\ Put(c, [Sent(r.why) EXCEPT !.at = "rendered"])
       /\ busy' = (busy /\ r.why \in {"refresh", "zero"})
    /\ UNCHANGED <<now, skew, attempt, remaining, interval, faults>>

Running == shown # Null /\ shown.status = "active"

\* Then its effect runs: the old interval is cleared, and an active attempt updates
\* the countdown and starts a new one, or finds itself at zero: another load.
StartCountdown(c) ==
    /\ At(c, "rendered")
    /\ IF Running
       THEN LET left == GetRemainingSeconds(shown.expires, offset) IN
            /\ remaining' = left
            /\ interval' = [expires |-> shown.expires, offset |-> offset, expired |-> left = 0]
            /\ Put(c, IF left = 0 THEN Sent("zero") ELSE Null)
       ELSE remaining' = remaining /\ interval' = Null /\ Put(c, Null)
    /\ UNCHANGED <<now, skew, attempt, shown, offset, busy, faults>>

\* An error is shown above what was there before.
ShowError(c) ==
    /\ At(c, "failed")
    /\ Put(c, Null)
    /\ busy' = (busy /\ calls[c].why \in {"refresh", "zero"})
    /\ UNCHANGED <<now, skew, attempt, shown, offset, remaining, interval, faults>>

\* The page opens, gets the focus, or its 30 seconds are over.
RefreshNever(c) ==
    /\ calls[c] = Null /\ shown = Null
    /\ Put(c, Sent("refresh"))
    /\ UNCHANGED <<now, skew, attempt, page, faults>>

Refresh(c) ==
    /\ calls[c] = Null
    /\ Put(c, Sent("refresh"))
    /\ UNCHANGED <<now, skew, attempt, page, faults>>

\* The interval of the countdown: at zero, once, the contest is loaded again.  It
\* may fire once more between the rendering of an answer and its effect.
CountDown(c) ==
    /\ interval # Null
    /\ remaining' = GetRemainingSeconds(interval.expires, interval.offset)
    /\ IF remaining' = 0 /\ ~interval.expired
       THEN /\ calls[c] = Null
            /\ Put(c, Sent("zero"))
            /\ interval' = [interval EXCEPT !.expired = TRUE]
       ELSE UNCHANGED <<calls, interval>>
    /\ UNCHANGED <<now, skew, attempt, shown, offset, busy, faults>>

\* "Start contest"
Start(c) ==
    /\ shown # Null /\ shown.access = "locked" /\ ~busy
    /\ calls[c] = Null
    /\ Put(c, Sent("start"))
    /\ busy' = TRUE
    /\ UNCHANGED <<now, skew, attempt, shown, offset, remaining, interval, faults>>

\* "Finish contest", confirmed.
Finish(c) ==
    /\ shown # Null /\ shown.access = "timed" /\ ~busy
    /\ calls[c] = Null
    /\ Put(c, Sent("finish"))
    /\ busy' = TRUE
    /\ UNCHANGED <<now, skew, attempt, shown, offset, remaining, interval, faults>>

\* Mutant: the load does not wait for the answer to the start or finish.
FollowAtOnce(c) ==
    /\ calls[c] # Null /\ calls[c].at \in {"sent", "answered"} /\ calls[c].why \in Actions
    /\ Put(c, Sent(IF calls[c].why = "start" THEN "started" ELSE "finished"))
    /\ UNCHANGED <<now, skew, attempt, shown, offset, remaining, interval, busy, faults>>

\* A start or finish has been answered: the page loads the contest.
Follow(c) ==
    /\ At(c, "answered") /\ calls[c].why \in Actions
    /\ Put(c, Sent(IF calls[c].why = "start" THEN "started" ELSE "finished"))
    /\ UNCHANGED <<now, skew, attempt, shown, offset, remaining, interval, busy, faults>>

-----------------------------------------------------------------------------

\* Another tab, or another request of the user.
Elsewhere ==
    /\ attempt' \in {Started, Finished, Sync(attempt)}
    /\ attempt' # attempt
    /\ UNCHANGED <<now, skew, calls, page, faults>>

Tick ==
    /\ now < MaxNow
    /\ now' = now + 1
    /\ UNCHANGED <<skew, attempt, calls, page, faults>>

Init ==
    /\ now = 0
    /\ skew \in Skews
    /\ attempt = Null
    /\ calls = [c \in Calls |-> Null]
    /\ shown = Null /\ offset = 0 /\ remaining = 0
    /\ interval = Null /\ busy = FALSE
    /\ faults = 0

Serve(c) == ReadAttempt(c) \/ DecideAccess(c) \/ StateStatus(c) \/ StateTime(c) \/ Act(c)
Receive(c) == Show(c) \/ StartCountdown(c) \/ ShowError(c) \/ Follow(c)

Next ==
    \/ Tick \/ Elsewhere
    \/ \E c \in Calls : \/ Serve(c) \/ Lose(c) \/ Receive(c)
                        \/ Refresh(c) \/ CountDown(c) \/ Start(c) \/ Finish(c)

Spec == Init /\ [][Next]_vars

\* Time goes on, every request is handled and its answer received, and the
\* interval of 30 seconds fires as long as the page is open.
Fairness == /\ WF_vars(Tick)
            /\ \A c \in Calls : WF_vars(Serve(c)) /\ WF_vars(Receive(c))
            /\ WF_vars(\E c \in Calls : Refresh(c))

FairSpec == Spec /\ Fairness

-----------------------------------------------------------------------------
(* Properties *)

\* Every variable keeps to its type, and only a page with an attempt counts down.
TypeOK ==
    /\ now \in Nat /\ skew \in Int /\ faults \in Nat
    /\ attempt \in Row \cup {Null}
    /\ calls \in [Calls -> Call \cup {Null}]
    /\ shown \in View \cup {Null}
    /\ offset \in Int /\ remaining \in Nat
    /\ interval \in Interval \cup {Null} /\ busy \in BOOLEAN
    /\ Running => shown.expires # Null

\* Once a countdown has been started it never shows less time than there is, by
\* however much the browser's clock is off and however long answers take, and also
\* while another answer is rendered: who reads a second on it still has part of that
\* second, and at zero the deadline has passed.  Before the first start the number
\* is 0, which the page renders once although there is time.
NeverShort == Running /\ interval # Null => remaining * TicksPerSecond >= shown.expires - now

\* The load a countdown asks for at zero is answered with a closed attempt, so
\* that the page does not count down to zero again and again.
ZeroFindsItClosed ==
    \A c \in Calls : At(c, "answered") /\ calls[c].why = "zero" =>
        calls[c].access = "practice" /\ calls[c].status \in Closed

\* The load that follows a start finds the contest open or closed, and the one
\* that follows a finish finds it closed.
ActionsShowTheirEffect ==
    \A c \in Calls : At(c, "answered") =>
        /\ calls[c].why = "started" => calls[c].access # "locked"
        /\ calls[c].why = "finished" => calls[c].access = "practice"

\* Once an attempt is closed, on time or by the clock, the page shows it as
\* practice in the end and keeps to that: answers that were overtaken, answers
\* that disagree with themselves and lost requests are healed by the next load.
AttemptClosed == attempt # Null /\ (attempt.submitted # Null \/ now >= attempt.expires)
ClosedIsShown ==
    AttemptClosed ~> [](shown # Null /\ shown.access = "practice" /\ ~Running)

=============================================================================
