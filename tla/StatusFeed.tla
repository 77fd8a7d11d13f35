----------------------------- MODULE StatusFeed -----------------------------
(***************************************************************************)
(* How the verdict on a submission gets back to the page that asked for    *)
(* it: the worker's messages on the Redis channel, the listener task of    *)
(* the API, its ConnectionManager and websocket endpoint, and the problem  *)
(* page with its socket, its 2 s fallback timer and its polling interval.  *)
(*                                                                         *)
(* What becomes of the submissions themselves is SubmissionLifecycle,      *)
(* which Contest implements; here its steps are those of the API and the   *)
(* judge.  Submissions are judged independently of one another, as several *)
(* workers would.                                                          *)
(*                                                                         *)
(* One page is modelled.  It opens one socket per submission, so a socket, *)
(* its endpoint coroutine and its entry in the manager are named by the    *)
(* submission.  "drops" bounds everything that breaks.                     *)
(***************************************************************************)
EXTENDS Naturals, Sequences

CONSTANTS
    Subs,         \* submissions the page may make
    Verdicts,     \* FINAL_STATUSES
    Slots,        \* bound on the polling requests under way at once
    MaxPolls,     \* polling gives up after this many attempts (30 in the page)
    MaxTimers,    \* bound on the polling intervals started
    MaxDrops,     \* bound on broken connections, failed requests, dead workers
    Null

ASSUME BoundsAssumption == MaxPolls \in Nat /\ MaxTimers \in Nat /\ MaxDrops \in Nat
ASSUME VerdictsAssumption == Verdicts \cap {"absent", "pending", "running"} = {}
ASSUME NullAssumption == Null \notin Subs \cup Verdicts \cup {"absent", "pending", "running"}

VARIABLES
    \* the judge and the submissions table
    status,       \* status[s]: "absent", "pending", "running" or a verdict
    unsaid,       \* submissions whose committed status is not published yet
    dead,         \* submissions whose worker died, or that were never queued
    \* the listener and the ConnectionManager
    subscribed,   \* the listener is subscribed to the channel
    chan,         \* messages on their way to it
    connection,   \* the submissions with a registered websocket
    \* the websocket endpoint
    epc,          \* where the coroutine of each socket is
    greet,        \* the status it read before it registered
    \* the browser's sockets and their timers
    sock,         \* state of each WebSocket object
    inbox,        \* frames on their way to it
    received,     \* receivedStatus of its closure: Null, or (history) the last one
    fallback,     \* its 2 s timer is running
    \* the page
    posts,        \* submissions being posted, whose answer is to come
    current,      \* history: the submission the user asked for last
    active,       \* executionActiveRef, and "executing"
    shown,        \* executionStatus
    about,        \* history: the submission that status was reported for
    wsRef,        \* wsRef.current
    timers,       \* the intervals started: submission and attempts of each
    poll,         \* pollRef.current: index of the running interval, or 0
    asked,        \* GET /submissions/{id} requests under way
    drops

judgeVars  == <<status, unsaid, dead>>
serverVars == <<subscribed, chan, connection, epc, greet>>
socketVars == <<sock, inbox, received, fallback>>
pollVars   == <<timers, poll, asked>>
pageVars   == <<posts, current, active, shown, about, wsRef>>
vars == <<judgeVars, serverVars, socketVars, pollVars, pageVars, drops>>

Lifecycle == INSTANCE SubmissionLifecycle WITH Ids <- Subs

Init ==
    /\ Lifecycle!LifecycleInit
    /\ unsaid = {} /\ dead = {}
    /\ subscribed = TRUE /\ chan = <<>> /\ connection = {}
    /\ epc = [s \in Subs |-> "none"]
    /\ greet = [s \in Subs |-> Null]
    /\ sock = [s \in Subs |-> "none"]
    /\ inbox = [s \in Subs |-> <<>>]
    /\ received = [s \in Subs |-> Null]
    /\ fallback = [s \in Subs |-> FALSE]
    /\ posts = {} /\ current = Null /\ active = FALSE
    /\ shown = Null /\ about = Null /\ wsRef = Null
    /\ timers = <<>> /\ poll = 0
    /\ asked = [k \in Slots |-> Null]
    /\ drops = 0

Break == drops < MaxDrops /\ drops' = drops + 1

-----------------------------------------------------------------------------
(* The judge *)

\* A status is committed, and only then published.
TakeUp(s) ==
    /\ s \notin dead
    /\ Lifecycle!TakeUp(s)
    /\ unsaid' = unsaid \cup {s}
    /\ UNCHANGED <<dead, serverVars, socketVars, pollVars, pageVars, drops>>

Decide(s, v) ==
    /\ s \notin dead \cup unsaid
    /\ Lifecycle!Decide(s, v)
    /\ unsaid' = unsaid \cup {s}
    /\ UNCHANGED <<dead, serverVars, socketVars, pollVars, pageVars, drops>>

\* PUBLISH reaches the listener if it is subscribed, and nobody otherwise.
Tell(m) == chan' = IF subscribed THEN Append(chan, m) ELSE chan

\* Mutant: the verdict is published before it is committed.
PublishEarly(s) ==
    /\ status[s] = "running" /\ s \notin dead
    /\ unsaid' = unsaid \ {s}
    /\ \E v \in Verdicts : Tell([id |-> s, status |-> v])
    /\ UNCHANGED <<status, dead, subscribed, connection, epc, greet,
                   socketVars, pollVars, pageVars, drops>>

Publish(s) ==
    /\ s \in unsaid \ dead
    /\ unsaid' = unsaid \ {s}
    /\ Tell([id |-> s, status |-> status[s]])
    /\ UNCHANGED <<status, dead, subscribed, connection, epc, greet,
                   socketVars, pollVars, pageVars, drops>>

\* The id is lost before it is queued, or with the worker that took it.
LoseJob(s) ==
    /\ s \notin dead
    /\ status[s] \in {"pending", "running"} \/ s \in unsaid
    /\ Break
    /\ dead' = dead \cup {s}
    /\ UNCHANGED <<status, unsaid, serverVars, socketVars, pollVars, pageVars>>

-----------------------------------------------------------------------------
(* The API process *)

\* The browser's end is still there to receive.
Alive(s) == sock[s] \in {"connecting", "open"}

\* The dictionary of the ConnectionManager.
Register(s)   == connection' = connection \cup {s}
Unregister(s) == connection' = connection \ {s}

\* Mutant: a socket is unregistered once it was sent a status.
SendOnce(s, st) ==
    /\ inbox' = IF s \in connection /\ Alive(s)
                THEN [inbox EXCEPT ![s] = Append(@, st)] ELSE inbox
    /\ Unregister(s)

\* manager.send drops a status without a registered socket, and unregisters a
\* socket it cannot send to, which it may notice late.
Send(s, st) ==
    IF s \in connection /\ Alive(s)
    THEN inbox' = [inbox EXCEPT ![s] = Append(@, st)] /\ UNCHANGED connection
    ELSE inbox' = inbox /\ (UNCHANGED connection \/ Unregister(s))

\* create_execution commits the row; its answer is under way.
Create(s) ==
    /\ s \in posts
    /\ Lifecycle!Submit(s)
    /\ UNCHANGED <<unsaid, dead, serverVars, socketVars, pollVars, pageVars, drops>>

\* Mutant: the socket is registered before the row is read, so that no message is
\* missed, and greeted after.
ReadStatusRegistered(s) ==
    /\ epc[s] = "reading"
    /\ epc' = [epc EXCEPT ![s] = "accepting"]
    /\ greet' = [greet EXCEPT ![s] = status[s]]
    /\ Register(s)
    /\ UNCHANGED <<judgeVars, subscribed, chan, socketVars, pollVars, pageVars, drops>>

\* websocket_endpoint reads the row in a session of its own ...
ReadStatus(s) ==
    /\ epc[s] = "reading"
    /\ epc' = [epc EXCEPT ![s] = "accepting"]
    /\ greet' = [greet EXCEPT ![s] = status[s]]
    /\ UNCHANGED <<judgeVars, subscribed, chan, connection,
                   socketVars, pollVars, pageVars, drops>>

\* ... and, once the socket is accepted, registers it and sends what it read.
Connect(s) ==
    /\ epc[s] = "accepting"
    /\ Register(s)
    /\ epc' = [epc EXCEPT ![s] = "receiving"]
    /\ inbox' = IF Alive(s) THEN [inbox EXCEPT ![s] = Append(@, greet[s])] ELSE inbox
    /\ greet' = [greet EXCEPT ![s] = Null]
    /\ UNCHANGED <<judgeVars, subscribed, chan, sock, received, fallback,
                   pollVars, pageVars, drops>>

\* That send is outside the try: if it raises, the socket stays registered.
GreetingFails(s) ==
    /\ epc[s] = "accepting" /\ ~Alive(s)
    /\ Register(s)
    /\ epc' = [epc EXCEPT ![s] = "gone"]
    /\ greet' = [greet EXCEPT ![s] = Null]
    /\ UNCHANGED <<judgeVars, subscribed, chan, socketVars, pollVars, pageVars, drops>>

\* receive_text raises once the browser is gone: manager.disconnect.
Disconnect(s) ==
    /\ epc[s] = "receiving" /\ ~Alive(s)
    /\ Unregister(s)
    /\ epc' = [epc EXCEPT ![s] = "gone"]
    /\ UNCHANGED <<judgeVars, subscribed, chan, greet, socketVars, pollVars, pageVars, drops>>

\* listen_for_updates hands the next message to the manager.
Deliver ==
    /\ chan # <<>>
    /\ chan' = Tail(chan)
    /\ Send(Head(chan).id, Head(chan).status)
    /\ UNCHANGED <<judgeVars, subscribed, epc, greet, sock, received, fallback,
                   pollVars, pageVars, drops>>

\* A RedisError ends the subscription with everything in it ...
Unsubscribe ==
    /\ subscribed
    /\ Break
    /\ subscribed' = FALSE /\ chan' = <<>>
    /\ UNCHANGED <<judgeVars, connection, epc, greet, socketVars, pollVars, pageVars>>

\* ... until the listener subscribes again a second later.
Subscribe ==
    /\ ~subscribed
    /\ subscribed' = TRUE
    /\ UNCHANGED <<judgeVars, chan, connection, epc, greet, socketVars, pollVars, pageVars, drops>>

-----------------------------------------------------------------------------
(* The page *)

\* Closing a socket that is not open yet makes it fail: an error event comes before
\* its close event.
Closed(st) == CASE st = "open"       -> "closing"
                [] st = "connecting" -> "failing"
                [] OTHER             -> st

\* clearConnections.  A closed socket hands out no more frames.
ClearConnections(frames) ==
    /\ inbox' = [s \in Subs |-> IF s = wsRef THEN <<>> ELSE frames[s]]
    /\ sock' = [s \in Subs |-> IF s = wsRef THEN Closed(sock[s]) ELSE sock[s]]
    /\ wsRef' = Null
    /\ poll' = 0

\* finishExecution(st), called for submission s, with these frames still to come.
FinishExecution(s, st, frames) ==
    /\ shown' = st /\ about' = s
    /\ IF st \in Verdicts
       THEN active' = FALSE /\ ClearConnections(frames)
       ELSE inbox' = frames /\ UNCHANGED <<active, sock, wsRef, poll>>

\* pollStatus(s): nothing, if an interval is running already.
PollStatus(s) ==
    IF poll # 0 THEN UNCHANGED <<timers, poll>>
    ELSE /\ Len(timers) < MaxTimers
         /\ timers' = Append(timers, [id |-> s, attempts |-> 0])
         /\ poll' = Len(timers')

\* The user runs or submits code: execute, up to the answer of its POST.
Execute(s) ==
    /\ ~active
    /\ status[s] = "absent" /\ s \notin posts
    /\ ClearConnections(inbox)
    /\ posts' = posts \cup {s} /\ current' = s
    /\ active' = TRUE
    /\ shown' = "pending" /\ about' = Null
    /\ UNCHANGED <<judgeVars, serverVars, received, fallback, timers, asked, drops>>

\* Mutant: the page does not wait for the answer.
FollowUnanswered(s) ==
    /\ s \in posts
    /\ posts' = posts \ {s}
    /\ wsRef' = s
    /\ sock' = [sock EXCEPT ![s] = "connecting"]
    /\ fallback' = [fallback EXCEPT ![s] = TRUE]
    /\ epc' = [epc EXCEPT ![s] = "reading"]
    /\ UNCHANGED <<judgeVars, subscribed, chan, connection, greet, inbox, received,
                   pollVars, current, active, shown, about, drops>>

\* The answer arrives: followSubmission opens a socket and sets its fallback.
Follow(s) ==
    /\ s \in posts /\ status[s] # "absent"
    /\ posts' = posts \ {s}
    /\ wsRef' = s
    /\ sock' = [sock EXCEPT ![s] = "connecting"]
    /\ fallback' = [fallback EXCEPT ![s] = TRUE]
    /\ epc' = [epc EXCEPT ![s] = "reading"]
    /\ UNCHANGED <<judgeVars, subscribed, chan, connection, greet, inbox, received,
                   pollVars, current, active, shown, about, drops>>

PostFails(s) ==
    /\ s \in posts
    /\ Break
    /\ posts' = posts \ {s}
    /\ active' = FALSE
    /\ shown' = Null /\ about' = Null
    /\ UNCHANGED <<judgeVars, serverVars, socketVars, pollVars, current, wsRef>>

Opened(s) ==
    /\ sock[s] = "connecting" /\ epc[s] = "receiving"
    /\ sock' = [sock EXCEPT ![s] = "open"]
    /\ UNCHANGED <<judgeVars, serverVars, inbox, received, fallback, pollVars, pageVars, drops>>

OnMessage(s) ==
    /\ sock[s] = "open" /\ inbox[s] # <<>>
    /\ received' = [received EXCEPT ![s] = Head(inbox[s])]
    /\ fallback' = [fallback EXCEPT ![s] = FALSE]
    /\ FinishExecution(s, Head(inbox[s]), [inbox EXCEPT ![s] = Tail(@)])
    /\ UNCHANGED <<judgeVars, serverVars, timers, asked, posts, current, drops>>

OnError(s) ==
    /\ sock[s] = "failing"
    /\ sock' = [sock EXCEPT ![s] = "closing"]
    /\ fallback' = [fallback EXCEPT ![s] = FALSE]
    /\ PollStatus(s)
    /\ UNCHANGED <<judgeVars, serverVars, inbox, received, asked, pageVars, drops>>

OnClose(s) ==
    /\ sock[s] = "closing"
    /\ sock' = [sock EXCEPT ![s] = "closed"]
    /\ fallback' = [fallback EXCEPT ![s] = FALSE]
    /\ IF active /\ received[s] = Null THEN PollStatus(s) ELSE UNCHANGED <<timers, poll>>
    /\ UNCHANGED <<judgeVars, serverVars, inbox, received, asked, pageVars, drops>>

\* Mutant: the fallback gives up instead of polling.
FallbackFiresIdle(s) ==
    /\ fallback[s]
    /\ fallback' = [fallback EXCEPT ![s] = FALSE]
    /\ UNCHANGED <<judgeVars, serverVars, sock, inbox, received, pollVars, pageVars, drops>>

FallbackFires(s) ==
    /\ fallback[s]
    /\ fallback' = [fallback EXCEPT ![s] = FALSE]
    /\ IF received[s] = Null THEN PollStatus(s) ELSE UNCHANGED <<timers, poll>>
    /\ UNCHANGED <<judgeVars, serverVars, sock, inbox, received, asked, pageVars, drops>>

\* The connection breaks under the page, with what was on its way.
BreakSocket(s) ==
    /\ Alive(s)
    /\ Break
    /\ \E st \in {"failing", "closing"} :
          /\ sock[s] = "connecting" => st = "failing"
          /\ sock' = [sock EXCEPT ![s] = st]
    /\ inbox' = [inbox EXCEPT ![s] = <<>>]
    /\ UNCHANGED <<judgeVars, serverVars, received, fallback, pollVars, pageVars>>

\* The count of attempts stops mattering at MaxPolls.
Attempted(t) ==
    [id |-> t.id, attempts |-> IF t.attempts < MaxPolls THEN t.attempts + 1 ELSE t.attempts]

\* Each second the interval counts an attempt and asks again, whether or not
\* the last answer has come.
Tick(k) ==
    /\ poll # 0 /\ asked[k] = Null
    /\ timers' = [timers EXCEPT ![poll] = Attempted(@)]
    /\ asked' = [asked EXCEPT ![k] = [timer |-> poll, got |-> Null]]
    /\ UNCHANGED <<judgeVars, serverVars, socketVars, poll, pageVars, drops>>

GetSubmission(k) ==
    /\ asked[k] # Null /\ asked[k].got = Null
    /\ asked' = [asked EXCEPT ![k] =
          [timer |-> @.timer, got |-> status[timers[@.timer].id]]]
    /\ UNCHANGED <<judgeVars, serverVars, socketVars, timers, poll, pageVars, drops>>

\* Mutant: attempts are counted and never compared.
GivesUpNever(t, st) == FALSE

\* The answer to an attempt: it clears whatever interval is running by now.
GivesUp(t, st) == t.attempts >= MaxPolls /\ st \notin Verdicts

Polled(k) ==
    /\ asked[k] # Null /\ asked[k].got # Null
    /\ LET t == timers[asked[k].timer]
           st == asked[k].got IN
       IF GivesUp(t, st)
       THEN /\ shown' = st /\ about' = t.id
            /\ active' = FALSE /\ poll' = 0
            /\ UNCHANGED <<sock, inbox, wsRef>>
       ELSE FinishExecution(t.id, st, inbox)
    /\ asked' = [asked EXCEPT ![k] = Null]
    /\ UNCHANGED <<judgeVars, serverVars, received, fallback, timers,
                   posts, current, drops>>

PollFails(k) ==
    /\ asked[k] # Null
    /\ Break
    /\ active' = FALSE /\ poll' = 0
    /\ asked' = [asked EXCEPT ![k] = Null]
    /\ UNCHANGED <<judgeVars, serverVars, socketVars, timers,
                   posts, current, shown, about, wsRef>>

-----------------------------------------------------------------------------

WorkerStep(s) == TakeUp(s) \/ Publish(s) \/ \E v \in Verdicts : Decide(s, v)
EndpointStep(s) == ReadStatus(s) \/ Connect(s) \/ GreetingFails(s) \/ Disconnect(s)
SocketStep(s) == Opened(s) \/ OnMessage(s) \/ OnError(s) \/ OnClose(s)
PollStep(k) == GetSubmission(k) \/ Polled(k)

Next ==
    \/ \E s \in Subs :
          \/ Execute(s) \/ Create(s) \/ Follow(s) \/ PostFails(s)
          \/ WorkerStep(s) \/ LoseJob(s)
          \/ EndpointStep(s)
          \/ SocketStep(s) \/ FallbackFires(s) \/ BreakSocket(s)
    \/ \E k \in Slots : Tick(k) \/ PollStep(k) \/ PollFails(k)
    \/ Deliver \/ Subscribe \/ Unsubscribe

Spec == Init /\ [][Next]_vars

\* Event loops run what is due, timers fire, requests that do not fail are
\* answered, and live workers go on.  Users need not do anything, and nothing
\* needs to break.
Fairness ==
    /\ \A s \in Subs : /\ WF_vars(Create(s)) /\ WF_vars(Follow(s))
                       /\ WF_vars(WorkerStep(s)) /\ WF_vars(EndpointStep(s))
                       /\ WF_vars(SocketStep(s)) /\ WF_vars(FallbackFires(s))
    /\ \A k \in Slots : WF_vars(PollStep(k))
    /\ WF_vars(\E k \in Slots : Tick(k))
    /\ WF_vars(Deliver) /\ WF_vars(Subscribe)

FairSpec == Spec /\ Fairness

-----------------------------------------------------------------------------
(* Properties *)

Statuses == {"pending", "running"} \cup Verdicts
Rank(st) == CASE st = "pending" -> 0 [] st = "running" -> 1 [] OTHER -> 2

\* Every variable keeps to its type.
TypeOK ==
    /\ status \in [Subs -> Statuses \cup {"absent"}]
    /\ unsaid \subseteq Subs /\ dead \subseteq Subs /\ connection \subseteq Subs
    /\ subscribed \in BOOLEAN
    /\ chan \in Seq([id : Subs, status : Statuses])
    /\ epc \in [Subs -> {"none", "reading", "accepting", "receiving", "gone"}]
    /\ greet \in [Subs -> Statuses \cup {Null}]
    /\ sock \in [Subs -> {"none", "connecting", "open", "failing", "closing", "closed"}]
    /\ inbox \in [Subs -> Seq(Statuses)]
    /\ received \in [Subs -> Statuses \cup {Null}] /\ fallback \in [Subs -> BOOLEAN]
    /\ posts \subseteq Subs
    /\ active \in BOOLEAN
    /\ shown \in Statuses \cup {Null}
    /\ current \in Subs \cup {Null} /\ about \in Subs \cup {Null} /\ wsRef \in Subs \cup {Null}
    /\ timers \in Seq([id : Subs, attempts : 0..MaxPolls])
    /\ poll \in 0..Len(timers)
    /\ asked \in [Slots -> [timer : 1..Len(timers), got : Statuses \cup {Null}] \cup {Null}]
    /\ drops \in 0..MaxDrops

\* Whichever way a verdict reached the page, through whatever broke, it is the
\* one committed for the submission it was reported for.
VerdictsAreStored ==
    shown \in Verdicts => about # Null /\ status[about] = shown

\* The page never reads an older status after a newer one on the socket it follows,
\* although what that is greeted with was read before it was registered with the
\* listener.  Frames behind a verdict may be older: the greeting may have read the
\* verdict while "running" was still on its way to the listener.  The page closes the
\* socket at the verdict and reads none of them.
SocketInOrder ==
    [][\A s \in Subs : wsRef = s /\ received'[s] # received[s] =>
          received[s] = Null \/ Rank(received[s]) < Rank(received'[s])]_vars

\* The page never waits on a socket that has been silent with nothing else to
\* turn to: its fallback, a poll, or the event that it is closed is to come.
SilentSocketIsCovered ==
    \A s \in Subs : active /\ wsRef = s /\ received[s] = Null =>
        fallback[s] \/ poll # 0 \/ sock[s] \in {"failing", "closing"}

\* Once the page polls, the execution ends: with a verdict, the message that
\* judging takes long, or an error.
PollingEnds == poll # 0 ~> ~active

\* A socket that is open before its submission is judged is closed by the page
\* with the verdict, unless something breaks.
OpenFeedDelivers ==
    \A s \in Subs : sock[s] = "open" /\ status[s] \notin Verdicts
                       ~> sock[s] # "open" \/ drops > 0

-----------------------------------------------------------------------------
(* What the page and the documentation say, which not every run bears out *)

\* README.md:3, main.py:77: the page receives the result of what it ran.
ExecutionEnds == active ~> ~active

\* QuestionDetail.tsx:198: a status counts only for the submission followed.
ShowsOwnStatus == about # Null => about = current

=============================================================================
