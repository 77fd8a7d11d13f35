-------------------------- MODULE StatusFeedProofs --------------------------
(***************************************************************************)
(* What the page is shown, for any number of submissions, polls and        *)
(* failures.  Every copy of a verdict under way -- a published message, a  *)
(* greeting, a frame, the answer to a poll -- is the verdict stored,       *)
(* because a status is told only after it is committed and a stored        *)
(* verdict is never replaced.  "pending" is never published: it reaches a  *)
(* socket only as its greeting, before which the socket is not registered. *)
(***************************************************************************)
EXTENDS StatusFeed, SequenceTheorems, TLAPS

Told(s, st) == st \in Verdicts => status[s] = st

Message == [id : Subs, status : Statuses]

JudgeInv ==
    /\ status \in [Subs -> Statuses \cup {"absent"}]
    /\ unsaid \subseteq Subs /\ dead \subseteq Subs
    /\ \A s \in unsaid : status[s] \notin {"absent", "pending"}

\* The channel carries what is stored, or has been.
ChanInv ==
    /\ subscribed \in BOOLEAN
    /\ chan \in Seq(Message)
    /\ \A i \in 1..Len(chan) : Told(chan[i].id, chan[i].status) /\ chan[i].status # "pending"

EndpointInv ==
    /\ epc \in [Subs -> {"none", "reading", "accepting", "receiving", "gone"}]
    /\ greet \in [Subs -> Statuses \cup {Null}]
    /\ connection \subseteq Subs
    /\ \A s \in posts : epc[s] = "none"
    /\ \A s \in Subs :
          /\ epc[s] # "none" => status[s] # "absent"
          /\ epc[s] = "accepting" => greet[s] # Null
          /\ s \in connection => epc[s] \in {"receiving", "gone"}
          /\ Told(s, greet[s])

SocketInv ==
    /\ sock \in [Subs -> {"none", "connecting", "open", "failing", "closing", "closed"}]
    /\ \A s \in Subs : sock[s] # "none" => status[s] # "absent"

TimerInv ==
    /\ received \in [Subs -> Statuses \cup {Null}] /\ fallback \in [Subs -> BOOLEAN]
    /\ \A s \in Subs : fallback[s] => status[s] # "absent"

\* Only its first frame may be a greeting.
FrameInv ==
    /\ inbox \in [Subs -> Seq(Statuses)]
    /\ \A s \in Subs :
          /\ inbox[s] # <<>> => epc[s] \in {"receiving", "gone"}
          /\ \A i \in 1..Len(inbox[s]) :
                Told(s, inbox[s][i]) /\ (inbox[s][i] = "pending" => i = 1)

PollInv ==
    /\ timers \in Seq([id : Subs, attempts : 0..MaxPolls])
    /\ \A i \in 1..Len(timers) : timers[i].id \in Subs /\ status[timers[i].id] # "absent"
    /\ poll \in 0..Len(timers)

AskedInv ==
    /\ asked \in [Slots -> [timer : 1..Len(timers), got : Statuses \cup {Null}] \cup {Null}]
    /\ \A k \in Slots : asked[k] # Null => Told(timers[asked[k].timer].id, asked[k].got)

PageInv ==
    /\ posts \subseteq Subs
    /\ active \in BOOLEAN
    /\ shown \in Statuses \cup {Null}
    /\ current \in Subs \cup {Null} /\ about \in Subs \cup {Null} /\ wsRef \in Subs \cup {Null}
    /\ drops \in 0..MaxDrops
    /\ VerdictsAreStored

Inv ==
    /\ JudgeInv /\ ChanInv /\ EndpointInv /\ SocketInv /\ TimerInv
    /\ FrameInv /\ PollInv /\ AskedInv /\ PageInv

-----------------------------------------------------------------------------

LEMMA InitInv == Init => Inv
<1> SUFFICES ASSUME Init PROVE Inv
  OBVIOUS
<1> USE NullAssumption, BoundsAssumption DEF Init, Statuses, Lifecycle!LifecycleInit, Told
<1>1. JudgeInv /\ EndpointInv /\ SocketInv
  BY DEF JudgeInv, EndpointInv, SocketInv
<1>2. TimerInv
  BY DEF TimerInv
<1>3. chan = <<>> /\ \A s \in Subs : inbox[s] = <<>>
  OBVIOUS
<1>4. ChanInv /\ FrameInv
  <2>1. chan \in Seq(Message) /\ inbox \in [Subs -> Seq(Statuses)]
    BY EmptySeq
  <2>2. Len(chan) = 0 /\ \A s \in Subs : Len(inbox[s]) = 0
    BY <1>3
  <2>3. QED
    BY <1>3, <2>1, <2>2 DEF ChanInv, FrameInv
<1>5. PollInv /\ AskedInv
  <2>1. timers = <<>> /\ Len(timers) = 0 /\ timers \in Seq([id : Subs, attempts : 0..MaxPolls])
    OBVIOUS
  <2>2. QED
    BY <2>1 DEF PollInv, AskedInv
<1>6. PageInv
  <2>1. active \in BOOLEAN
    BY Zenon
  <2>2. drops \in 0..MaxDrops /\ posts \subseteq Subs
    OBVIOUS
  <2>3. VerdictsAreStored
    BY DEF VerdictsAreStored
  <2>4. QED
    BY <2>1, <2>2, <2>3 DEF PageInv
<1>7. QED
  BY <1>1, <1>2, <1>4, <1>5, <1>6 DEF Inv

\* A submission does not disappear, and its verdict is not replaced.
LEMMA StatusStep ==
    ASSUME Inv, [Next]_vars
    PROVE  /\ JudgeInv'
           /\ \A s \in Subs : status[s] # "absent" => status'[s] # "absent"
           /\ \A s \in Subs : status[s] \in Verdicts => status'[s] = status[s]
<1> USE VerdictsAssumption DEF Inv, JudgeInv, Statuses
<1>1. ASSUME NEW s \in Subs, TakeUp(s) \/ Create(s) \/ Publish(s) \/ LoseJob(s)
      PROVE  /\ JudgeInv'
             /\ \A r \in Subs : status[r] # "absent" => status'[r] # "absent"
             /\ \A r \in Subs : status[r] \in Verdicts => status'[r] = status[r]
  BY <1>1 DEF TakeUp, Create, Publish, LoseJob, Lifecycle!TakeUp, Lifecycle!Submit
<1>2. ASSUME NEW s \in Subs, NEW v \in Verdicts, Decide(s, v)
      PROVE  /\ JudgeInv'
             /\ \A r \in Subs : status[r] # "absent" => status'[r] # "absent"
             /\ \A r \in Subs : status[r] \in Verdicts => status'[r] = status[r]
  BY <1>2 DEF Decide, Lifecycle!Decide
<1>3. UNCHANGED judgeVars
        \/ \E s \in Subs : \/ TakeUp(s) \/ Create(s) \/ Publish(s) \/ LoseJob(s)
                           \/ \E v \in Verdicts : Decide(s, v)
  BY ZenonT(60) DEF Next, WorkerStep, EndpointStep, SocketStep, PollStep, vars, Execute, Create,
     Follow, PostFails, LoseJob, Publish, TakeUp, Decide, ReadStatus, Connect, GreetingFails,
     Disconnect, Opened, OnMessage, OnError, OnClose, FallbackFires, BreakSocket, Tick,
     GetSubmission, Polled, PollFails, Deliver, Subscribe, Unsubscribe, judgeVars
<1>4. CASE UNCHANGED judgeVars
  BY <1>4 DEF judgeVars
<1>5. QED
  BY <1>1, <1>2, <1>3, <1>4

LEMMA ToldForGood ==
    ASSUME Inv, [Next]_vars, NEW s \in Subs, NEW st, Told(s, st) PROVE Told(s, st)'
BY StatusStep DEF Told

-----------------------------------------------------------------------------
(* The API process *)

LEMMA ChanStep ==
    ASSUME Inv, [Next]_vars PROVE ChanInv'
<1> USE DEF Inv, ChanInv, Message
<1>1. ASSUME subscribed' \in BOOLEAN, chan' \in Seq(Message),
             \A i \in 1..Len(chan') : /\ Told(chan'[i].id, chan'[i].status)
                                      /\ chan'[i].status # "pending"
      PROVE  ChanInv'
  <2> SUFFICES ASSUME NEW i \in 1..Len(chan')
               PROVE  Told(chan[i].id, chan[i].status)'
    BY <1>1
  <2>1. chan'[i].id \in Subs /\ Told(chan'[i].id, chan'[i].status)
    <3>1. chan'[i] \in Message
      BY <1>1, ElementOfSeq, Zenon
    <3>2. QED
      BY <1>1, <3>1
  <2>2. QED
    BY <2>1, StatusStep DEF Told
<1>2. ASSUME NEW s \in Subs, Publish(s) PROVE ChanInv'
  <2> DEFINE m == [id |-> s, status |-> status[s]]
  <2>1. m \in Message /\ m.status # "pending" /\ Told(m.id, m.status)
    BY <1>2 DEF Publish, JudgeInv, Told
  <2>2. subscribed' = subscribed /\ (chan' = chan \/ chan' = Append(chan, m))
    BY <1>2 DEF Publish, Tell
  <2> HIDE DEF m
  <2>3. Append(chan, m) \in Seq(Message)
    BY <2>1, AppendProperties
  <2>4. \A i \in 1..Len(Append(chan, m)) :
            (i \in 1..Len(chan) /\ Append(chan, m)[i] = chan[i]) \/ Append(chan, m)[i] = m
    BY <2>1, AppendProperties
  <2>5. QED
    BY <1>1, <2>1, <2>2, <2>3, <2>4
<1>3. CASE Deliver
  <2>1. chan # <<>> /\ chan' = Tail(chan) /\ subscribed' = subscribed
    BY <1>3 DEF Deliver
  <2>2. /\ Tail(chan) \in Seq(Message) /\ Len(Tail(chan)) = Len(chan) - 1
        /\ \A i \in 1..Len(Tail(chan)) : Tail(chan)[i] = chan[i + 1]
    BY <2>1, HeadTailProperties
  <2>3. Len(chan) \in Nat /\ \A i \in 1..Len(Tail(chan)) : i + 1 \in 1..Len(chan)
    BY <2>2
  <2>4. QED
    BY <1>1, <2>1, <2>2, <2>3
<1>4. CASE Unsubscribe
  <2>1. subscribed' = FALSE /\ chan' = <<>>
    BY <1>4 DEF Unsubscribe
  <2>2. chan' \in Seq(Message) /\ 1..Len(chan') = {}
    BY <2>1, EmptySeq
  <2>3. subscribed' \in BOOLEAN
    BY <2>1, Zenon
  <2>4. QED
    BY <1>1, <2>2, <2>3
<1>5. CASE Subscribe
  BY <1>1, <1>5 DEF Subscribe
<1>6. \/ UNCHANGED <<subscribed, chan>> \/ Deliver \/ Subscribe \/ Unsubscribe
      \/ \E s \in Subs : Publish(s)
  BY ZenonT(60) DEF Next, WorkerStep, EndpointStep, SocketStep, PollStep, vars, serverVars,
     Execute, Create, Follow, PostFails, LoseJob, TakeUp, Decide, ReadStatus, Connect,
     GreetingFails, Disconnect, Opened, OnMessage, OnError, OnClose, FallbackFires, BreakSocket,
     Tick, GetSubmission, Polled, PollFails
<1>7. CASE UNCHANGED <<subscribed, chan>>
  BY <1>1, <1>7
<1>8. QED
  BY <1>2, <1>3, <1>4, <1>5, <1>6, <1>7

LEMMA EndpointStays ==
    ASSUME Inv, [Next]_vars, UNCHANGED <<epc, greet>>, connection' \subseteq connection,
           \A s \in posts' : s \in posts \/ epc[s] = "none"
    PROVE  EndpointInv'
BY StatusStep, ToldForGood DEF Inv, EndpointInv

LEMMA EndpointStepKeeps ==
    ASSUME Inv, [Next]_vars PROVE EndpointInv'
<1> USE DEF Inv, EndpointInv
<1>1. ASSUME NEW s \in Subs, ReadStatus(s) PROVE EndpointInv'
  <2>1. /\ epc' = [epc EXCEPT ![s] = "accepting"] /\ greet' = [greet EXCEPT ![s] = status[s]]
        /\ connection' = connection /\ status' = status /\ epc[s] = "reading" /\ posts' = posts
    BY <1>1 DEF ReadStatus, judgeVars, pageVars
  <2>2. status[s] \in Statuses /\ status[s] # Null
    BY <2>1, NullAssumption DEF JudgeInv, Statuses
  <2>3. QED
    BY <2>1, <2>2 DEF Told
<1>2. ASSUME NEW s \in Subs, Connect(s) \/ GreetingFails(s) PROVE EndpointInv'
  <2>1. /\ epc' \in {[epc EXCEPT ![s] = "receiving"], [epc EXCEPT ![s] = "gone"]}
        /\ greet' = [greet EXCEPT ![s] = Null]
        /\ connection' = connection \cup {s} /\ epc[s] = "accepting"
        /\ status' = status /\ posts' = posts
    BY <1>2 DEF Connect, GreetingFails, Register, judgeVars, pageVars
  <2>2. PICK e \in {"receiving", "gone"} : epc' = [epc EXCEPT ![s] = e]
    BY <2>1
  <2>3. \A r \in Subs : Told(r, greet'[r])
    BY <2>1, NullAssumption, VerdictsAssumption DEF Told
  <2>4. QED
    BY <2>1, <2>2, <2>3 DEF Told
<1>3. ASSUME NEW s \in Subs, Disconnect(s) PROVE EndpointInv'
  <2>1. /\ epc' = [epc EXCEPT ![s] = "gone"] /\ greet' = greet /\ status' = status
        /\ connection' = connection \ {s} /\ epc[s] = "receiving" /\ posts' = posts
    BY <1>3 DEF Disconnect, Unregister, judgeVars, pageVars
  <2>2. QED
    BY <2>1 DEF Told
<1>4. ASSUME NEW s \in Subs, Follow(s) PROVE EndpointInv'
  <2>1. /\ epc' = [epc EXCEPT ![s] = "reading"] /\ greet' = greet /\ status' = status
        /\ connection' = connection /\ status[s] # "absent" /\ s \in posts /\ posts' = posts \ {s}
    BY <1>4 DEF Follow, judgeVars
  <2>2. QED
    BY <2>1 DEF Told
<1>5. CASE Deliver
  BY <1>5, EndpointStays DEF Deliver, Send, Unregister, pageVars
<1>6. ASSUME NEW s \in Subs, Execute(s) PROVE EndpointInv'
  BY <1>6, EndpointStays DEF Execute, serverVars
<1>7. ASSUME NEW s \in Subs, PostFails(s) PROVE EndpointInv'
  BY <1>7, EndpointStays DEF PostFails, serverVars
<1>8. UNCHANGED <<epc, greet, connection, posts>> \/ Deliver
        \/ \E s \in Subs : \/ ReadStatus(s) \/ Connect(s) \/ GreetingFails(s) \/ Disconnect(s)
                           \/ Follow(s) \/ Execute(s) \/ PostFails(s)
  BY ZenonT(60) DEF Next, WorkerStep, EndpointStep, SocketStep, PollStep, vars, serverVars,
     pageVars, Create, LoseJob, Publish, TakeUp, Decide, Opened, OnMessage, OnError, OnClose,
     FallbackFires, BreakSocket, Tick, GetSubmission, Polled, PollFails, Subscribe, Unsubscribe
<1>9. CASE UNCHANGED <<epc, greet, connection, posts>>
  BY <1>9, EndpointStays
<1>10. QED
  BY <1>1, <1>2, <1>3, <1>4, <1>5, <1>6, <1>7, <1>8, <1>9

-----------------------------------------------------------------------------
(* The browser *)

LEMMA ClosedIs ==
    ASSUME NEW st \in {"none", "connecting", "open", "failing", "closing", "closed"}
    PROVE  /\ Closed(st) \in {"none", "failing", "closing", "closed"}
           /\ st = "none" <=> Closed(st) = "none"
           /\ st \in {"failing", "closing"} => Closed(st) \in {"failing", "closing"}
BY DEF Closed

LEMMA SocketStays ==
    ASSUME Inv, [Next]_vars,
           \A s \in Subs :
              /\ sock'[s] \in {"none", "connecting", "open", "failing", "closing", "closed"}
              /\ sock'[s] # "none" => sock[s] # "none" \/ status[s] # "absent",
           sock' = [s \in Subs |-> sock'[s]]
    PROVE  SocketInv'
BY StatusStep DEF Inv, SocketInv

\* What clearConnections does to the sockets.
LEMMA ClearingKeepsSockets ==
    ASSUME Inv, [Next]_vars, NEW frames, ClearConnections(frames) PROVE SocketInv'
<1>1. sock' = [s \in Subs |-> IF s = wsRef THEN Closed(sock[s]) ELSE sock[s]]
  BY DEF ClearConnections
<1>2. QED
  BY <1>1, ClosedIs, SocketStays DEF Inv, SocketInv

LEMMA SocketStepKeeps ==
    ASSUME Inv, [Next]_vars PROVE SocketInv'
<1> USE DEF Inv, SocketInv
<1>1. ASSUME NEW s \in Subs, NEW st \in {"connecting", "open", "failing", "closing", "closed"},
             sock' = [sock EXCEPT ![s] = st], sock[s] # "none" \/ status[s] # "absent"
      PROVE  SocketInv'
  BY <1>1, SocketStays
<1>2. ASSUME NEW s \in Subs, Follow(s) \/ Opened(s) \/ OnError(s) \/ OnClose(s) \/ BreakSocket(s)
      PROVE  SocketInv'
  BY <1>1, <1>2 DEF Follow, Opened, OnError, OnClose, BreakSocket, Alive
<1>3. ASSUME UNCHANGED sock PROVE SocketInv'
  BY <1>3, SocketStays
<1>4. ASSUME NEW s \in Subs, Execute(s) PROVE SocketInv'
  BY <1>4, ClearingKeepsSockets DEF Execute
<1>5. ASSUME NEW s \in Subs, OnMessage(s) PROVE SocketInv'
  BY <1>3, <1>5, ClearingKeepsSockets DEF OnMessage, FinishExecution
<1>6. ASSUME NEW k \in Slots, Polled(k) PROVE SocketInv'
  BY <1>3, <1>6, ClearingKeepsSockets DEF Polled, FinishExecution
<1>7. \/ UNCHANGED sock
      \/ \E s \in Subs : \/ Follow(s) \/ Opened(s) \/ OnError(s) \/ OnClose(s) \/ BreakSocket(s)
                         \/ Execute(s) \/ OnMessage(s)
      \/ \E k \in Slots : Polled(k)
  BY ZenonT(60) DEF Next, WorkerStep, EndpointStep, SocketStep, PollStep, vars, socketVars,
     Create, PostFails, LoseJob, Publish, TakeUp, Decide, ReadStatus, Connect, GreetingFails,
     Disconnect, FallbackFires, Tick, GetSubmission, PollFails, Deliver, Subscribe, Unsubscribe
<1>8. QED
  BY <1>2, <1>3, <1>4, <1>5, <1>6, <1>7

LEMMA TimerStep ==
    ASSUME Inv, [Next]_vars PROVE TimerInv'
<1> USE DEF Inv, TimerInv
<1>1. ASSUME NEW s \in Subs, NEW t \in BOOLEAN,
             received' \in [Subs -> Statuses \cup {Null}],
             fallback' = [fallback EXCEPT ![s] = t], t => status[s] # "absent"
      PROVE  TimerInv'
  <2>1. fallback' \in [Subs -> BOOLEAN]
    BY <1>1, Zenon
  <2>2. \A r \in Subs : fallback'[r] => fallback[r] \/ status[r] # "absent"
    BY <1>1, Zenon
  <2>3. \A r \in Subs : fallback'[r] => status'[r] # "absent"
    BY <2>2, StatusStep, Zenon
  <2>4. QED
    BY <1>1, <2>1, <2>3, Zenon
<1>2. ASSUME NEW s \in Subs, OnError(s) \/ OnClose(s) \/ FallbackFires(s) PROVE TimerInv'
  BY <1>1, <1>2, Zenon DEF OnError, OnClose, FallbackFires
<1>3. ASSUME NEW s \in Subs, Follow(s) PROVE TimerInv'
  BY <1>1, <1>3, Zenon DEF Follow
<1>4. ASSUME NEW s \in Subs, OnMessage(s) PROVE TimerInv'
  <2>1. /\ received' = [received EXCEPT ![s] = Head(inbox[s])]
        /\ fallback' = [fallback EXCEPT ![s] = FALSE]
        /\ inbox[s] # <<>> /\ inbox[s] \in Seq(Statuses)
    BY <1>4 DEF OnMessage, FrameInv
  <2>2. Head(inbox[s]) \in Statuses
    BY <2>1, HeadTailProperties
  <2>3. received' \in [Subs -> Statuses \cup {Null}]
    BY <2>1, <2>2, Zenon
  <2>4. QED
    BY <1>1, <2>1, <2>3, Zenon
<1>5. UNCHANGED <<received, fallback>>
        \/ \E s \in Subs : OnError(s) \/ OnClose(s) \/ FallbackFires(s) \/ Follow(s) \/ OnMessage(s)
  BY ZenonT(60) DEF Next, WorkerStep, EndpointStep, SocketStep, PollStep, vars, socketVars,
     Execute, Create, PostFails, LoseJob, Publish, TakeUp, Decide, ReadStatus, Connect,
     GreetingFails, Disconnect, Opened, BreakSocket, Tick, GetSubmission, Polled, PollFails,
     Deliver, Subscribe, Unsubscribe
<1>6. CASE UNCHANGED <<received, fallback>>
  BY <1>6, StatusStep, Zenon
<1>7. QED
  BY <1>2, <1>3, <1>4, <1>5, <1>6

-----------------------------------------------------------------------------
(* Frames *)

LEMMA FramesStay ==
    ASSUME Inv, [Next]_vars, inbox' \in [Subs -> Seq(Statuses)],
           \A s \in Subs :
              /\ inbox'[s] # <<>> => epc[s] \in {"receiving", "gone"} \/ epc'[s] = "receiving"
              /\ \A i \in 1..Len(inbox'[s]) :
                    Told(s, inbox'[s][i]) /\ (inbox'[s][i] = "pending" => i = 1)
    PROVE  FrameInv'
<1>1. \A s \in Subs : epc[s] \in {"receiving", "gone"} => epc'[s] \in {"receiving", "gone"}
  <2>1. ASSUME NEW s \in Subs, Follow(s)
        PROVE  \A r \in Subs : epc[r] \in {"receiving", "gone"} => epc'[r] \in {"receiving", "gone"}
    BY <2>1 DEF Follow, Inv, EndpointInv
  <2>2. ASSUME NEW s \in Subs, ReadStatus(s) \/ Connect(s) \/ GreetingFails(s) \/ Disconnect(s)
        PROVE  \A r \in Subs : epc[r] \in {"receiving", "gone"} => epc'[r] \in {"receiving", "gone"}
    BY <2>2 DEF ReadStatus, Connect, GreetingFails, Disconnect, Inv, EndpointInv
  <2>3. \/ epc' = epc
        \/ \E s \in Subs : \/ Follow(s) \/ ReadStatus(s) \/ Connect(s)
                           \/ GreetingFails(s) \/ Disconnect(s)
    BY ZenonT(60) DEF Next, WorkerStep, EndpointStep, SocketStep, PollStep, vars, serverVars,
       Execute, Create, PostFails, LoseJob, Publish, TakeUp, Decide, Opened, OnMessage, OnError,
       OnClose, FallbackFires, BreakSocket, Tick, GetSubmission, Polled, PollFails, Deliver,
       Subscribe, Unsubscribe
  <2>4. QED
    BY <2>1, <2>2, <2>3
<1>2. \A s \in Subs : \A st : Told(s, st) => Told(s, st)'
  BY ToldForGood
<1>3. QED
  BY <1>1, <1>2 DEF FrameInv

\* A frame is added.
LEMMA FrameAdded ==
    ASSUME Inv, [Next]_vars, NEW s \in Subs, NEW st \in Statuses, Told(s, st),
           inbox' = [inbox EXCEPT ![s] = Append(@, st)],
           \/ epc[s] \in {"receiving", "gone"} /\ st # "pending"
           \/ epc[s] = "accepting" /\ epc'[s] = "receiving"
    PROVE  FrameInv'
<1> USE DEF Inv, FrameInv
<1>1. inbox[s] \in Seq(Statuses) /\ (epc[s] = "accepting" => inbox[s] = <<>>)
  OBVIOUS
<1>2. /\ Append(inbox[s], st) \in Seq(Statuses) /\ Len(Append(inbox[s], st)) = Len(inbox[s]) + 1
      /\ \A i \in 1..Len(inbox[s]) : Append(inbox[s], st)[i] = inbox[s][i]
      /\ Append(inbox[s], st)[Len(inbox[s]) + 1] = st
  BY <1>1, AppendProperties
<1>3. inbox' \in [Subs -> Seq(Statuses)] /\ inbox'[s] = Append(inbox[s], st)
        /\ \A r \in Subs \ {s} : inbox'[r] = inbox[r]
  BY <1>2
<1>4. Len(inbox[s]) \in Nat /\ (epc[s] = "accepting" => Len(inbox[s]) = 0)
  BY <1>1
<1>5. ASSUME NEW i \in 1..Len(inbox'[s])
      PROVE  Told(s, inbox'[s][i]) /\ (inbox'[s][i] = "pending" => i = 1)
  <2>1. CASE i = Len(inbox[s]) + 1
    BY <1>2, <1>3, <1>4, <2>1
  <2>2. CASE i # Len(inbox[s]) + 1
    <3>1. i \in 1..Len(inbox[s])
      BY <1>2, <1>3, <1>4, <2>2
    <3>2. QED
      BY <1>2, <1>3, <3>1
  <2>3. QED
    BY <2>1, <2>2
<1>6. QED
  BY <1>3, <1>5, FramesStay

\* A frame is taken, and others may be dropped.
LEMMA FramesTaken ==
    ASSUME Inv, [Next]_vars, inbox' = [s \in Subs |-> inbox'[s]],
           \A s \in Subs : \/ inbox'[s] \in {inbox[s], <<>>}
                           \/ inbox[s] # <<>> /\ inbox'[s] = Tail(inbox[s])
    PROVE  FrameInv'
<1> USE DEF Inv, FrameInv
<1>1. ASSUME NEW s \in Subs
      PROVE  /\ inbox'[s] \in Seq(Statuses)
             /\ inbox'[s] # <<>> => inbox[s] # <<>>
             /\ \A i \in 1..Len(inbox'[s]) :
                   Told(s, inbox'[s][i]) /\ (inbox'[s][i] = "pending" => i = 1)
  <2>1. CASE inbox'[s] = inbox[s]
    BY <2>1
  <2>2. CASE inbox'[s] = <<>>
    <3>1. inbox'[s] \in Seq(Statuses) /\ 1..Len(inbox'[s]) = {}
      BY <2>2, EmptySeq
    <3>2. QED
      BY <2>2, <3>1
  <2>3. CASE inbox[s] # <<>> /\ inbox'[s] = Tail(inbox[s])
    <3>1. /\ Tail(inbox[s]) \in Seq(Statuses) /\ Len(Tail(inbox[s])) = Len(inbox[s]) - 1
          /\ \A i \in 1..Len(Tail(inbox[s])) : Tail(inbox[s])[i] = inbox[s][i + 1]
      BY <2>3, HeadTailProperties
    <3>2. /\ Len(inbox[s]) \in Nat
          /\ \A i \in 1..Len(Tail(inbox[s])) : i + 1 \in 1..Len(inbox[s]) /\ i + 1 # 1
      BY <3>1
    <3>3. QED
      BY <2>3, <3>1, <3>2
  <2>4. QED
    BY <1>1, <2>1, <2>2, <2>3
<1>2. QED
  BY <1>1, FramesStay

LEMMA FrameStep ==
    ASSUME Inv, [Next]_vars PROVE FrameInv'
<1> USE DEF Inv, FrameInv
<1>1. ASSUME NEW s \in Subs, Connect(s) PROVE FrameInv'
  <2>1. /\ epc[s] = "accepting" /\ epc'[s] = "receiving"
        /\ inbox' = [inbox EXCEPT ![s] = Append(@, greet[s])] \/ inbox' = inbox
    BY <1>1 DEF Connect, EndpointInv
  <2>2. greet[s] \in Statuses /\ Told(s, greet[s])
    BY <2>1 DEF EndpointInv
  <2>3. QED
    BY <2>1, <2>2, FrameAdded, FramesTaken
<1>2. CASE Deliver
  <2> DEFINE m == Head(chan)
  <2>1. chan # <<>> /\ Send(m.id, m.status)
    BY <1>2 DEF Deliver
  <2>2. m \in Message /\ Len(chan) \in Nat /\ 1 \in 1..Len(chan) /\ m = chan[1]
    BY <2>1, HeadTailProperties DEF ChanInv
  <2>3. m.id \in Subs /\ m.status \in Statuses /\ Told(m.id, m.status) /\ m.status # "pending"
    BY <2>2 DEF ChanInv, Message
  <2> HIDE DEF m
  <2>4. \/ inbox' = [inbox EXCEPT ![m.id] = Append(@, m.status)] /\ m.id \in connection
        \/ inbox' = inbox
    BY <2>1 DEF Send
  <2>5. QED
    BY <2>3, <2>4, FrameAdded, FramesTaken DEF EndpointInv
<1>3. ASSUME NEW s \in Subs, Execute(s) PROVE FrameInv'
  BY <1>3, FramesTaken DEF Execute, ClearConnections
<1>4. ASSUME NEW s \in Subs, OnMessage(s) PROVE FrameInv'
  <2> DEFINE frames == [inbox EXCEPT ![s] = Tail(@)]
  <2>1. /\ inbox[s] # <<>>
        /\ \/ inbox' = frames
           \/ inbox' = [r \in Subs |-> IF r = wsRef THEN <<>> ELSE frames[r]]
    BY <1>4, Zenon DEF OnMessage, FinishExecution, ClearConnections
  <2>2. QED
    BY <2>1, FramesTaken
<1>5. ASSUME NEW s \in Subs, BreakSocket(s) PROVE FrameInv'
  BY <1>5, FramesTaken DEF BreakSocket
<1>6. ASSUME NEW k \in Slots, Polled(k) PROVE FrameInv'
  <2>1. inbox' = inbox \/ inbox' = [r \in Subs |-> IF r = wsRef THEN <<>> ELSE inbox[r]]
    BY <1>6, Zenon DEF Polled, FinishExecution, ClearConnections
  <2>2. QED
    BY <2>1, FramesTaken
<1>7. \/ UNCHANGED inbox \/ Deliver
      \/ \E s \in Subs : Connect(s) \/ Execute(s) \/ OnMessage(s) \/ BreakSocket(s)
      \/ \E k \in Slots : Polled(k)
  BY ZenonT(60) DEF Next, WorkerStep, EndpointStep, SocketStep, PollStep, vars, socketVars,
     Create, Follow, PostFails, LoseJob, Publish, TakeUp, Decide, ReadStatus, GreetingFails,
     Disconnect, Opened, OnError, OnClose, FallbackFires, Tick, GetSubmission, PollFails,
     Subscribe, Unsubscribe
<1>8. CASE UNCHANGED inbox
  BY <1>8, FramesTaken
<1>9. QED
  BY <1>1, <1>2, <1>3, <1>4, <1>5, <1>6, <1>7, <1>8

-----------------------------------------------------------------------------
(* Polling *)

\* An interval may be started, for a submission that is there.
LEMMA PollStatusKeeps ==
    ASSUME Inv, [Next]_vars, NEW s \in Subs, status[s] # "absent", PollStatus(s)
    PROVE  /\ PollInv'
           /\ Len(timers) <= Len(timers') /\ \A i \in 1..Len(timers) : timers'[i] = timers[i]
<1> USE DEF Inv, PollInv
<1>1. CASE UNCHANGED <<timers, poll>>
  BY <1>1, StatusStep
<1>2. CASE timers' = Append(timers, [id |-> s, attempts |-> 0]) /\ poll' = Len(timers')
  <2> DEFINE t == [id |-> s, attempts |-> 0]
  <2>1. t \in [id : Subs, attempts : 0..MaxPolls] /\ t.id = s
    BY BoundsAssumption
  <2> HIDE DEF t
  <2>2. /\ timers' \in Seq([id : Subs, attempts : 0..MaxPolls])
        /\ Len(timers') = Len(timers) + 1 /\ timers'[Len(timers) + 1] = t
        /\ \A i \in 1..Len(timers) : timers'[i] = timers[i]
    BY <1>2, <2>1, AppendProperties DEF t
  <2>3. Len(timers) \in Nat
    OBVIOUS
  <2>4. \A i \in 1..Len(timers') : i \in 1..Len(timers) \/ timers'[i] = t
    BY <2>2, <2>3
  <2>5. \A i \in 1..Len(timers') : timers'[i].id \in Subs /\ status[timers'[i].id] # "absent"
    BY <2>1, <2>2, <2>4
  <2>6. \A i \in 1..Len(timers') : status'[timers'[i].id] # "absent"
    BY <2>5, StatusStep
  <2>7. QED
    BY <1>2, <2>2, <2>3, <2>5, <2>6
<1>3. QED
  BY <1>1, <1>2 DEF PollStatus

LEMMA PollStepKeeps ==
    ASSUME Inv, [Next]_vars
    PROVE  /\ PollInv'
           /\ Len(timers) <= Len(timers')
           /\ \A i \in 1..Len(timers) : timers'[i].id = timers[i].id
<1> USE DEF Inv, PollInv
<1>1. ASSUME timers' = timers, poll' \in {0, poll}
      PROVE  /\ PollInv' /\ Len(timers) <= Len(timers')
             /\ \A i \in 1..Len(timers) : timers'[i].id = timers[i].id
  BY <1>1, StatusStep
<1>2. ASSUME NEW s \in Subs, OnError(s) \/ OnClose(s) \/ FallbackFires(s)
      PROVE  /\ PollInv' /\ Len(timers) <= Len(timers')
             /\ \A i \in 1..Len(timers) : timers'[i].id = timers[i].id
  <2>1. status[s] # "absent"
    BY <1>2 DEF OnError, OnClose, FallbackFires, SocketInv, TimerInv
  <2>2. PollStatus(s) \/ UNCHANGED <<timers, poll>>
    BY <1>2 DEF OnError, OnClose, FallbackFires
  <2>3. QED
    BY <1>1, <2>1, <2>2, PollStatusKeeps
<1>3. ASSUME NEW k \in Slots, Tick(k)
      PROVE  /\ PollInv' /\ Len(timers) <= Len(timers')
             /\ \A i \in 1..Len(timers) : timers'[i].id = timers[i].id
  <2>1. /\ poll \in 1..Len(timers) /\ poll' = poll
        /\ timers' = [timers EXCEPT ![poll] = Attempted(timers[poll])]
    BY <1>3 DEF Tick
  <2>2. timers[poll] \in [id : Subs, attempts : 0..MaxPolls]
    BY <2>1, ElementOfSeq
  <2>3. Attempted(timers[poll]) \in [id : Subs, attempts : 0..MaxPolls]
          /\ Attempted(timers[poll]).id = timers[poll].id
    BY <2>2, BoundsAssumption DEF Attempted
  <2>4. /\ timers' \in Seq([id : Subs, attempts : 0..MaxPolls]) /\ Len(timers') = Len(timers)
        /\ \A i \in 1..Len(timers) : timers'[i].id = timers[i].id
    BY <2>1, <2>3, ExceptSeq
  <2>5. QED
    BY <2>1, <2>4, StatusStep
<1>4. ASSUME NEW s \in Subs, Execute(s) \/ OnMessage(s) PROVE timers' = timers /\ poll' \in {0, poll}
  BY <1>4, Zenon DEF Execute, OnMessage, FinishExecution, ClearConnections
<1>5. ASSUME NEW k \in Slots, Polled(k) \/ PollFails(k) PROVE timers' = timers /\ poll' \in {0, poll}
  BY <1>5, Zenon DEF Polled, PollFails, FinishExecution, ClearConnections
<1>6. \/ UNCHANGED <<timers, poll>>
      \/ \E s \in Subs : OnError(s) \/ OnClose(s) \/ FallbackFires(s) \/ Execute(s) \/ OnMessage(s)
      \/ \E k \in Slots : Tick(k) \/ Polled(k) \/ PollFails(k)
  BY ZenonT(60) DEF Next, WorkerStep, EndpointStep, SocketStep, PollStep, vars, pollVars,
     Create, Follow, PostFails, LoseJob, Publish, TakeUp, Decide, ReadStatus, Connect,
     GreetingFails, Disconnect, Opened, BreakSocket, GetSubmission, Deliver, Subscribe, Unsubscribe
<1>7. QED
  BY <1>1, <1>2, <1>3, <1>4, <1>5, <1>6

LEMMA AskedStep ==
    ASSUME Inv, [Next]_vars PROVE AskedInv'
<1> USE DEF Inv, AskedInv
<1> DEFINE Answers == [timer : 1..Len(timers), got : Statuses \cup {Null}]
<1>1. ASSUME asked' \in [Slots -> Answers \cup {Null}],
             \A k \in Slots : asked'[k] # Null => Told(timers[asked'[k].timer].id, asked'[k].got)
      PROVE  AskedInv'
  <2>1. Len(timers) \in Nat /\ Len(timers') \in Nat /\ Len(timers) <= Len(timers')
    BY PollStepKeeps DEF PollInv
  <2>2. 1..Len(timers) \subseteq 1..Len(timers')
    BY <2>1
  <2>3. asked' \in [Slots -> [timer : 1..Len(timers'), got : Statuses \cup {Null}] \cup {Null}]
    BY <1>1, <2>2
  <2>4. ASSUME NEW k \in Slots, asked'[k] # Null
        PROVE  Told(timers[asked[k].timer].id, asked[k].got)'
    <3>1. asked'[k].timer \in 1..Len(timers)
      BY <1>1, <2>4
    <3>2. /\ timers'[asked'[k].timer].id = timers[asked'[k].timer].id
          /\ timers[asked'[k].timer].id \in Subs
      BY <3>1, PollStepKeeps DEF PollInv
    <3>3. Told(timers[asked'[k].timer].id, asked'[k].got)
      BY <1>1, <2>4
    <3>4. QED
      BY <3>2, <3>3, StatusStep DEF Told
  <2>5. QED
    BY <2>3, <2>4
<1>2. ASSUME NEW k \in Slots, Tick(k) PROVE AskedInv'
  <2>1. asked' = [asked EXCEPT ![k] = [timer |-> poll, got |-> Null]] /\ poll \in 1..Len(timers)
    BY <1>2 DEF Tick, PollInv
  <2>2. QED
    BY <1>1, <2>1, NullAssumption DEF Told
<1>3. ASSUME NEW k \in Slots, GetSubmission(k) PROVE AskedInv'
  <2> DEFINE t == asked[k].timer
             st == status[timers[t].id]
  <2>1. asked' = [asked EXCEPT ![k] = [timer |-> t, got |-> st]] /\ t \in 1..Len(timers)
    BY <1>3 DEF GetSubmission
  <2>2. timers[t].id \in Subs /\ st \in Statuses
    BY <2>1 DEF PollInv, JudgeInv, Statuses
  <2>3. Told(timers[t].id, st)
    BY DEF Told
  <2> HIDE DEF t, st
  <2>4. QED
    BY <1>1, <2>1, <2>2, <2>3
<1>4. ASSUME NEW k \in Slots, Polled(k) \/ PollFails(k) PROVE AskedInv'
  <2>1. asked' = [asked EXCEPT ![k] = Null]
    BY <1>4 DEF Polled, PollFails
  <2>2. QED
    BY <1>1, <2>1
<1>5. UNCHANGED asked \/ \E k \in Slots : Tick(k) \/ GetSubmission(k) \/ Polled(k) \/ PollFails(k)
  BY ZenonT(60) DEF Next, WorkerStep, EndpointStep, SocketStep, PollStep, vars, pollVars,
     Execute, Create, Follow, PostFails, LoseJob, Publish, TakeUp, Decide, ReadStatus, Connect,
     GreetingFails, Disconnect, Opened, OnMessage, OnError, OnClose, FallbackFires, BreakSocket,
     Deliver, Subscribe, Unsubscribe
<1>6. CASE UNCHANGED asked
  BY <1>1, <1>6
<1>7. QED
  BY <1>2, <1>3, <1>4, <1>5, <1>6

-----------------------------------------------------------------------------
(* What is shown *)

LEMMA PageStep ==
    ASSUME Inv, [Next]_vars PROVE PageInv'
<1> USE DEF Inv, PageInv
<1>1. ASSUME posts' \subseteq Subs, active' \in BOOLEAN, drops' \in 0..MaxDrops,
             wsRef' \in Subs \cup {Null}, current' \in Subs \cup {Null},
             \/ shown' = shown /\ about' = about
             \/ shown' \in {"pending", Null} /\ about' = Null
             \/ /\ about' \in Subs /\ shown' \in Statuses /\ Told(about', shown')
      PROVE  PageInv'
  <2>1. shown' \in Statuses \cup {Null} /\ about' \in Subs \cup {Null}
    BY <1>1 DEF Statuses
  <2>2. VerdictsAreStored'
    BY <1>1, StatusStep, NullAssumption, VerdictsAssumption DEF VerdictsAreStored, Told
  <2>3. QED
    BY <1>1, <2>1, <2>2
<1>2. Break => drops' \in 0..MaxDrops
  BY BoundsAssumption DEF Break
<1>3. ASSUME NEW s \in Subs, Execute(s) PROVE PageInv'
  <2>1. /\ posts' = posts \cup {s} /\ current' = s /\ drops' = drops /\ wsRef' = Null
        /\ shown' = "pending" /\ about' = Null
    BY <1>3 DEF Execute, ClearConnections
  <2>2. active' \in BOOLEAN
    BY <1>3, Zenon DEF Execute
  <2>3. QED
    BY <1>1, <2>1, <2>2
<1>4. ASSUME NEW s \in Subs, Follow(s) PROVE PageInv'
  BY <1>1, <1>4 DEF Follow
<1>5. ASSUME NEW s \in Subs, PostFails(s) PROVE PageInv'
  <2>1. active' \in BOOLEAN
    BY <1>5, Zenon DEF PostFails
  <2>2. QED
    BY <1>1, <1>2, <1>5, <2>1 DEF PostFails
<1>6. ASSUME NEW s \in Subs, NEW st \in Statuses, Told(s, st), NEW frames,
             FinishExecution(s, st, frames), UNCHANGED <<posts, current, drops>>
      PROVE  PageInv'
  <2>1. shown' = st /\ about' = s /\ wsRef' \in {wsRef, Null}
    BY <1>6, Zenon DEF FinishExecution, ClearConnections
  <2>2. active' \in BOOLEAN
    BY <1>6, Zenon DEF FinishExecution
  <2>3. QED
    BY <1>1, <1>6, <2>1, <2>2
<1>7. ASSUME NEW s \in Subs, OnMessage(s) PROVE PageInv'
  <2>1. Head(inbox[s]) \in Statuses /\ Told(s, Head(inbox[s]))
    <3>1. inbox[s] # <<>> /\ inbox[s] \in Seq(Statuses)
      BY <1>7 DEF OnMessage, FrameInv
    <3>2. 1 \in 1..Len(inbox[s]) /\ Head(inbox[s]) = inbox[s][1]
      BY <3>1
    <3>3. QED
      BY <3>1, <3>2, HeadTailProperties DEF FrameInv
  <2>2. QED
    BY <1>6, <1>7, <2>1 DEF OnMessage
<1>8. ASSUME NEW k \in Slots, Polled(k) PROVE PageInv'
  <2> DEFINE t == timers[asked[k].timer]
             st == asked[k].got
  <2>1. asked[k] # Null /\ st # Null /\ UNCHANGED <<posts, current, drops>>
    BY <1>8 DEF Polled
  <2>2. asked[k].timer \in 1..Len(timers) /\ st \in Statuses /\ Told(t.id, st)
    BY <2>1 DEF AskedInv
  <2>3. t.id \in Subs
    BY <2>2 DEF PollInv
  <2> HIDE DEF t, st
  <2>4. CASE FinishExecution(t.id, st, inbox)
    BY <1>6, <2>1, <2>2, <2>3, <2>4
  <2>5. CASE shown' = st /\ about' = t.id /\ active' = FALSE /\ wsRef' = wsRef
    <3>1. active' \in BOOLEAN
      BY <2>5, Zenon
    <3>2. QED
      BY <1>1, <2>1, <2>2, <2>3, <2>5, <3>1
  <2>6. QED
    BY <1>8, <2>4, <2>5, Zenon DEF Polled, t, st
<1>9. ASSUME NEW k \in Slots, PollFails(k) PROVE PageInv'
  <2>1. active' \in BOOLEAN
    BY <1>9, Zenon DEF PollFails
  <2>2. QED
    BY <1>1, <1>2, <1>9, <2>1 DEF PollFails
<1>10. ASSUME UNCHANGED pageVars, drops' = drops \/ Break PROVE PageInv'
  BY <1>1, <1>2, <1>10 DEF pageVars
<1>11. \/ UNCHANGED pageVars /\ (drops' = drops \/ Break)
       \/ \E s \in Subs : Execute(s) \/ Follow(s) \/ PostFails(s) \/ OnMessage(s)
       \/ \E k \in Slots : Polled(k) \/ PollFails(k)
  BY ZenonT(60) DEF Next, WorkerStep, EndpointStep, SocketStep, PollStep, vars, Create, LoseJob,
     Publish, TakeUp, Decide, ReadStatus, Connect, GreetingFails, Disconnect, Opened, OnError,
     OnClose, FallbackFires, BreakSocket, Tick, GetSubmission, Deliver, Subscribe, Unsubscribe
<1>12. QED
  BY <1>3, <1>4, <1>5, <1>7, <1>8, <1>9, <1>10, <1>11

-----------------------------------------------------------------------------

LEMMA Always == Spec => []Inv
<1>1. Inv /\ [Next]_vars => Inv'
  BY StatusStep, ChanStep, EndpointStepKeeps, SocketStepKeeps, TimerStep, FrameStep,
     PollStepKeeps, AskedStep, PageStep DEF Inv
<1>2. QED
  BY InitInv, <1>1, PTL DEF Spec

\* Every variable keeps to its type.
THEOREM TypeCorrect == Spec => []TypeOK
<1>1. Inv => TypeOK
  BY DEF Inv, JudgeInv, ChanInv, EndpointInv, SocketInv, TimerInv, FrameInv, PollInv, AskedInv,
     PageInv, TypeOK, Message
<1>2. QED
  BY <1>1, Always, PTL

\* A verdict the page shows is the one committed for the submission it was reported
\* for, whichever way it came and whatever broke on the way.
THEOREM VerdictsTold == Spec => []VerdictsAreStored
<1>1. Inv => VerdictsAreStored
  BY DEF Inv, PageInv
<1>2. QED
  BY <1>1, Always, PTL

-----------------------------------------------------------------------------
(* The order of what is read *)

\* "pending" is read first or not at all, and what follows a verdict is not read: the
\* page no longer follows a socket that brought one.
HeardInv ==
    \A s \in Subs :
        /\ received[s] # Null =>
              /\ epc[s] \in {"receiving", "gone"}
              /\ \A i \in 1..Len(inbox[s]) : inbox[s][i] # "pending"
        /\ wsRef = s => received[s] \notin Verdicts

\* Where the frames of a socket that was read from come from.
LEMMA HeardStays ==
    ASSUME Inv, HeardInv, [Next]_vars, received' = received, wsRef' \in {wsRef, Null},
           \A s \in Subs : epc[s] \in {"receiving", "gone"} => epc'[s] \in {"receiving", "gone"},
           \A s \in Subs : received[s] # Null =>
              \/ inbox'[s] \in {inbox[s], <<>>}
              \/ \E st \in Statuses \ {"pending"} : inbox'[s] = Append(inbox[s], st)
    PROVE  HeardInv'
<1>1. ASSUME NEW s \in Subs, received[s] # Null, NEW i \in 1..Len(inbox'[s])
      PROVE  inbox'[s][i] # "pending"
  <2>1. inbox[s] \in Seq(Statuses)
    BY DEF Inv, FrameInv
  <2>2. CASE inbox'[s] = <<>>
    BY <1>1, <2>2
  <2>3. CASE inbox'[s] = inbox[s]
    BY <1>1, <2>3 DEF HeardInv
  <2>4. ASSUME NEW st \in Statuses \ {"pending"}, inbox'[s] = Append(inbox[s], st)
        PROVE  inbox'[s][i] # "pending"
    <3>1. /\ Len(inbox'[s]) = Len(inbox[s]) + 1 /\ Len(inbox[s]) \in Nat
          /\ \A k \in 1..Len(inbox[s]) : inbox'[s][k] = inbox[s][k]
          /\ inbox'[s][Len(inbox[s]) + 1] = st
      BY <2>1, <2>4, AppendProperties
    <3>2. i = Len(inbox[s]) + 1 \/ i \in 1..Len(inbox[s])
      BY <1>1, <3>1
    <3>3. QED
      BY <1>1, <2>4, <3>1, <3>2 DEF HeardInv
  <2>5. QED
    BY <1>1, <2>2, <2>3, <2>4
<1>2. QED
  BY <1>1, NullAssumption DEF HeardInv

LEMMA HeardStep ==
    ASSUME Inv, HeardInv, [Next]_vars PROVE HeardInv'
<1>1. ASSUME UNCHANGED <<received, epc>>, wsRef' \in {wsRef, Null},
             \A s \in Subs : inbox'[s] \in {inbox[s], <<>>}
      PROVE  HeardInv'
  BY <1>1, HeardStays
<1>2. ASSUME NEW s \in Subs, ReadStatus(s) \/ Connect(s) \/ GreetingFails(s) \/ Disconnect(s)
      PROVE  HeardInv'
  <2>1. UNCHANGED <<received, wsRef>> /\ epc[s] \in {"reading", "accepting", "receiving"}
    BY <1>2 DEF ReadStatus, Connect, GreetingFails, Disconnect, socketVars, pageVars
  <2>2. \A r \in Subs : epc[r] \in {"receiving", "gone"} => epc'[r] \in {"receiving", "gone"}
    BY <1>2 DEF ReadStatus, Connect, GreetingFails, Disconnect, Inv, EndpointInv
  <2>3. \A r \in Subs : received[r] # Null => inbox'[r] = inbox[r]
    BY <1>2 DEF ReadStatus, Connect, GreetingFails, Disconnect, socketVars, HeardInv, Inv, FrameInv
  <2>4. QED
    BY <2>1, <2>2, <2>3, HeardStays
<1>3. CASE Deliver
  <2> DEFINE m == Head(chan)
  <2>1. /\ chan # <<>> /\ Send(m.id, m.status)
        /\ UNCHANGED <<received, epc, wsRef>>
    BY <1>3 DEF Deliver, pageVars
  <2>2. m \in Message /\ Len(chan) \in Nat /\ 1 \in 1..Len(chan) /\ m = chan[1]
    BY <2>1, HeadTailProperties DEF Inv, ChanInv
  <2>3. m.status \in Statuses \ {"pending"}
    BY <2>2 DEF Inv, ChanInv, Message
  <2> HIDE DEF m
  <2>4. inbox' = [inbox EXCEPT ![m.id] = Append(@, m.status)] \/ inbox' = inbox
    BY <2>1 DEF Send
  <2>5. \A r \in Subs : inbox'[r] = inbox[r] \/ inbox'[r] = Append(inbox[r], m.status)
    BY <2>4 DEF Inv, FrameInv
  <2>6. QED
    BY <2>1, <2>3, <2>5, HeardStays
<1>4. ASSUME NEW s \in Subs, Follow(s) PROVE HeardInv'
  <2>1. /\ UNCHANGED <<received, inbox>> /\ wsRef' = s
        /\ epc[s] = "none" /\ epc' = [epc EXCEPT ![s] = "reading"]
    BY <1>4 DEF Follow, Inv, EndpointInv
  <2>2. received[s] = Null
    BY <2>1 DEF HeardInv
  <2>3. QED
    BY <2>1, <2>2, NullAssumption DEF HeardInv, Inv, EndpointInv
<1>5. ASSUME NEW s \in Subs, OnMessage(s) PROVE HeardInv'
  <2> DEFINE st == Head(inbox[s])
  <2>1. /\ inbox[s] # <<>> /\ inbox[s] \in Seq(Statuses) /\ epc' = epc
        /\ received' = [received EXCEPT ![s] = st]
        /\ FinishExecution(s, st, [inbox EXCEPT ![s] = Tail(@)])
    BY <1>5 DEF OnMessage, Inv, FrameInv, serverVars
  <2>2. /\ wsRef' = Null \/ (wsRef' = wsRef /\ st \notin Verdicts)
        /\ inbox'[s] = Tail(inbox[s]) \/ inbox'[s] = <<>>
        /\ \A r \in Subs \ {s} : inbox'[r] = inbox[r] \/ inbox'[r] = <<>>
    BY <2>1, Zenon DEF FinishExecution, ClearConnections, Inv, FrameInv
  <2>3. \A i \in 1..Len(inbox'[s]) : inbox'[s][i] # "pending"
    <3>1. CASE inbox'[s] = <<>>
      BY <3>1
    <3>2. CASE inbox'[s] = Tail(inbox[s])
      <4>1. /\ Len(inbox'[s]) = Len(inbox[s]) - 1 /\ Len(inbox[s]) \in Nat
            /\ \A i \in 1..Len(inbox'[s]) : inbox'[s][i] = inbox[s][i + 1]
        BY <2>1, <3>2, HeadTailProperties
      <4>2. \A i \in 1..Len(inbox'[s]) : i + 1 \in 1..Len(inbox[s]) /\ i + 1 # 1
        BY <4>1
      <4>3. QED
        BY <4>1, <4>2 DEF Inv, FrameInv
    <3>3. QED
      BY <2>2, <3>1, <3>2
  <2>4. /\ received'[s] = st /\ epc'[s] \in {"receiving", "gone"}
        /\ \A r \in Subs \ {s} : received'[r] = received[r]
    BY <2>1 DEF Inv, TimerInv, FrameInv
  <2>5. \A r \in Subs \ {s} : received'[r] # Null => \A i \in 1..Len(inbox'[r]) : inbox'[r][i] # "pending"
    <3>1. \A i \in 1..Len(<<>>) : FALSE
      OBVIOUS
    <3>2. QED
      BY <2>2, <2>4, <3>1 DEF HeardInv
  <2> HIDE DEF st
  <2>6. QED
    BY <2>1, <2>2, <2>3, <2>4, <2>5, NullAssumption DEF HeardInv
<1>6. ASSUME NEW s \in Subs, Execute(s) \/ BreakSocket(s)
      PROVE  /\ UNCHANGED <<received, epc>> /\ wsRef' \in {wsRef, Null}
             /\ \A r \in Subs : inbox'[r] \in {inbox[r], <<>>}
  BY <1>6, Zenon DEF Execute, BreakSocket, ClearConnections, serverVars, pageVars, Inv, FrameInv
<1>7. ASSUME NEW k \in Slots, Polled(k)
      PROVE  /\ UNCHANGED <<received, epc>> /\ wsRef' \in {wsRef, Null}
             /\ \A r \in Subs : inbox'[r] \in {inbox[r], <<>>}
  BY <1>7, Zenon DEF Polled, FinishExecution, ClearConnections, serverVars
<1>8. \/ UNCHANGED <<received, epc, wsRef, inbox>> \/ Deliver
      \/ \E s \in Subs : \/ ReadStatus(s) \/ Connect(s) \/ GreetingFails(s) \/ Disconnect(s)
                         \/ Follow(s) \/ OnMessage(s) \/ Execute(s) \/ BreakSocket(s)
      \/ \E k \in Slots : Polled(k)
  BY ZenonT(60) DEF Next, WorkerStep, EndpointStep, SocketStep, PollStep, vars, serverVars,
     socketVars, pageVars, Create, PostFails, LoseJob, Publish, TakeUp, Decide, Opened, OnError,
     OnClose, FallbackFires, Tick, GetSubmission, PollFails, Subscribe, Unsubscribe
<1>9. QED
  BY <1>1, <1>2, <1>3, <1>4, <1>5, <1>6, <1>7, <1>8

\* What the page reads on the socket it follows is ever newer: a status it reads is of
\* a higher rank than the one before it, or the same, although the greeting of the
\* socket was read before it was registered and other frames may lie behind a verdict.
THEOREM OldNewsComesFirst == Spec => SocketInOrder
<1>1. Init => HeardInv
  BY NullAssumption DEF Init, HeardInv
<1>2. Inv /\ HeardInv /\ [Next]_vars =>
        \A s \in Subs : wsRef = s /\ received'[s] # received[s] =>
           received[s] = Null \/ Rank(received[s]) < Rank(received'[s])
  <2> SUFFICES ASSUME Inv, HeardInv, [Next]_vars, NEW s \in Subs, wsRef = s,
                      received'[s] # received[s], received[s] # Null
               PROVE  Rank(received[s]) < Rank(received'[s])
    OBVIOUS
  <2>1. received[s] \in {"pending", "running"}
    BY DEF HeardInv, Inv, TimerInv, Statuses
  <2>2. ~ UNCHANGED received
    OBVIOUS
  <2>3. \E r \in Subs : OnMessage(r)
    BY <2>2, ZenonT(60) DEF Next, WorkerStep, EndpointStep, SocketStep, PollStep, vars, socketVars,
       Execute, Create, Follow, PostFails, LoseJob, Publish, TakeUp, Decide, ReadStatus, Connect,
       GreetingFails, Disconnect, Opened, OnError, OnClose, FallbackFires, BreakSocket, Tick,
       GetSubmission, Polled, PollFails, Deliver, Subscribe, Unsubscribe
  <2>4. /\ inbox[s] # <<>> /\ inbox[s] \in Seq(Statuses)
        /\ received'[s] = Head(inbox[s])
    BY <2>3 DEF OnMessage, Inv, TimerInv, FrameInv
  <2>5. 1 \in 1..Len(inbox[s]) /\ Head(inbox[s]) = inbox[s][1] /\ Head(inbox[s]) \in Statuses
    BY <2>4, HeadTailProperties
  <2>6. received'[s] \in Statuses /\ received'[s] # "pending"
    BY <2>4, <2>5 DEF HeardInv
  <2>7. QED
    BY <2>1, <2>6, VerdictsAssumption DEF Rank, Statuses
<1>3. QED
  BY <1>1, <1>2, HeardStep, Always, PTL DEF Spec, SocketInOrder

-----------------------------------------------------------------------------
(* The silent socket *)

LEMMA PollStatusPolls ==
    ASSUME Inv, NEW s \in Subs, PollStatus(s) PROVE poll' # 0
<1>1. CASE poll # 0
  BY <1>1 DEF PollStatus
<1>2. CASE poll = 0
  <2> DEFINE t == [id |-> s, attempts |-> 0]
  <2>1. timers' = Append(timers, t) /\ poll' = Len(timers')
    BY <1>2 DEF PollStatus
  <2>2. t \in [id : Subs, attempts : 0..MaxPolls]
    BY BoundsAssumption
  <2> HIDE DEF t
  <2>3. Len(Append(timers, t)) = Len(timers) + 1 /\ Len(timers) \in Nat
    BY <2>2, AppendProperties DEF Inv, PollInv
  <2>4. QED
    BY <2>1, <2>3
<1>3. QED
  BY <1>1, <1>2

LEMMA CoveredStep ==
    ASSUME Inv, SilentSocketIsCovered, [Next]_vars PROVE SilentSocketIsCovered'
<1> USE DEF SilentSocketIsCovered
\* Nothing about the sockets, or only about one that is not silent.
<1>1. ASSUME active' => active, wsRef' = wsRef \/ wsRef' = Null, poll' = poll,
             \A r \in Subs : \/ received'[r] # Null
                             \/ /\ received'[r] = received[r] /\ fallback'[r] = fallback[r]
                                /\ sock'[r] = sock[r] \/ sock'[r] \in {"failing", "closing"}
                                   \/ sock[r] \notin {"failing", "closing"}
      PROVE  SilentSocketIsCovered'
  BY <1>1, NullAssumption, Zenon
<1>2. ASSUME ~active' PROVE SilentSocketIsCovered'
  BY <1>2, Zenon
<1>3. ASSUME poll' # 0 PROVE SilentSocketIsCovered'
  BY <1>3, Zenon
<1>4. ASSUME NEW s \in Subs, Execute(s) PROVE SilentSocketIsCovered'
  <2>1. wsRef' = Null
    BY <1>4 DEF Execute, ClearConnections
  <2>2. QED
    BY <2>1, NullAssumption, Zenon
<1>5. ASSUME NEW s \in Subs, Follow(s) PROVE SilentSocketIsCovered'
  <2>1. fallback' = [fallback EXCEPT ![s] = TRUE] /\ wsRef' = s
    BY <1>5 DEF Follow
  <2>2. fallback'[s] /\ \A r \in Subs : r = wsRef' => r = s
    BY <2>1, Zenon DEF Inv, TimerInv
  <2>3. QED
    BY <2>2, Zenon
<1>6. ASSUME NEW s \in Subs, OnMessage(s) PROVE SilentSocketIsCovered'
  <2>1. /\ received' = [received EXCEPT ![s] = Head(inbox[s])]
        /\ fallback' = [fallback EXCEPT ![s] = FALSE]
        /\ ~active' \/ UNCHANGED <<active, sock, wsRef, poll>>
    BY <1>6, Zenon DEF OnMessage, FinishExecution
  <2>2. Head(inbox[s]) # Null
    <3>1. inbox[s] # <<>> /\ inbox[s] \in Seq(Statuses)
      BY <1>6 DEF OnMessage, Inv, FrameInv
    <3>2. QED
      BY <3>1, HeadTailProperties, NullAssumption DEF Statuses
  <2>3. /\ received'[s] # Null
        /\ \A r \in Subs \ {s} : received'[r] = received[r] /\ fallback'[r] = fallback[r]
    BY <2>1, <2>2, Zenon DEF Inv, TimerInv
  <2>4. QED
    BY <1>1, <1>2, <2>1, <2>3, Zenon
<1>7. ASSUME NEW s \in Subs, OnError(s) PROVE SilentSocketIsCovered'
  BY <1>3, <1>7, PollStatusPolls DEF OnError
<1>8. ASSUME NEW s \in Subs, OnClose(s) \/ FallbackFires(s) PROVE SilentSocketIsCovered'
  <2>1. /\ UNCHANGED <<received, active, wsRef>>
        /\ fallback' = [fallback EXCEPT ![s] = FALSE]
        /\ sock' = sock \/ sock' = [sock EXCEPT ![s] = "closed"]
    BY <1>8 DEF OnClose, FallbackFires, pageVars
  <2>2. PollStatus(s) \/ (poll' = poll /\ (~active \/ received[s] # Null))
    <3>1. CASE OnClose(s)
      BY <3>1 DEF OnClose
    <3>2. CASE FallbackFires(s)
      BY <3>2 DEF FallbackFires
    <3>3. QED
      BY <1>8, <3>1, <3>2
  <2>3. \A r \in Subs \ {s} : fallback'[r] = fallback[r] /\ sock'[r] = sock[r]
    BY <2>1, Zenon DEF Inv, TimerInv, SocketInv
  <2>4. QED
    BY <1>1, <1>2, <1>3, <2>1, <2>2, <2>3, PollStatusPolls, Zenon
<1>9. ASSUME NEW s \in Subs, Opened(s) \/ BreakSocket(s) PROVE SilentSocketIsCovered'
  <2>1. /\ UNCHANGED <<received, fallback, active, wsRef, poll>>
        /\ \E st : /\ sock' = [sock EXCEPT ![s] = st]
                   /\ st \in {"failing", "closing"} \/ sock[s] \notin {"failing", "closing"}
    BY <1>9 DEF Opened, BreakSocket, pageVars, pollVars
  <2>2. \A r \in Subs : sock'[r] = sock[r] \/ sock'[r] \in {"failing", "closing"}
                           \/ sock[r] \notin {"failing", "closing"}
    BY <2>1, Zenon DEF Inv, SocketInv
  <2>3. QED
    BY <1>1, <2>1, <2>2, Zenon
<1>10. ASSUME NEW s \in Subs, PostFails(s) PROVE SilentSocketIsCovered'
  BY <1>2, <1>10 DEF PostFails
<1>11. ASSUME NEW k \in Slots, PollFails(k) PROVE SilentSocketIsCovered'
  BY <1>2, <1>11 DEF PollFails
<1>12. ASSUME NEW k \in Slots, Polled(k) PROVE SilentSocketIsCovered'
  <2>1. ~active' \/ UNCHANGED <<received, fallback, active, sock, wsRef, poll>>
    BY <1>12, Zenon DEF Polled, FinishExecution
  <2>2. QED
    BY <1>1, <1>2, <2>1, Zenon
<1>13. CASE UNCHANGED <<sock, received, fallback, active, wsRef, poll>>
  BY <1>1, <1>13, Zenon
<1>14. \/ UNCHANGED <<sock, received, fallback, active, wsRef, poll>>
       \/ \E s \in Subs : \/ Execute(s) \/ Follow(s) \/ OnMessage(s) \/ OnError(s) \/ OnClose(s)
                          \/ FallbackFires(s) \/ Opened(s) \/ BreakSocket(s) \/ PostFails(s)
       \/ \E k \in Slots : PollFails(k) \/ Polled(k)
  BY ZenonT(60) DEF Next, WorkerStep, EndpointStep, SocketStep, PollStep, vars, socketVars,
     pageVars, pollVars, Create, LoseJob, Publish, TakeUp, Decide, ReadStatus, Connect,
     GreetingFails, Disconnect, Tick, GetSubmission, Deliver, Subscribe, Unsubscribe
<1>15. QED
  BY <1>4, <1>5, <1>6, <1>7, <1>8, <1>9, <1>10, <1>11, <1>12, <1>13, <1>14

\* The page never waits on a silent socket with nothing else to turn to: the fallback
\* timer, a poll or the event that the socket is closed is still to come.
THEOREM SilenceIsCovered == Spec => []SilentSocketIsCovered
<1>1. Init => SilentSocketIsCovered
  BY Zenon DEF Init, SilentSocketIsCovered
<1>2. Inv /\ SilentSocketIsCovered /\ [Next]_vars => SilentSocketIsCovered'
  BY CoveredStep
<1>3. QED
  BY <1>1, <1>2, Always, PTL DEF Spec

=============================================================================
