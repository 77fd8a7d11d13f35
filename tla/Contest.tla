------------------------------ MODULE Contest ------------------------------
(***************************************************************************)
(* The scored core of CODE_ME: one contest, its attempts and submissions   *)
(* rows, the API requests that read and write them, the Redis list that    *)
(* carries submission ids to the judge, and the judge workers.             *)
(*                                                                         *)
(* One action is one stretch of a handler (or of the worker) between two   *)
(* awaits: what a coroutine does without giving way, together with the     *)
(* database or Redis call that ends it.  Everything between two awaits of  *)
(* one request can therefore interleave with every other request, with the *)
(* workers and with the clock.  The database gives READ COMMITTED          *)
(* statements, so a row read earlier is stale until it is read again; the  *)
(* ORM copy a handler holds is seen[h].  What sync_attempt decides and     *)
(* what its caller makes of that are two actions: each reads the clock.    *)
(*                                                                         *)
(* Users are the students: an administrator is answered before any of this *)
(* state is read (main.py:320, 475, 493).  Questions, kinds and the number *)
(* of test cases are data fixed before the contest.                        *)
(***************************************************************************)
EXTENDS Naturals, Sequences, FiniteSets

CONSTANTS
    Users,        \* students, each with at most one attempt
    Questions,    \* the problems of the contest
    SubIds,       \* primary keys of submissions; its size bounds the history
    Handlers,     \* request slots of the API: how many requests overlap
    Workers,      \* judge processes
    Ops,          \* the endpoints clients call
    Kinds,        \* submission kinds clients ask for
    CaseCount,    \* CaseCount[q, k]: test cases question q has for kind k
    Verdicts,     \* results the sandbox can return
    Duration,     \* Test.duration, in ticks
    MaxNow,       \* bound on the clock
    MaxFaults,    \* bound on request failures and worker crashes together
    Null          \* SQL NULL / Python None

AllOps    == {"start", "read", "submit", "finish"}
AllKinds  == {"run", "submit"}
Finals    == {"accepted", "wrong_answer", "tle", "compile_error", "runtime_error"}
Statuses  == {"pending", "running"} \cup Finals

ASSUME QuestionsAssumption == IsFiniteSet(Questions)
ASSUME InputsAssumption == /\ Ops \subseteq AllOps
                           /\ Kinds \subseteq AllKinds
                           /\ Verdicts \subseteq Finals
                           /\ CaseCount \in [Questions \X Kinds -> Nat]
ASSUME ClockAssumption == Duration \in Nat /\ MaxNow \in Nat /\ MaxFaults \in Nat

VARIABLES
    now,          \* utc_now()
    attempts,     \* the attempts row of each user for this contest, or Null
    subs,         \* the submissions table: id -> row, or Null
    queue,        \* the Redis list, oldest id (the BRPOP end) first
    \* each request slot of the API:
    hpc,          \* the await it is at
    req,          \* the request it is serving, or Null
    seen,         \* the Attempt object of its session, or Null
    loaded,       \* the score that object had when it was loaded
    link,         \* whether the attempt is passed to Submission(...)
    sub,          \* the submission just inserted, or Null
    late,         \* history: the attempt was closed when it was read
    \* each judge process:
    wpc,          \* the await it is at
    job,          \* the id taken from the list, or Null
    verdict,      \* what the sandbox answered, or Null
    wloaded,      \* the attempt's score when it was loaded
    wscore,       \* the score about to be stored
    \* failures so far
    faults

hvars == <<hpc, req, seen, loaded, link, sub, late>>
wvars == <<wpc, job, verdict, wloaded, wscore>>
vars == <<now, attempts, subs, queue, hvars, wvars, faults>>

-----------------------------------------------------------------------------
(* Rows *)

AttemptRow == [started: Nat, expires: Nat, submitted: Nat \cup {Null}, score: Nat]

SubmissionRow == [user: Users, question: Questions, kind: AllKinds,
                  linked: BOOLEAN,             \* attempt_id IS NOT NULL
                  status: Statuses]

ASSUME NullAssumption == /\ Null \notin SubIds \cup Users \cup Nat
                         /\ Null \notin AttemptRow
                         /\ Null \notin SubmissionRow

\* Mutant: no deadline is computed.
NewAttemptWithoutDeadline(t) ==
    [started |-> t, expires |-> Null, submitted |-> Null, score |-> 0]

NewAttempt(t) ==
    [started |-> t, expires |-> t + Duration, submitted |-> Null, score |-> 0]

\* attempt_status
AttemptStatus(a, t) ==
    IF a = Null THEN "not_started"
    ELSE IF a.submitted # Null
         THEN IF a.submitted >= a.expires THEN "expired" ELSE "completed"
         ELSE IF t >= a.expires THEN "expired" ELSE "active"

\* The questions calculate_attempt_score counts, in a given state of the table.
Solved(rows, u) ==
    {q \in Questions : \E s \in SubIds :
        /\ rows[s] # Null
        /\ rows[s].user = u /\ rows[s].linked
        /\ rows[s].question = q
        /\ rows[s].kind = "submit" /\ rows[s].status = "accepted"}

\* Mutant: count(id) in place of count(distinct question_id).
CountSubmissions(rows, u) ==
    Cardinality({s \in SubIds : /\ rows[s] # Null
                                /\ rows[s].user = u /\ rows[s].linked
                                /\ rows[s].kind = "submit" /\ rows[s].status = "accepted"})

CalculateAttemptScore(rows, u) == Cardinality(Solved(rows, u))

\* UPDATE attempts SET score: the ORM leaves the column out of the statement
\* when the new value equals the one it loaded.
StoredScore(stored, old, new) == IF new # old THEN new ELSE stored

-----------------------------------------------------------------------------
(* Requests *)

\* "read" stands for every GET that calls get_user_attempt.  A finish names
\* the attempt it closes; here, by the user that attempt belongs to.
Requests ==
    [op: Ops \cap {"start", "read"}, user: Users]
      \cup [op: Ops \cap {"finish"}, user: Users, attempt: Users]
      \cup [op: Ops \cap {"submit"}, user: Users, question: Questions, kind: Kinds]

\* Whose attempts row the request loads.
Owner(r) == IF r.op = "finish" THEN r.attempt ELSE r.user

HandlerPCs == {"idle", "sync", "count", "commit", "refresh", "resume",
               "insert", "reload", "cases", "add", "push", "reply"}

WorkerPCs == {"pop", "start", "judge", "load", "count", "commit", "down"}

Init ==
    /\ now = 0
    /\ attempts = [u \in Users |-> Null]
    /\ subs = [s \in SubIds |-> Null]
    /\ queue = <<>>
    /\ hpc = [h \in Handlers |-> "idle"]
    /\ req = [h \in Handlers |-> Null]
    /\ seen = [h \in Handlers |-> Null]
    /\ loaded = [h \in Handlers |-> 0]
    /\ link = [h \in Handlers |-> FALSE]
    /\ sub = [h \in Handlers |-> Null]
    /\ late = [h \in Handlers |-> FALSE]
    /\ wpc = [w \in Workers |-> "pop"]
    /\ job = [w \in Workers |-> Null]
    /\ verdict = [w \in Workers |-> Null]
    /\ wloaded = [w \in Workers |-> 0]
    /\ wscore = [w \in Workers |-> 0]
    /\ faults = 0

-----------------------------------------------------------------------------
(* API handlers *)

\* What a request does not change unless its action says so.
shared == <<now, attempts, subs, queue, wvars, faults>>

Goto(h, pc) == hpc' = [hpc EXCEPT ![h] = pc]

\* The request ends and its session is closed.
Leave(h) ==
    /\ Goto(h, "idle")
    /\ req' = [req EXCEPT ![h] = Null]
    /\ seen' = [seen EXCEPT ![h] = Null]
    /\ loaded' = [loaded EXCEPT ![h] = 0]
    /\ link' = [link EXCEPT ![h] = FALSE]
    /\ sub' = [sub EXCEPT ![h] = Null]
    /\ late' = [late EXCEPT ![h] = FALSE]

\* SELECT or refresh of the attempts row of u into the session of h.
Fetch(h, u) ==
    /\ seen' = [seen EXCEPT ![h] = attempts[u]]
    /\ loaded' = [loaded EXCEPT ![h] = IF attempts[u] = Null THEN 0 ELSE attempts[u].score]

\* Bound: there is an unused id for every submit under way and one more.
Free == {s \in SubIds : subs[s] = Null}
Adding == {h \in Handlers : hpc[h] \notin {"idle", "push"} /\ req[h].op = "submit"}
Room(r) == r.op = "submit" => Cardinality(Adding) < Cardinality(Free)

\* A request reaches the API and its first statement on changing data runs:
\* the SELECT of get_user_attempt, or db.get(Attempt, id) of a finish.  "late"
\* remembers, for the properties only, whether the attempt was closed by then.
Arrive(h, r) ==
    /\ hpc[h] = "idle"
    /\ Room(r)
    /\ Goto(h, "sync")
    /\ req' = [req EXCEPT ![h] = r]
    /\ Fetch(h, Owner(r))
    /\ late' = [late EXCEPT ![h] =
          AttemptStatus(attempts[Owner(r)], now) \in {"completed", "expired"}]
    /\ UNCHANGED <<link, sub, shared>>

\* Mutant: nobody asks whose attempt is finished.
RefusedWithoutOwner(r, a) == a = Null /\ r.op # "start"

\* No attempt: 403 for a question or a submission, 404 for a finish, an empty
\* answer to a read.  Finishing somebody else's attempt: 403.
Refused(r, a) ==
    \/ a = Null /\ r.op # "start"
    \/ r.op = "finish" /\ r.attempt # r.user

Refuse(h) ==
    /\ hpc[h] = "sync"
    /\ Refused(req[h], seen[h])
    /\ Leave(h)
    /\ UNCHANGED shared

\* sync_attempt, up to its first await: an attempt that ran out of time is
\* stamped with its own deadline ...
RunOut(a, t) == a # Null /\ a.submitted = Null /\ t >= a.expires

SyncExpired(h) ==
    /\ hpc[h] = "sync"
    /\ ~Refused(req[h], seen[h])
    /\ RunOut(seen[h], now)
    /\ Goto(h, "count")
    /\ seen' = [seen EXCEPT ![h].submitted = seen[h].expires]
    /\ UNCHANGED <<req, loaded, link, sub, late, shared>>

\* ... and any other attempt is left alone.
SyncUnchanged(h) ==
    /\ hpc[h] = "sync"
    /\ ~Refused(req[h], seen[h])
    /\ ~RunOut(seen[h], now)
    /\ Goto(h, "resume")
    /\ UNCHANGED <<req, seen, loaded, link, sub, late, shared>>

\* attempt.score = await calculate_attempt_score(...)
CountScore(h) ==
    /\ hpc[h] = "count"
    /\ Goto(h, "commit")
    /\ seen' = [seen EXCEPT ![h].score = CalculateAttemptScore(subs, Owner(req[h]))]
    /\ UNCHANGED <<req, loaded, link, sub, late, shared>>

\* The UPDATE of the closed attempt, from the session's copy, is committed.
ClosedRow(stored, mine, old) ==
    [stored EXCEPT !.submitted = mine.submitted,
                   !.score = StoredScore(@, old, mine.score)]

CommitClose(h) ==
    /\ hpc[h] = "commit"
    /\ attempts' = [attempts EXCEPT ![Owner(req[h])] = ClosedRow(@, seen[h], loaded[h])]
    /\ Goto(h, "refresh")
    /\ UNCHANGED <<req, seen, loaded, link, sub, late>>
    /\ UNCHANGED <<now, subs, queue, wvars, faults>>

Refresh(h) ==
    /\ hpc[h] = "refresh"
    /\ Goto(h, "resume")
    /\ Fetch(h, Owner(req[h]))
    /\ UNCHANGED <<req, link, sub, late, shared>>

\* start_attempt finds no row and builds one ...
CreateAttempt(h) ==
    /\ hpc[h] = "resume"
    /\ req[h].op = "start" /\ seen[h] = Null
    /\ Goto(h, "insert")
    /\ seen' = [seen EXCEPT ![h] = NewAttempt(now)]
    /\ UNCHANGED <<req, loaded, link, sub, late, shared>>

\* Mutant: the constraint UNIQUE (user_id, test_id) is missing.
InsertAttemptAnyway(h) ==
    /\ hpc[h] = "insert"
    /\ attempts' = [attempts EXCEPT ![req[h].user] = seen[h]]
    /\ Goto(h, "refresh")
    /\ UNCHANGED <<req, seen, loaded, link, sub, late>>
    /\ UNCHANGED <<now, subs, queue, wvars, faults>>

\* ... the INSERT succeeds ...
InsertAttempt(h) ==
    /\ hpc[h] = "insert"
    /\ attempts[req[h].user] = Null
    /\ attempts' = [attempts EXCEPT ![req[h].user] = seen[h]]
    /\ Goto(h, "refresh")
    /\ UNCHANGED <<req, seen, loaded, link, sub, late>>
    /\ UNCHANGED <<now, subs, queue, wvars, faults>>

\* Mutant: after the rollback the rejected object itself is the answer.
RejectInsertAnswersIt(h) ==
    /\ hpc[h] = "insert"
    /\ attempts[req[h].user] # Null
    /\ Goto(h, "resume")
    /\ UNCHANGED <<req, seen, loaded, link, sub, late, shared>>

\* ... or UNIQUE (user_id, test_id) rejects it: rollback, then look again.
RejectInsert(h) ==
    /\ hpc[h] = "insert"
    /\ attempts[req[h].user] # Null
    /\ Goto(h, "reload")
    /\ UNCHANGED <<req, seen, loaded, link, sub, late, shared>>

\* The second get_user_attempt; a missing row re-raises the IntegrityError.
Reload(h) ==
    /\ hpc[h] = "reload"
    /\ IF attempts[req[h].user] = Null
       THEN Leave(h)
       ELSE /\ Goto(h, "sync")
            /\ Fetch(h, req[h].user)
            /\ UNCHANGED <<req, link, sub, late>>
    /\ UNCHANGED shared

\* Mutant: the score is recounted and the time of submission forgotten.
StampFinishWithoutTime(h) ==
    /\ hpc[h] = "resume"
    /\ req[h].op = "finish" /\ seen[h].submitted = Null
    /\ Goto(h, "count")
    /\ UNCHANGED <<req, seen, loaded, link, sub, late, shared>>

\* Mutant: "if attempt.submitted_at is None" is missing.
StampFinishAgain(h) ==
    /\ hpc[h] = "resume"
    /\ req[h].op = "finish"
    /\ Goto(h, "count")
    /\ seen' = [seen EXCEPT ![h].submitted = now]
    /\ UNCHANGED <<req, loaded, link, sub, late, shared>>

\* finish_test_attempt closes an attempt that still had time.
StampFinish(h) ==
    /\ hpc[h] = "resume"
    /\ req[h].op = "finish" /\ seen[h].submitted = Null
    /\ Goto(h, "count")
    /\ seen' = [seen EXCEPT ![h].submitted = now]
    /\ UNCHANGED <<req, loaded, link, sub, late, shared>>

\* The attempt, as this session last saw it, is the answer.
Answer(h) ==
    /\ hpc[h] = "resume"
    /\ seen[h] # Null
    /\ \/ req[h].op \in {"start", "read"}
       \/ req[h].op = "finish" /\ seen[h].submitted # Null
    /\ Goto(h, "reply")
    /\ UNCHANGED <<req, seen, loaded, link, sub, late, shared>>

Done(h) ==
    /\ hpc[h] = "reply"
    /\ Leave(h)
    /\ UNCHANGED shared

\* Mutant: any attempt is linked.
ResolveLinkAlways(h) ==
    /\ hpc[h] = "resume"
    /\ req[h].op = "submit"
    /\ Goto(h, "cases")
    /\ link' = [link EXCEPT ![h] = TRUE]
    /\ seen' = [seen EXCEPT ![h] = Null]
    /\ loaded' = [loaded EXCEPT ![h] = 0]
    /\ UNCHANGED <<req, sub, late, shared>>

\* resolve_submission_attempt: only an active attempt is linked.  Of the
\* attempt itself nothing but its id is used from here on.
ResolveLink(h) ==
    /\ hpc[h] = "resume"
    /\ req[h].op = "submit"
    /\ Goto(h, "cases")
    /\ link' = [link EXCEPT ![h] = AttemptStatus(seen[h], now) = "active"]
    /\ seen' = [seen EXCEPT ![h] = Null]
    /\ loaded' = [loaded EXCEPT ![h] = 0]
    /\ UNCHANGED <<req, sub, late, shared>>

\* The COUNT of test cases: none of the kind asked for is a 422.
Judgeable(r) == CaseCount[r.question, r.kind] > 0

CountCases(h) ==
    /\ hpc[h] = "cases"
    /\ IF Judgeable(req[h])
       THEN Goto(h, "add") /\ UNCHANGED <<req, seen, loaded, link, sub, late>>
       ELSE Leave(h)
    /\ UNCHANGED shared

\* The submission is committed (and refreshed) before it is queued.
InsertSubmission(h, s) ==
    /\ hpc[h] = "add"
    /\ subs[s] = Null
    /\ subs' = [subs EXCEPT ![s] =
          [user |-> req[h].user, question |-> req[h].question, kind |-> req[h].kind,
           linked |-> link[h], status |-> "pending"]]
    /\ Goto(h, "push")
    /\ sub' = [sub EXCEPT ![h] = s]
    /\ UNCHANGED <<req, seen, loaded, link, late>>
    /\ UNCHANGED <<now, attempts, queue, wvars, faults>>

\* Mutant: the id goes to a list no worker reads.
PushElsewhere(h) ==
    /\ hpc[h] = "push"
    /\ Leave(h)
    /\ UNCHANGED shared

\* redis.lpush
Push(h) ==
    /\ hpc[h] = "push"
    /\ queue' = Append(queue, sub[h])
    /\ Leave(h)
    /\ UNCHANGED <<now, attempts, subs, wvars, faults>>

\* The request fails at an await: the client goes away, a statement or a
\* Redis call raises, or the API process is killed.  Its transaction is lost.
Abort(h) ==
    /\ hpc[h] \notin {"idle", "reply"}
    /\ faults < MaxFaults
    /\ faults' = faults + 1
    /\ Leave(h)
    /\ UNCHANGED <<now, attempts, subs, queue, wvars>>

\* After the rollback of RejectInsert every object of the session is expired,
\* so reading user.id for the second look may itself raise.
AbortReload(h) ==
    /\ hpc[h] = "reload"
    /\ Leave(h)
    /\ UNCHANGED shared

-----------------------------------------------------------------------------
(* The judge worker *)

WGoto(w, pc) == wpc' = [wpc EXCEPT ![w] = pc]

\* The worker forgets its job and is at the given place.
Drop(w, pc) ==
    /\ WGoto(w, pc)
    /\ job' = [job EXCEPT ![w] = Null]
    /\ verdict' = [verdict EXCEPT ![w] = Null]
    /\ wloaded' = [wloaded EXCEPT ![w] = 0]
    /\ wscore' = [wscore EXCEPT ![w] = 0]

\* Mutant: the id is read and stays in the list.
PopJobKeeps(w) ==
    /\ wpc[w] = "pop" /\ queue # <<>>
    /\ WGoto(w, "start")
    /\ job' = [job EXCEPT ![w] = Head(queue)]
    /\ UNCHANGED <<now, attempts, subs, queue, hvars, verdict, wloaded, wscore, faults>>

\* BRPOP removes the id from the list before anything is done about it.
PopJob(w) ==
    /\ wpc[w] = "pop" /\ queue # <<>>
    /\ queue' = Tail(queue)
    /\ WGoto(w, "start")
    /\ job' = [job EXCEPT ![w] = Head(queue)]
    /\ UNCHANGED <<now, attempts, subs, hvars, verdict, wloaded, wscore, faults>>

\* Mutant: RUNNING is set but not committed before the sandbox is called.
StartJudgingUncommitted(w) ==
    /\ wpc[w] = "start"
    /\ IF subs[job[w]] = Null
       THEN Drop(w, "pop")
       ELSE WGoto(w, "judge") /\ UNCHANGED <<job, verdict, wloaded, wscore>>
    /\ UNCHANGED <<now, attempts, subs, queue, hvars, faults>>

\* The row is loaded and committed as RUNNING; without a row the job is dropped.
StartJudging(w) ==
    /\ wpc[w] = "start"
    /\ IF subs[job[w]] = Null
       THEN Drop(w, "pop") /\ subs' = subs
       ELSE /\ WGoto(w, "judge")
            /\ subs' = [subs EXCEPT ![job[w]].status = "running"]
            /\ UNCHANGED <<job, verdict, wloaded, wscore>>
    /\ UNCHANGED <<now, attempts, queue, hvars, faults>>

\* A verdict that counts towards an attempt.
Scores(row, v) == row.kind = "submit" /\ row.linked /\ v = "accepted"

\* The sandbox answers; a scored acceptance goes on to the attempt.
Judge(w, v) ==
    /\ wpc[w] = "judge"
    /\ WGoto(w, IF Scores(subs[job[w]], v) THEN "load" ELSE "commit")
    /\ verdict' = [verdict EXCEPT ![w] = v]
    /\ UNCHANGED <<now, attempts, subs, queue, hvars, job, wloaded, wscore, faults>>

\* db.get(Attempt, ...)
LoadForScore(w) ==
    /\ wpc[w] = "load"
    /\ WGoto(w, "count")
    /\ wloaded' = [wloaded EXCEPT ![w] = attempts[subs[job[w]].user].score]
    /\ UNCHANGED <<now, attempts, subs, queue, hvars, job, verdict, wscore, faults>>

\* The worker's own session sees its flushed verdict beside the committed rows.
Flushed(w) == [subs EXCEPT ![job[w]].status = verdict[w]]

\* Mutant: no flush before the count (the sessions do not autoflush).
RecountUnflushed(w) ==
    /\ wpc[w] = "count"
    /\ WGoto(w, "commit")
    /\ wscore' = [wscore EXCEPT ![w] = CalculateAttemptScore(subs, subs[job[w]].user)]
    /\ UNCHANGED <<now, attempts, subs, queue, hvars, job, verdict, wloaded, faults>>

Recount(w) ==
    /\ wpc[w] = "count"
    /\ WGoto(w, "commit")
    /\ wscore' = [wscore EXCEPT ![w] =
          CalculateAttemptScore(Flushed(w), subs[job[w]].user)]
    /\ UNCHANGED <<now, attempts, subs, queue, hvars, job, verdict, wloaded, faults>>

\* Verdict and score become visible in one transaction.
CommitVerdict(w) ==
    /\ wpc[w] = "commit"
    /\ attempts' = IF Scores(subs[job[w]], verdict[w])
                   THEN [attempts EXCEPT ![subs[job[w]].user].score =
                           StoredScore(@, wloaded[w], wscore[w])]
                   ELSE attempts
    /\ subs' = Flushed(w)
    /\ Drop(w, "pop")
    /\ UNCHANGED <<now, queue, hvars, faults>>

\* Mutant: a dying worker puts its id back as it is.
CrashRequeues(w) ==
    /\ wpc[w] # "down"
    /\ faults < MaxFaults
    /\ faults' = faults + 1
    /\ queue' = IF job[w] = Null THEN queue ELSE Append(queue, job[w])
    /\ Drop(w, "down")
    /\ UNCHANGED <<now, attempts, subs, hvars>>

\* The worker process dies (an exception leaves its loop, or it is killed) ...
Crash(w) ==
    /\ wpc[w] # "down"
    /\ faults < MaxFaults
    /\ faults' = faults + 1
    /\ Drop(w, "down")
    /\ UNCHANGED <<now, attempts, subs, queue, hvars>>

\* Mutant: a service without Restart=always.
RestartNever(w) ==
    /\ wpc[w] = "down" /\ FALSE
    /\ Drop(w, "pop")
    /\ UNCHANGED <<now, attempts, subs, queue, hvars, faults>>

\* ... and systemd or compose starts it again, with nothing remembered.
Restart(w) ==
    /\ wpc[w] = "down"
    /\ Drop(w, "pop")
    /\ UNCHANGED <<now, attempts, subs, queue, hvars, faults>>

-----------------------------------------------------------------------------

Tick ==
    /\ now < MaxNow
    /\ now' = now + 1
    /\ UNCHANGED <<attempts, subs, queue, hvars, wvars, faults>>

HandlerStep(h) ==
    \/ Refuse(h) \/ SyncExpired(h) \/ SyncUnchanged(h)
    \/ CountScore(h) \/ CommitClose(h) \/ Refresh(h)
    \/ CreateAttempt(h) \/ InsertAttempt(h) \/ RejectInsert(h) \/ Reload(h)
    \/ StampFinish(h) \/ Answer(h) \/ Done(h)
    \/ ResolveLink(h) \/ CountCases(h)
    \/ \E s \in SubIds : InsertSubmission(h, s)
    \/ Push(h)

WorkerStep(w) ==
    \/ PopJob(w) \/ StartJudging(w)
    \/ \E v \in Verdicts : Judge(w, v)
    \/ LoadForScore(w) \/ Recount(w) \/ CommitVerdict(w) \/ Restart(w)

Next ==
    \/ Tick
    \/ \E h \in Handlers :
          \/ \E r \in Requests : Arrive(h, r)
          \/ HandlerStep(h)
          \/ Abort(h)
          \/ AbortReload(h)
    \/ \E w \in Workers : WorkerStep(w) \/ Crash(w)

Spec == Init /\ [][Next]_vars

\* The event loop resumes every request whose await has completed, the worker
\* loop polls forever, and a dead worker is restarted (Restart=always).
Fairness == /\ \A h \in Handlers : WF_vars(HandlerStep(h))
            /\ \A w \in Workers : WF_vars(WorkerStep(w))

FairSpec == Spec /\ Fairness

-----------------------------------------------------------------------------
(* Properties *)

\* Every variable, row and record field keeps to its type.
TypeOK ==
    /\ now \in Nat
    /\ attempts \in [Users -> AttemptRow \cup {Null}]
    /\ subs \in [SubIds -> SubmissionRow \cup {Null}]
    /\ queue \in Seq(SubIds)
    /\ hpc \in [Handlers -> HandlerPCs]
    /\ req \in [Handlers -> Requests \cup {Null}]
    /\ seen \in [Handlers -> AttemptRow \cup {Null}]
    /\ loaded \in [Handlers -> Nat]
    /\ link \in [Handlers -> BOOLEAN]
    /\ sub \in [Handlers -> SubIds \cup {Null}]
    /\ late \in [Handlers -> BOOLEAN]
    /\ wpc \in [Workers -> WorkerPCs]
    /\ job \in [Workers -> SubIds \cup {Null}]
    /\ verdict \in [Workers -> Verdicts \cup {Null}]
    /\ wloaded \in [Workers -> Nat]
    /\ wscore \in [Workers -> Nat]
    /\ faults \in Nat

Exists(s) == subs[s] # Null
Pushing(h, s) == hpc[h] = "push" /\ sub[h] = s
Queued(s) == \E i \in 1..Len(queue) : queue[i] = s
Busy(w) == wpc[w] \notin {"pop", "down"}

\* A submission is in one pair of hands at a time: the request that is about
\* to queue it, one place in the Redis list, or one worker.
SingleCustody ==
    /\ \A i, j \in 1..Len(queue) : queue[i] = queue[j] => i = j
    /\ \A h, g \in Handlers : \A s \in SubIds :
          Pushing(h, s) => ~Queued(s) /\ (Pushing(g, s) => h = g)
    /\ \A w \in Workers : Busy(w) =>
          /\ ~Queued(job[w])
          /\ \A h \in Handlers : ~Pushing(h, job[w])
          /\ \A v \in Workers : Busy(v) /\ job[v] = job[w] => v = w

\* Whoever holds a submission finds its row as the holder expects it: an id
\* is queued only once its row is committed (main.py:368), a queued one is
\* still pending, and one being judged is running.
HeldAsExpected ==
    /\ \A i \in 1..Len(queue) : Exists(queue[i]) /\ subs[queue[i]].status = "pending"
    /\ \A h \in Handlers : \A s \in SubIds :
          Pushing(h, s) => Exists(s) /\ subs[s].status = "pending"
    /\ \A w \in Workers : Busy(w) =>
          /\ Exists(job[w])
          /\ subs[job[w]].status =
                IF wpc[w] = "start" THEN "pending" ELSE "running"

\* Everything a submission goes through is what SubmissionLifecycle promises.
Lifecycle == INSTANCE SubmissionLifecycle WITH
    Ids <- SubIds,
    status <- [s \in SubIds |-> IF subs[s] = Null THEN "absent" ELSE subs[s].status]
ImplementsLifecycle == Lifecycle!LifecycleSpec

\* What a user has earned, said without the query of calculate_attempt_score.
ScoredAcceptances(rows, u) ==
    {s \in SubIds : /\ rows[s] # Null
                    /\ rows[s].user = u /\ rows[s].linked
                    /\ rows[s].kind = "submit" /\ rows[s].status = "accepted"}
Earned(rows, u) == {rows[s].question : s \in ScoredAcceptances(rows, u)}

\* An attempt never shows more solved problems than the user has solved, each
\* problem counting once: not after concurrent closes, workers that count the
\* same rows, practice or trial runs, retries or crashes.
NoPhantomCredit ==
    \A u \in Users : attempts[u] # Null => attempts[u].score <= Cardinality(Earned(subs, u))

\* While an attempt is open its stored score is exact at every moment: judge
\* commits verdict and recount together, and nobody else writes the score of
\* an open attempt.  Only with one worker (docker/README.md:58).
OpenScoreExact ==
    \A u \in Users : attempts[u] # Null /\ attempts[u].submitted = Null =>
        attempts[u].score = Cardinality(Earned(subs, u))

\* A student cannot get a second or longer attempt: once there is a row, its
\* start and deadline stay, it is not replaced, and once closed it stays closed.
AttemptIsOnce ==
    [][\A u \in Users : attempts[u] # Null =>
          /\ attempts'[u] # Null
          /\ attempts'[u].started = attempts[u].started
          /\ attempts'[u].expires = attempts[u].expires
          /\ (attempts[u].submitted # Null => attempts'[u].submitted # Null)]_vars

\* One student's requests and submissions never touch another's attempt, not
\* even a finish that names it (main.py:515).
OthersKeepTheirAttempt ==
    [][\A u \in Users : attempts'[u] # attempts[u] =>
          \/ \E h \in Handlers : hpc[h] \in {"insert", "commit"} /\ req[h].user = u
          \/ \E w \in Workers : wpc[w] = "commit" /\ subs[job[w]].user = u]_vars

\* A request that read the attempt of u while it was open and may still close it.
StillClosing(h, u) ==
    /\ \/ hpc[h] \in {"count", "commit"}
       \/ hpc[h] \in {"sync", "resume"} /\ seen[h] # Null /\ seen[h].submitted = Null
    /\ Owner(req[h]) = u

Final(u) ==
    /\ attempts[u] # Null /\ attempts[u].submitted # Null
    /\ \A h \in Handlers : ~StillClosing(h, u)

StaysFinal == \A u \in Users : Final(u) =>
                  Final(u)' /\ attempts'[u].submitted = attempts[u].submitted

\* Finishing is idempotent (tests/test_contest_flow.py:209-216) as far as that
\* goes: an attempt that is closed, with no request at work that read it open,
\* has its submitted_at for good, whatever arrives, races or fails later.
\* Overlapping closers do move it: the last one to commit wins.
FinishIsFinal == [][StaysFinal]_vars

\* Every answer describes the one attempt that is stored, also when two starts
\* raced and one INSERT was rejected; a finish answers only once it is closed.
AnswersTellTheTruth ==
    \A h \in Handlers : hpc[h] = "reply" =>
        LET r == req[h]
            a == attempts[Owner(r)] IN
        /\ a # Null
        /\ seen[h].started = a.started
        /\ seen[h].expires = a.expires
        /\ (r.op = "finish" => seen[h].submitted # Null)
        /\ (seen[h].submitted # Null => a.submitted # Null)

\* A request that reads its attempt after it was finished or ran out of time is
\* practice: whatever races with it, its submission is not linked.
LateIsPractice ==
    \A h \in Handlers :
        late[h] /\ hpc[h] \in {"cases", "add", "push"} => ~link[h]

\* Every submission gets its verdict, unless a request or a worker fails.
Judged(s) == Exists(s) /\ subs[s].status \in Finals
JudgedUnlessFault == \A s \in SubIds : Exists(s) ~> Judged(s) \/ faults > 0

\* However often workers die, an id does not stay in the Redis list for ever.
QueueDrains == \A s \in SubIds : Queued(s) ~> ~Queued(s)

-----------------------------------------------------------------------------
(* What the tests and the pages say, which not every run bears out *)

\* QuestionDetail.tsx:174 sends the user to the submissions list "for the final
\* result": there will be one, also when something fails on the way.
EveryoneIsJudged == \A s \in SubIds : Exists(s) ~> Judged(s)

\* TestDetail.tsx:199 shows the score of a closed attempt as problems solved:
\* with nothing under way any more, that is what it should be.
SettledScoreExact ==
    \A u \in Users :
        /\ attempts[u] # Null
        /\ attempts[u].submitted # Null
        /\ \A h \in Handlers : hpc[h] = "idle"
        /\ \A w \in Workers : ~Busy(w)
        => attempts[u].score = Cardinality(Earned(subs, u))

=============================================================================
