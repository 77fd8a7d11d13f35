# CODE_ME in TLA+

CODE_ME is an online judge for timed contests: a FastAPI backend on PostgreSQL, a Redis list that
carries submission ids to judge workers, a Docker sandbox that runs submitted code, a Redis
channel and websockets that carry statuses back, and a React frontend. This directory holds a
model of it in TLA+, the TLC configurations that check it on small instances, and proofs of the
main safety properties for instances of every size.

All paths below are relative to the repository; `PROJECT.json` maps every definition to its lines.

## 1. Inventory

| Component | Code | State it keeps | Operations | Talks to |
|---|---|---|---|---|
| Contest attempts | `backend/contest_service.py`, `backend/main.py` 448-524 | one `attempts` row per student and test: `started_at`, `expires_at`, `submitted_at`, `score` | start, read (every GET under a test), finish, closing what ran out of time (`sync_attempt`) | tables; scores come from the worker too |
| Submission intake | `main.py` 314-371 (`create_execution`), `redis_client.py` | a `submissions` row, an id in the list | resolve the attempt, count test cases, insert and commit, `LPUSH` | tables, Redis list, judge worker |
| Judge worker | `backend/worker.py` | nothing but local variables | `BRPOP`, RUNNING, sandbox, verdict, recount, commit, publish | Redis list and channel, tables, sandbox |
| Status feed | `pub_sub.py`, `ws_manager.py`, `websocket.py` | subscription, dictionary submission -> socket | listen, connect, greet, send, disconnect | Redis channel, browser |
| Problem page | `frontend/src/pages/QuestionDetail.tsx` | socket, fallback timer, polling interval, what is shown | execute, follow, poll, finish, clear | API over HTTP and websocket |
| Tables and sessions | `model.py`, `database.py` | the rows and constraints above; users, tests, questions, cases | SQL at READ COMMITTED; sessions without autoflush | everything |
| Sandbox | `vm.py`, `docker_executor.py`, `docker/judge/runner.py`, `language_config.py` | a container and a temporary directory per judgement | compile, run the cases, compare, time limits, clean up | worker, Docker |
| Seeding | `seed.py`, `seed_catalog.py` | a session: what it has added, changed, flushed | make the tables agree with the catalogue, in one transaction | tables |
| Contest page and clock | `TestDetail.tsx`, `contestTime.ts`, `contestClock.ts` | what is shown, the offset to the server's clock, the countdown | load, start, finish, count down, reload at zero | API |
| Accounts | `auth.py`, parts of `main.py` | users, cookies | sign up, sign in, roles | tables |
| Catalogue administration | `main.py`, `schema.py` | tests, questions, cases | single inserts behind an ownership check | tables |
| Migrations, deployment | `migrations/`, `deploy/`, `docker-compose.yml` | schema; running services | upgrade; restart what died | everything |

What makes each of the modelled ones correct, and what is hard about it:

* **Attempts.** There is one per student, never reopened or prolonged, and no score counts more
  than was solved. Hard: every handler awaits between reading the row and writing it, reads the
  clock at different moments, and writes from a copy; two starts race on a UNIQUE constraint; the
  worker writes the same column.
* **Intake and worker.** An id is committed before it is queued, judged once, and its verdict
  stands. Hard: the id is in exactly one place only as long as nothing dies; `BRPOP` forgets it.
* **Status feed and page.** The page gets the verdict of what it ran, whatever breaks. Hard: a
  status is read, and then a socket registered; a published message is never repeated; three
  ways to end an execution (socket, fallback, poll) share `pollRef`, `wsRef` and
  `executionActiveRef`; polls overlap.
* **Sandbox.** A verdict is the program's own, judging ends, and nothing is left behind. Hard: two
  layers of time limits have to fit into each other, and the CLI, the daemon and the container
  live and die independently.
* **Seeding and catalogue.** From the first seed on there is a complete catalogue at every moment;
  seeding again changes nothing. Hard: it runs when an API process starts and during an update,
  beside the old API and worker and possibly beside itself; titles are not unique; it deletes on
  what it read long before it commits; students submit to, and the worker judges, what it changes.
* **Contest page.** The countdown is fair, its end is the end, and what is shown catches up with
  the server. Hard: loads overlap and the last answer wins; one answer is made of three readings of
  the server's clock; the browser's own clock is off.

## 2. Modules

| Module | What it is |
|---|---|
| `Contest` | attempts, intake, Redis list and workers together, and their properties |
| `SubmissionLifecycle` | abstract: what a client is promised about one submission |
| `StatusFeed` | publishing, listener, manager, endpoint, sockets and the problem page |
| `JudgeSandbox` | the executors, the runner in its container, and the time limits of both |
| `Seeding` | seeds beside each other, an administrator, a student and the worker |
| `ContestPage` | the contest page, its requests, its countdown and the server's clock |
| `MCContest`, `MCStatusFeed`, `MCJudgeSandbox`, `MCSeeding`, `MCContestPage` | values of the constants for TLC, and symmetry |
| `ContestInvariant` | the inductive invariant of `Contest`, in layers |
| `ContestProofs` | type correctness of `Contest`, with the layer `ShapeInv`; custody of submissions, and that `Contest` implements `SubmissionLifecycle` |
| `ContestAttemptProofs` | the safety properties of attempts and of their scores, and with them the whole of `IndInv` |
| `StatusFeedProofs` | the safety properties of the feed and the problem page |
| `JudgeSandboxProofs` | types, verdicts and left-over containers of the sandbox, and that its time limits fit into each other |
| `ContestPageProofs` | the safety properties of the contest page |
| `SeedingInvariant` | the inductive invariant of `Seeding`, in layers, the order of locks, and what a second seed finds |
| `SeedingProofs` | that it is inductive, and the safety properties of the catalogue |
| `SeedingWaitingProofs` | that seeds do not wait for each other in a circle |
| `SeedingRepeatProofs` | that seeds double nothing, and that seeding again writes nothing |

`Contest` and `StatusFeed` meet in `SubmissionLifecycle`: `Contest` is shown to implement it
(checked, and proved), and `StatusFeed` takes its steps as what the API and the judge do to a
row. So `StatusFeed` need not repeat attempts or the list. `JudgeSandbox` is what happens in one
step of `Contest`, `Judge(w, v)`: `Contest` lets the sandbox answer any verdict, or its worker
crash, and `JudgeSandbox` says which it answers when. `ContestPage` takes the two handlers that
write an attempt in one step each (what happens between their awaits is `Contest`'s) and looks at
what `Contest` leaves out: answers, and who reads them when. `Seeding` has the rows that the other
modules take as given, questions and cases, and repeats of intake and judging only the steps that
read them.

### Contest: state and actions

* A **handler slot** `h` is a request in progress. `hpc[h]` is the await it is at, `req[h]` the
  request, `seen[h]` the ORM copy of the attempt in its session, `loaded[h]` the score that copy
  was loaded with (the ORM writes a column only if it changed), `link[h]` whether an attempt is
  passed to `Submission(...)`, `sub[h]` the row it inserted. A **worker** has `wpc`, `job`,
  `verdict`, `wloaded` and `wscore` in the same way.
* **One action is what runs between two awaits**, with the statement that ends it. `Arrive` is
  the SELECT of `get_user_attempt` (or `db.get(Attempt, id)`); `SyncExpired`, `CountScore`,
  `CommitClose`, `Refresh` are `sync_attempt`; the same last three serve `finish_test_attempt`
  after `StampFinish`; `CreateAttempt`, `InsertAttempt`, `RejectInsert`, `Reload` are
  `start_attempt` with its IntegrityError; `ResolveLink`, `CountCases`, `InsertSubmission`,
  `Push` are `create_execution`; `PopJob`, `StartJudging`, `Judge`, `LoadForScore`, `Recount`,
  `CommitVerdict` are the worker's loop.
* **Failures**: `Abort` ends a request at any await (client gone, statement or Redis error,
  API killed; its transaction is lost, what it had committed stays), `AbortReload` is the case in
  which the session's expired objects raise after the rollback, `Crash` kills a worker anywhere.
  `Restart` is `Restart=always` of systemd and compose.
* **Data**: users are students (administrators are answered before this state is read), the
  number of cases of each kind and question is the constant `CaseCount`, code and language of a
  submission do not matter here, and the sandbox answers any verdict of `Verdicts`.

### StatusFeed: state and actions

* `TakeUp`, `Decide`, `Publish`, `LoseJob` are the judge: commit, then publish; an id may be lost
  with whoever holds it. `ReadStatus`, `Connect`, `GreetingFails`, `Disconnect` are the endpoint's
  coroutine; `Deliver`, `Unsubscribe`, `Subscribe` the listener.
* `Execute`, `Create`, `Follow`, `PostFails` are `execute` around its POST; `Opened`, `OnMessage`,
  `OnError`, `OnClose`, `FallbackFires`, `BreakSocket` are the browser's socket and its handlers;
  `Tick`, `GetSubmission`, `Polled`, `PollFails` the polling interval, whose requests overlap.
* `current`, `about`, `received` (and `late` in `Contest`) are history variables: properties read them
  and no action does.
* A greeting and the listener's messages reach one socket from two coroutines, so that it can be sent
  the verdict first and `running` behind it. The page closes the socket when it reads the verdict
  (`finishExecution`) and reads nothing behind it: `received` is the last status it has read there, and
  `SocketInOrder` is about that.
* Simplifications: one page, and one socket per submission, as the page opens; submissions are
  judged independently of each other; leaving the page is not modelled (its cleanup is
  `ClearConnections`, after which nothing is shown); sockets that are refused (no cookie,
  somebody else's submission) change no state and are left out.

### JudgeSandbox: state and actions

* `pc`, `cur`, `clock` and `verdict` are `mini_machine` and `execute_in_docker` in the worker:
  `StartDocker`, then one of `Answered`, `TimesOut`, `Interrupted`, then `Remove` (or
  `RemoveTimesOut`) and `ReadAnswer`, `Fail` or `Raise`; `Refuse` is what is rejected before.
  `LocalCompile`, `LocalRun`, `LocalAccept` are `local_machine`. `Killed` ends the worker.
* `box`, `fed`, `run`, `doing`, `left`, `wrote` are a container and the runner in it: `ReadRequest`,
  `Compile`/`Compiled` or `Interpret`, `RunCase`/`EndCase` for each case, `Accept`, `Exit`.
  `Spawn` is `_run_process`: a process takes no time or all of its limit. `AgentFails` is the runner's
  general `except`: whatever it raises itself after reading the request is answered as a runtime error.
* The daemon is external: `Create` may come at any time or never, `Break` ends a container without
  an answer.
* Time is counted in ticks of five seconds, which all limits are multiples of. `Tick` is any time
  that passes; when no process of the program runs in it, it counts as delay (`delay` saturates at
  `DelayCap`). A submission is judged once here: an id that is pushed again would be a new job.

### Seeding: state and actions

* `db` is what is committed: a function from ids to rows of five tables (one id space, as nothing
  compares ids of different tables), `parent` being the foreign key that cascades. Ids come from
  `given`, which, as sequences do, is never rolled back. Writes are sets of INSERTs, UPDATEs and
  DELETEs; `Apply` is what those of a transaction do to the rows, cascades included. A flush is one
  step, though its statements take their locks one after the other: SQLAlchemy sends them sorted by
  table and key, in every seed alike, so that a part of them does not close a circle.
* `Catalogue` and `CaseKeys` are sequences, as in `seed_catalog.py`; `nth` is where the loop over
  the questions is.
* `seed[p]` is a session. One action is one await of `seed_demo_data`: `FindAdmin`, `FindTest`,
  `ListRetired`, `CheckRetired`, `FindQuestion`, `SyncCases`, `Flush`, `Commit`. The session has
  autoflush off (`database.py` 50), so a SELECT sees what is committed and what was flushed (`sent`),
  but not what is only in the session (`unsent`).
* A SELECT without ORDER BY is taken to return rows in the order of their ids (of several cases with
  one key `SyncCases` keeps the first), and a lookup that finds several rows takes any.
* Row locks: a flushed UPDATE or DELETE that finds its row keeps it, and what it cascades to, until the
  end of the transaction; whoever writes one of them, inserts under a row that is being deleted, or inserts
  a username that is being inserted, waits (`Blocks`, `Waits`). A statement that finds its row or
  parent gone raises and rolls the seed back (`Reject`); `Fail` is a process that is killed.
* Beside it: `CreateTest`, `CheckOwner`, `Add` are another administrator (the ownership check and
  the insert are two steps), `Submit`, `InsertSubmission` the student, `StartJudging`, `LoadCases`,
  `StoreVerdict` the worker, whose UPDATE of a row that is gone ends it.
* `alone`, `calm`, `known` and `synced` of a session and the variables marked as history are for the
  properties only. One contest stands for the ten: they are treated one after the other in the same
  way. Descriptions, outputs and passwords are `"catalogue"` or `"other"`.
* A submission is judged on all cases of its question. A run is judged on the public ones only
  (`main.py` 341, `worker.py` 69), which is the same with `CaseKeys` the public cases alone:
  `validate_catalog` asks for two of them in every question, and the proofs are for any `CaseKeys`.

### ContestPage: state and actions

* `calls[c]` is a request of the page: `ReadAttempt`, `DecideAccess`, `StateStatus`, `StateTime` are
  the handler of a load, one per reading of the clock (`main.py` 141, 146, 117, 121), `Act` is a start
  or finish. `Show`, `ShowError`, `Follow` are what the page does with an answer; whichever answer
  comes last is shown. `Lose` fails a request anywhere.
* `Show` renders an answer, with the number that is on the countdown already (0 when the page opens);
  `StartCountdown` is the effect React runs after it, which replaces `interval` and computes
  that number. Between the two anything may happen but the rendering of another answer, which React
  would run the effect before; the old interval may fire once more.
* `CountDown` is that interval firing, `Refresh` all that loads without a click (opening,
  focus, 30 seconds), `Start` and `Finish` the buttons, which `busy` disables. `Elsewhere` is another
  tab or device.
* `skew` is the browser's clock less the server's. The page knows `offset`, from the `server_time`
  of an answer and its own clock when the answer came.
* Time is counted in half seconds, so that rounding up to seconds is visible; a deadline lies
  anywhere between two readings. The second click that confirms a finish is folded into `Finish`.

Next to some definitions stands a variant marked *Mutant*. It is not part of the specification:
it is that definition with a plausible mistake, named in `PROJECT.json` next to the property that
TLC then finds violated. This shows that each property depends on the code.

## 3. What is checked

All runs are breadth-first and complete for their constants.

| Run | Checks | What it shows |
|---|---|---|
| `races` | `TypeOK`, `AnswersTellTheTruth`, `LateIsPractice`, `AttemptIsOnce`, `OthersKeepTheirAttempt`, `FinishIsFinal` | Two overlapping requests of any kind, of one student or two, around the deadline. No second or longer attempt; answers describe the stored one, also after a rejected INSERT; a request that finds the attempt closed never links its submission; nobody touches another's attempt; a closed one keeps its `submitted_at` once no request is left that read it open (overlapping closers do move it). |
| `score` | `IndInv`, `NoPhantomCredit`, `OpenScoreExact` | Two requests while one worker judges two problems. No score is above what was solved; while open, it is exact; the inductive invariant holds. |
| `judging` | `SingleCustody`, `HeldAsExpected`, `ImplementsLifecycle`, `JudgedUnlessFault`, `QueueDrains` | Two requests (starts, runs and submits), two workers, two failures. A submission is in one pair of hands and goes through its lifecycle once; under fairness it is judged if nothing fails, and the list drains however workers die. |
| `feed` | `VerdictsAreStored`, `SocketInOrder`, `SilentSocketIsCovered` | Two executions of a page. No verdict is shown that is not stored; on the socket it follows the page never reads an older status after a newer one; a socket that has said nothing is backed by the fallback timer or a poll. |
| `delivery` | `TypeOK`, `PollingEnds`, `OpenFeedDelivers` | One execution, one thing breaking anywhere; two polls overlap. |
| `sandbox` | `TypeOK`, `VerdictsAreEarned`, `CatalogueFitsHost`, `LeftoversHaveAReason`, `JudgingEnds`, `ContainersEnd` | One submission in either executor, with everything Docker may do. A verdict is the program's own, unless Docker or the agent failed; a catalogue question is cut off by the host only if Docker lost ten seconds; a container is left only for a named reason, and ends by itself if it runs. |
| `seeding` | `TypeOK`, `CatalogueComplete`, `QuestionsComeWithCases`, `JudgedOnCases`, `NothingIsDoubled`, `ReseedIsANoop`, `WaitingEnds`, `SeenSubmissionsSurvive` | Two seeds, overlapping or in turn, from four databases (new; a new contest; an older catalogue under either owner). The catalogue is complete from the first commit on and its questions never without cases; nothing is judged on no cases; titles double only when seeds overlap on a database that has an administrator; a second seed writes nothing; seeds do not wait for each other in a circle; a submission goes only with a retired question, and only if it came after the seed had looked. |
| `page` | `TypeOK`, `NeverShort`, `ZeroFindsItClosed`, `ActionsShowTheirEffect`, `ClosedIsShown` | Two overlapping requests, one of which may be lost, a browser that is ahead. A countdown that was started never shows less than is left, the reload at zero finds the attempt closed, a start or finish shows, and a closed attempt is shown as practice in the end. |
| `settled` | `SettledScoreExact` (violated) | Finding 1 |
| `lost` | `EveryoneIsJudged` (violated) | Finding 2 |
| `missed` | `ExecutionEnds` (violated) | Finding 3 |
| `mixup` | `ShowsOwnStatus` (violated) | Finding 4 |

**Bounds.** `Room` lets a submit in only while an id is left for it (the ids are the history of a
run); `MaxNow` stops the clock once the deadline has passed (`Duration` = 1: before and after is
all the code distinguishes); `MaxFaults` and `MaxDrops` limit failures, because
each is a single step and the properties about them need one; `Slots` is how many polling
requests overlap, `MaxPolls` replaces the page's 30, `MaxTimers` is how many intervals are started.
Two handlers are enough for each race in the code, which is between two requests, or
a request and a worker; the proofs remove the bound for the properties they cover. Ids, slots and
workers are interchangeable (nothing orders them), which `SYMMETRY` uses in safety runs only.
`JudgeSandbox` has the limits of the code (10, 5 and 45 s: 2, 1 and 9 ticks), one job (jobs share
nothing but the worker, one after the other), and questions of one case, of five (every question
of the catalogue) and of eight (8 x 5 s + 10 s is more than the host allows); it has no deadlock
detection because the job comes to its end.
`Seeding` has two seeds (`MaxSeeds`; races are between two, and the second in turn is the one that
must write nothing), one addition, one submission and one crash (`MaxAdds`, `MaxSubs`, `MaxFaults`),
two questions and one retired one; `MaxId` = 18 ids are enough for all of them together, those that
`SyncCases` sets aside and does not use included. Its
deadlock check is off, as the runs come to their end; `WaitingEnds` is what it would have said.
`ContestPage` has two calls under way, because answers overtake each other in pairs; a deadline one
second after the start and a clock that goes on half a second beyond it. One skew is enough: a skew
that is constant cancels out of `offset`, and a mutant that ignores it is told apart by any
positive one; the proofs have every skew.
`StatusFeed` is checked without deadlock detection, because a user may stop using the page; in
`Contest` a request may always arrive or the bound on ids leaves other requests, so deadlock is
checked.

**Fairness.** `Contest!Fairness` is weak fairness of each request in progress (the event loop
resumes a coroutine whose await has completed; a request that fails does so by `Abort`, which is
not fair) and of each worker (`while True` around `BRPOP`, and `Restart=always`). Requests need
not arrive and nothing needs to fail. `StatusFeed!Fairness` is the same for the listener, the
endpoint, the worker and the browser: sockets hand out frames, timers fire, requests that
do not fail are answered. Users need not act and nothing needs to break. `JudgeSandbox!Fairness`:
the worker goes on when its await has ended, time passes, a running container is scheduled.
The daemon is not fair, so `JudgingEnds` holds with one that never answers. `ContestPage!Fairness`:
time passes, the server handles and the browser receives every request that is not lost, and the
30-second interval fires while the page is open; nobody need click, and the countdown's own reload
is not needed. `Seeding` states no fairness: what it promises is safety.

**Where one worker is assumed.** `OpenScoreExact` is about the deployment with one worker, which
`docker/README.md` describes. With several, two workers can count at the same moment, each without
the other's verdict. The run has one worker, and the theorem `OpenScoreWithOneWorker` has it as its hypothesis
(`OneWorker`). `NoPhantomCredit` is checked, proved and claimed for any number.

## 4. What is proved

The proofs are checked by TLAPS and hold for every number of users, problems, submissions,
requests, workers and faults. For `Contest` they assume `QuestionsAssumption` (finitely many
problems), `InputsAssumption` (the constants have the types of the code), `ClockAssumption` and
`NullAssumption` (`Null` is no value of a column). The other modules assume as much: numbers
are numbers (`BoundsAssumption`, `LimitsAssumption`, `PageAssumption`), verdicts are not the words for
a submission on its way (`VerdictsAssumption`), and `Null` is no value of a field
(`NullAssumption`). TLC evaluates them in every run of the module.

**Contest**


* `TypeCorrect`: `Spec => []TypeOK`. `TypeOK` is not inductive: `CommitClose` writes from
  `seen[h]`, so one has to know that it is a row there, that it is closed, and that the row it overwrites exists.
  `ShapeInv` = `TypeOK` + `HandlersFit` + `WorkersFit` states what each await relies on, and *is*
  inductive. The step is one lemma per action, over lemmas on single-field updates of rows.
* `OneHolder`: `Spec => []SingleCustody`, and `PersistedBeforeQueued`: `Spec => []HeldAsExpected`.
  The two are inductive together, given `ShapeInv`: that a pushed id is not already in the list needs
  that its row is pending, and that it is pending needs that no worker holds it.
* `Implementation`: `Spec => ImplementsLifecycle`, from the same invariant: `InsertSubmission` is
  `Submit`, `StartJudging` is `TakeUp`, `CommitVerdict` is `Decide`, every other step stutters.
* `OneAttempt`, `NobodyElsesAttempt`, `TruthfulAnswers` (the properties `AttemptIsOnce`,
  `OthersKeepTheirAttempt`, `AnswersTellTheTruth`): from `ShapeInv`, whose
  `HandlersFit` ties every copy a request holds to the row of its own student.
* `LateSubmissionsArePractice`: `Spec => []LateIsPractice`. Its inductive form adds
  `LateStaysClosed`, what a request that came too late knows at each of its awaits: the copy it holds
  is closed or will be closed before the link is resolved.
* `CreditIsEarned`: `Spec => []NoPhantomCredit`. A score is written several awaits after it was
  counted, so the invariant is about counts in flight (`CreditInFlight`): none, whether a request or
  a worker holds it, exceeds what is solved now. It survives every step because acceptances are
  never taken back, and that is custody: only pending and running rows change their status.
* `FinishedForGood`: `Spec => FinishIsFinal`, from `ShapeInv`: a request that writes `submitted_at`
  holds a copy it read open, so with none left nothing writes it again.
* `Inductive`: `Spec => []IndInv`, all layers together.
* `OpenScoreWithOneWorker`: `OneWorker => (Spec => []OpenScoreExact)`. On top of `IndInv`
  it is about what the one worker holds between its await points: what it loaded is still what is
  stored, and what it counted still what is earned, as only it judges and a close only comes before
  an attempt is closed.

**StatusFeed**: `TypeCorrect`, `VerdictsTold` (`VerdictsAreStored`), `OldNewsComesFirst`
(`SocketInOrder`), `SilenceIsCovered` (`SilentSocketIsCovered`). `VerdictsAreStored` only speaks of
what is shown; the invariant speaks of every copy of a status under way (channel, greeting, frames,
answers to polls): a copy of a verdict is the stored one, and `pending` is never published, so that
it can only be the first frame of a socket. `SocketInOrder` follows from that and `HeardInv`: on the
socket the page follows, it has read nothing but what can come before `running` and the verdict, as
it no longer follows a socket that brought a verdict. `SilentSocketIsCovered` needs which of a socket's events
are still to come, and holds with polls and timers of earlier executions around.

**JudgeSandbox**: `TypeCorrect`, `VerdictsEarned` (`VerdictsAreEarned`), `LeftoversExplained`
(`LeftoversHaveAReason`), for any number of cases and any limits. `JobInv` relates, for each job, what
its processes have come to (`outcomes`, `at`) to where the runner is and what it wrote, and what the
worker is about to say to what it read; an answer that no process accounts for has its reason in
`excuse`, a failure of the agent included. A step is about one job, and `Frame` says that the
others keep theirs. `CatalogueFits` is under the assumption
`Room` (10 + 5 x 5 + 10 <= 45 in the deployment): `[]CatalogueFitsHost`. Its invariant bounds
the host's clock by what the processes so far may have taken (`Bound`) and what was counted as delay.

**ContestPage**: `TypeCorrect`, `CountdownIsFair` (`NeverShort`), `ZeroIsTheEnd`
(`ZeroFindsItClosed`), `EffectsAreSeen` (`ActionsShowTheirEffect`). The invariant says of each
request (`CallOK`) what was true when it was sent and still is, as an attempt once started stays and
once closed stays closed, and of the page that its offset is never ahead of the server. `CountOK` says what a
running interval shows: enough for its own deadline, which is the attempt's, whatever answer is
rendered meanwhile.

**Seeding** assumes what `validate_catalog` asks of the catalogue (`CatalogueAssumption`: titles and
the cases of a question differ, every question has cases, none is retired as well), that a database
the seed finds satisfies the schema's foreign keys and has the other administrator
(`StartsAssumption`), that its questions have cases (`CasesAssumption`), and
`BoundsAssumption`. None of the properties is inductive, and no two of them are without the rest: that
a question keeps its cases depends on what every open session is about to write, and that in turn on
what the sessions that committed before it have left. `IndInv` has these layers.

* `SessionsInv`, what holds of each session. `PlaceFits`: what it has found by the await it is at,
  committed or inserted by itself. `WritesFit`: what it may have pending; it deletes only retired
  questions and cases of questions it has dealt with, and only a case may have been deleted under
  its UPDATE. `KnownFits`: the submissions it has seen are under nothing it deletes. `CasesFit`:
  of each question it has dealt with, every case of the catalogue is there with the catalogue's
  output or will be when it commits, and a case is deleted only for one that comes before it; or else
  the session is `Doomed`: it has an UPDATE of a row that is gone and cannot commit. Two sessions are
  `Apart`: neither writes a row the other inserts or has locked.
* `DatabaseInv` and `OthersInv`: no row has an id that was not given out, questions with submissions
  have cases, and what student, administrator and worker have read is still so.

`CommitStep` is the heart: what one session commits leaves every other one fitting (`Evolves`), which
is where locks and `Doomed` come in. Every other step of a session extends its writes and leaves the
rows alone (`Extends`, `OwnStep`); additions, submissions and verdicts change one row that no session
writes (`QuietStep`). From `SeedingInvariantHolds` (`Spec => []IndInv`) follow `TypesHold`,
`CatalogueStaysComplete`, `QuestionsHaveCases`, `VerdictsHaveCases` and, as an action property,
`SeenSurvive` (`SeenSubmissionsSurvive`): only a commit deletes.

`NoDeadlock`: `Spec => []WaitingEnds`. Every seed treats the administrator, the contest, the retired
questions and then one question after the other, each with its cases; `Level` numbers these, and
`LocksInOrder` says that all a session has locked is below all it has still to lock
(`OrderIsKept`). Of several sessions that wait, the one whose wait is for the highest level would have
to wait for a lock of a session that waits at a higher one.

`NothingDoubled`: if no database a seed may find has doubled titles or cases, `Spec =>
[]NothingIsDoubled`. `TwinsInv` gives each session a role. As long as nothing is spoiled by an
administrator or an overlap in an old database, a session either is a `Newcomer`, which has written
nothing and will insert the administrator before anything else, or is `First`: it is the only one that
is not, and its writes make no twins (`After`); and once a seed has committed to a new database, the
others are newcomers or `Harmless`, as they have found all they looked for and insert nothing. A newcomer whose
administrator is taken waits for the first one and then fails, as the username is unique.

`ReseedWritesNothing`: `Spec => []ReseedIsANoop`. `RepeatInv` follows a session that has no other
beside it from its begin to its commit: `Solo` says that each row it has come to is as the catalogue
says, in the database or by its writes, that each retired question is on its list, deleted or has
submissions, and that the cases of the questions it has dealt with are the catalogue's. So its commit
leaves the database `AsSeeded` (`CommitSeeds`), which students and the judge do not change
(`SeededStays`), and in which no step of the next seed finds anything to write (`CalmStays`).
The hypothesis on twins is needed: of two contests with one title the next seed may find the other.

Every safety property the passing runs check is proved. Only checked by TLC is liveness
(`JudgedUnlessFault`, `QueueDrains`, `PollingEnds`, `OpenFeedDelivers`, `JudgingEnds`,
`ContainersEnd`, `ClosedIsShown`): fairness needs ENABLED, which TLAPS does not handle. The modules
`MCContest` and `MCSeeding` extend the invariants the proofs rest on (`IndInv`, and for `Seeding` also
`LocksInOrder`, `TwinsInv` and `RepeatInv`), so that TLC can be given them too, as it was before
they were proved.

## 5. Findings

Four statements of tests, pages or comments that some behaviour contradicts; each is a run whose
counterexample TLC finds, and all but the second with no failure at all.

1. `SettledScoreExact`: a finish (or the closing of an attempt that ran out) commits a
   count that is an await old; acceptances stored meanwhile are overwritten, for good (`main.py` 521).
2. `EveryoneIsJudged`: an id popped by a worker that dies, or committed and never pushed, is
   not requeued by anyone (`worker.py` 19).
3. `ExecutionEnds`: a verdict published between the endpoint's read and its registration is dropped,
   while the greeting with the old status stops the page's fallback (`websocket.py` 32).
4. `ShowsOwnStatus`: an answer to a poll of an earlier execution ends the current one and is shown as
   its result (`QuestionDetail.tsx` 167).

Four weaker ones are built into properties that hold:

* Two finishes that overlap both stamp the attempt and the later commit moves `submitted_at`
  (`main.py` 519), though `tests/test_contest_flow.py` 209-216 calls finishing idempotent:
  `FinishIsFinal` says from when on it is.
* A submission whose link was decided before a finish was committed is inserted after it, linked
  (`main.py` 361), and counts for the finished attempt, of which `TestDetail.tsx` 200 says "Practice is now
  unlimited and does not change your score.": `LateIsPractice` is about requests that arrive after
  the close.
* The render that first shows an active attempt shows "Time remaining" 00:00:00 (`TestDetail.tsx` 155),
  until the effect behind it has computed the number (`contestTime.ts` 19-37): `NeverShort` is about a countdown
  that has been started.
* Two seeds that overlap can double contests (`seed.py` 61), or take a submission along with a retired
  question that was unused when they looked (`seed.py` 90): `NothingIsDoubled` and
  `SeenSubmissionsSurvive` say exactly when.

## 6. Not modelled, and the plan

Not modelled, because there is nothing for a model of steps to find:

* Accounts: each request decides on its own, from one row and a signed cookie. Its two races are
  single statements on one row: two signups of a name (the UNIQUE column refuses the second, which is
  answered 500), and a signin that upgrades a password hash while a seed replaces the password.
* Migrations: run once, with the service stopped. What one that fails leaves behind depends on
  whether the database's DDL is transactional.
* Display pages and layout (no state outlives a request), the wording of messages, the texts and
  cases `seed_catalog.py` generates, and the validation of input in `schema.py`, which refuses before
  anything is read.

What would come next, in this order:

1. Compositions: `JudgeSandbox` as an implementation of the step `Judge` of `Contest`, and the attempt
   of `ContestPage` as what `Contest` stores.
2. Larger instances: three requests around the deadline, three seeds.
