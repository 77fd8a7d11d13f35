---------------------------- MODULE JudgeSandbox ----------------------------
(***************************************************************************)
(* How a verdict is made: mini_machine of the worker, the docker executor  *)
(* with its host-side timeout, the runner inside the container with its    *)
(* limits per process, and the local executor that does without Docker.    *)
(* In Contest all of this is the one step Judge(w, v).                     *)
(*                                                                         *)
(* Time is counted in ticks of five seconds, the unit of all the limits.   *)
(* Ticks in which no process of the submission runs are the daemon's or    *)
(* the machine's; "delay" counts them.  What a submitted program does is   *)
(* chosen as it runs: each process it is run as shows one outcome.         *)
(*                                                                         *)
(* The Docker daemon is external: it creates a container some time after   *)
(* it was asked to, and --rm removes one that has ended.                   *)
(***************************************************************************)
EXTENDS Naturals, FiniteSets

CONSTANTS
    Jobs,           \* submissions to judge
    CaseCounts,     \* how many test cases they may have
    Executors,      \* values of JUDGE_EXECUTOR
    CompileLimit,   \* compile_timeout_seconds, 10 s
    RunLimit,       \* run_timeout_seconds, 5 s
    HostLimit,      \* JUDGE_DOCKER_TIMEOUT_SECONDS, 45 s
    DelayCap,       \* delays are counted up to this
    Null

CompileOutcomes == {"compiles", "rejected", "flood", "compiler_hangs"}
RunOutcomes     == {"right", "wrong", "garbled", "crash", "hang"}
JobVerdicts == {"accepted", "wrong_answer", "tle", "compile_error", "runtime_error"}

ASSUME LimitsAssumption ==
    /\ CaseCounts \subseteq Nat /\ DelayCap \in Nat
    /\ CompileLimit \in Nat /\ RunLimit \in Nat /\ HostLimit \in Nat \ {0}
    /\ Executors \subseteq {"docker", "local"}
ASSUME NullAssumption == Null \notin Jobs \cup Nat \cup JobVerdicts

VARIABLES
    \* the worker
    pc,        \* where mini_machine is
    cur,       \* the job it judges, or Null
    clock,     \* ticks since communicate() began
    verdict,   \* what it returned for a job, or Null
    \* each job
    cases,     \* its number of test cases, or Null before it is taken
    at,        \* how many of them have been passed
    \* each container
    box,       \* "none", "asked" of the daemon, "created", "running" or "gone"
    fed,       \* the payload reached its stdin
    run,       \* where the runner is
    doing,     \* outcome of the process it is running
    left,      \* ticks until that process ends or is killed
    wrote,     \* the status it wrote to stdout, or Null
    \* history, for the properties
    outcomes,  \* the outcomes the program has shown
    delay,     \* ticks in which none of its processes ran
    excuse     \* what went wrong around a job

workerVars == <<pc, cur, clock, verdict>>
boxVars    == <<box, fed, run, doing, left, wrote>>
vars == <<workerVars, cases, at, boxVars, outcomes, delay, excuse>>

Init ==
    /\ pc = "idle" /\ cur = Null /\ clock = 0
    /\ verdict = [j \in Jobs |-> Null]
    /\ cases = [j \in Jobs |-> Null]
    /\ at = [j \in Jobs |-> 0]
    /\ box = [j \in Jobs |-> "none"]
    /\ fed = [j \in Jobs |-> FALSE]
    /\ run = [j \in Jobs |-> "read"]
    /\ doing = [j \in Jobs |-> Null]
    /\ left = [j \in Jobs |-> 0]
    /\ wrote = [j \in Jobs |-> Null]
    /\ outcomes = [j \in Jobs |-> {}]
    /\ delay = [j \in Jobs |-> 0]
    /\ excuse = [j \in Jobs |-> {}]

Excuse(j, e) == excuse' = [excuse EXCEPT ![j] = @ \cup {e}]
Show(j, o)   == outcomes' = [outcomes EXCEPT ![j] = @ \cup {o}]

-----------------------------------------------------------------------------
(* The worker *)

\* mini_machine ends: with a verdict, or, if v is Null, with the worker.
Return(v) ==
    /\ pc' = "idle" /\ cur' = Null /\ clock' = 0
    /\ verdict' = [verdict EXCEPT ![cur] = v]

\* The docker CLI of a job is alive exactly while the worker talks to it.
Attached(j) == pc = "talk" /\ cur = j

\* validate() and the size of the payload, before anything is started.
Refuse(j, n) ==
    /\ pc = "idle" /\ cases[j] = Null
    /\ cases' = [cases EXCEPT ![j] = n]
    /\ verdict' = [verdict EXCEPT ![j] = "runtime_error"]
    /\ Excuse(j, "refused")
    /\ UNCHANGED <<pc, cur, clock, at, boxVars, outcomes, delay>>

\* docker run is started and the payload offered to it.
StartDocker(j, n) ==
    /\ pc = "idle" /\ cases[j] = Null
    /\ pc' = "talk" /\ cur' = j /\ clock' = 0
    /\ cases' = [cases EXCEPT ![j] = n]
    /\ box' = [box EXCEPT ![j] = "asked"]
    /\ UNCHANGED <<verdict, at, fed, run, doing, left, wrote, outcomes, delay, excuse>>

\* communicate() has read both pipes to their end.
Answered ==
    /\ pc = "talk" /\ box[cur] = "gone"
    /\ pc' = "remove_answered"
    /\ UNCHANGED <<cur, clock, verdict, cases, at, boxVars, outcomes, delay, excuse>>

\* Mutant: communicate() without wait_for.
NeverTimesOut == pc = "talk" /\ FALSE /\ UNCHANGED vars

\* Mutant: the docker CLI is killed, and that is all.
TimesOutOnly ==
    /\ pc = "talk" /\ clock >= HostLimit
    /\ pc' = "failed"
    /\ Excuse(cur, "overrun")
    /\ UNCHANGED <<cur, clock, verdict, cases, at, boxVars, outcomes, delay>>

\* The host-side timeout: the CLI is killed, the container is not.
TimesOut ==
    /\ pc = "talk" /\ clock >= HostLimit
    /\ pc' = "remove_timeout"
    /\ Excuse(cur, "overrun")
    /\ UNCHANGED <<cur, clock, verdict, cases, at, boxVars, outcomes, delay>>

\* SIGINT cancels the task.
Interrupted ==
    /\ pc = "talk"
    /\ pc' = "remove_cancelled"
    /\ Excuse(cur, "stopped")
    /\ UNCHANGED <<cur, clock, verdict, cases, at, boxVars, outcomes, delay>>

\* The worker is killed, or interrupted in docker rm or in the local executor.
Killed ==
    /\ pc # "idle"
    /\ Return(Null)
    /\ Excuse(cur, "stopped")
    /\ UNCHANGED <<cases, at, boxVars, outcomes, delay>>

Conclude == pc' = CASE pc = "remove_answered"  -> "conclude"
                    [] pc = "remove_timeout"   -> "failed"
                    [] OTHER                   -> "raise"

\* docker rm --force: a container that exists is gone, whatever it was doing;
\* one the daemon has not created yet is not found.
Remove ==
    /\ pc \in {"remove_answered", "remove_timeout", "remove_cancelled"}
    /\ Conclude
    /\ box' = [box EXCEPT ![cur] = IF @ \in {"created", "running"} THEN "gone" ELSE @]
    /\ IF box[cur] = "asked" THEN Excuse(cur, "not_found") ELSE UNCHANGED excuse
    /\ UNCHANGED <<cur, clock, verdict, cases, at, fed, run, doing, left, wrote, outcomes, delay>>

\* The daemon does not answer within five seconds: docker rm is killed, and
\* its own failure, like any other, goes unseen.
RemoveTimesOut ==
    /\ pc \in {"remove_answered", "remove_timeout", "remove_cancelled"}
    /\ Conclude
    /\ Excuse(cur, "not_removed")
    /\ UNCHANGED <<cur, clock, verdict, cases, at, boxVars, outcomes, delay>>

\* Return code, size and JSON of the answer; without a valid one
\* DockerExecutionError becomes a runtime_error in mini_machine.
ReadAnswer ==
    /\ pc = "conclude"
    /\ Return(IF wrote[cur] = Null THEN "runtime_error" ELSE wrote[cur])
    /\ UNCHANGED <<cases, at, boxVars, outcomes, delay, excuse>>

Fail ==
    /\ pc = "failed"
    /\ Return("runtime_error")
    /\ UNCHANGED <<cases, at, boxVars, outcomes, delay, excuse>>

Raise ==
    /\ pc = "raise"
    /\ Return(Null)
    /\ UNCHANGED <<cases, at, boxVars, outcomes, delay, excuse>>

-----------------------------------------------------------------------------
(* The daemon *)

\* The container is created and started; its stdin is the CLI's, if that still
\* lives.  A CLI that was killed in between has not asked for the start.
Create(j) ==
    /\ box[j] = "asked"
    /\ \E b \in IF Attached(j) THEN {"running"} ELSE {"running", "created"} :
          box' = [box EXCEPT ![j] = b]
    /\ fed' = [fed EXCEPT ![j] = Attached(j)]
    /\ UNCHANGED <<workerVars, cases, at, run, doing, left, wrote, outcomes, delay, excuse>>

\* No image, no memory, the OOM killer: it ends without an answer.
Break(j) ==
    /\ box[j] \in {"asked", "running"}
    /\ box' = [box EXCEPT ![j] = "gone"]
    /\ wrote' = [wrote EXCEPT ![j] = Null]
    /\ Excuse(j, "broken")
    /\ UNCHANGED <<workerVars, cases, at, fed, run, doing, left, outcomes, delay>>

-----------------------------------------------------------------------------
(* The runner *)

Runs(j, where) == box[j] = "running" /\ run[j] = where /\ left[j] = 0

Goto(j, where) == run' = [run EXCEPT ![j] = where]

Write(j, st) == wrote' = [wrote EXCEPT ![j] = st] /\ Goto(j, "exit")

\* Mutant: the runner waits for a request.
ReadRequestWaiting(j) ==
    /\ Runs(j, "read") /\ fed[j]
    /\ Goto(j, "compile")
    /\ UNCHANGED <<workerVars, cases, at, box, fed, doing, left, wrote, outcomes, delay, excuse>>

\* An empty request is a JSON error, and answered as one.
ReadRequest(j) ==
    /\ Runs(j, "read")
    /\ IF fed[j] THEN Goto(j, "compile") /\ UNCHANGED wrote
                 ELSE Write(j, "runtime_error")
    /\ UNCHANGED <<workerVars, cases, at, box, fed, doing, left, outcomes, delay, excuse>>

\* Mutant: a process that is still running at its limit is waited for.
SpawnUnlimited(j, o, t, hangs, limit) ==
    /\ doing' = [doing EXCEPT ![j] = o]
    /\ left' = [left EXCEPT ![j] = IF o = hangs THEN HostLimit + 1 ELSE t]
    /\ Show(j, o)

\* _run_process: it ends by itself within its limit, or is killed there.
Spawn(j, o, t, hangs, limit) ==
    /\ doing' = [doing EXCEPT ![j] = o]
    /\ left' = [left EXCEPT ![j] = IF o = hangs THEN limit ELSE t]
    /\ Show(j, o)

Compile(j, o, t) ==
    /\ Runs(j, "compile")
    /\ Goto(j, "compiling")
    /\ Spawn(j, o, t, "compiler_hangs", CompileLimit)
    /\ UNCHANGED <<workerVars, cases, at, box, fed, wrote, delay, excuse>>

\* A message is cut by characters, not bytes: encoded, it may still be too
\* long for a response, which then becomes a runtime_error.
Compiled(j) ==
    /\ Runs(j, "compiling")
    /\ CASE doing[j] = "compiles" -> Goto(j, "case") /\ UNCHANGED wrote
         [] doing[j] = "flood"    -> Write(j, "runtime_error")
         [] OTHER                 -> Write(j, "compile_error")
    /\ UNCHANGED <<workerVars, cases, at, box, fed, doing, left, outcomes, delay, excuse>>

\* An interpreted language is not compiled.
Interpret(j) ==
    /\ Runs(j, "compile")
    /\ Goto(j, "case")
    /\ UNCHANGED <<workerVars, cases, at, box, fed, doing, left, wrote, outcomes, delay, excuse>>

\* Mutant: one case too many.
RunOneMoreCase(j, o, t) ==
    /\ Runs(j, "case") /\ at[j] <= cases[j]
    /\ Goto(j, "running")
    /\ Spawn(j, o, t, "hang", RunLimit)
    /\ UNCHANGED <<workerVars, cases, at, box, fed, wrote, delay, excuse>>

RunCase(j, o, t) ==
    /\ Runs(j, "case") /\ at[j] < cases[j]
    /\ Goto(j, "running")
    /\ Spawn(j, o, t, "hang", RunLimit)
    /\ UNCHANGED <<workerVars, cases, at, box, fed, wrote, delay, excuse>>

\* Mutant: the output is compared without a look at the return code.
CaseVerdictByOutput(o) ==
    CASE o = "hang" -> "tle"
      [] o \in {"right", "crash"} -> "accepted"
      [] OTHER -> "wrong_answer"

\* Time, return code and output are looked at in this order.  Output that is
\* no text is decoded with replacements, and wrong.
CaseVerdict(o) ==
    CASE o = "hang"  -> "tle"
      [] o = "crash" -> "runtime_error"
      [] o = "right" -> "accepted"
      [] OTHER       -> "wrong_answer"

EndCase(j) ==
    /\ Runs(j, "running")
    /\ LET v == CaseVerdict(doing[j]) IN
       IF v = "accepted" THEN at' = [at EXCEPT ![j] = @ + 1] /\ Goto(j, "case") /\ UNCHANGED wrote
                         ELSE at' = at /\ Write(j, v)
    /\ UNCHANGED <<workerVars, cases, box, fed, doing, left, outcomes, delay, excuse>>

Accept(j) ==
    /\ Runs(j, "case") /\ at[j] = cases[j]
    /\ Write(j, "accepted")
    /\ UNCHANGED <<workerVars, cases, at, box, fed, doing, left, outcomes, delay, excuse>>

\* Whatever the agent itself raises on its way -- a process that cannot be started, a
\* directory that cannot be made or removed -- is answered as a runtime_error.
AgentFails(j) ==
    /\ \E where \in {"compile", "compiling", "case", "running"} : Runs(j, where)
    /\ Write(j, "runtime_error")
    /\ Excuse(j, "agent")
    /\ UNCHANGED <<workerVars, cases, at, box, fed, doing, left, outcomes, delay>>

\* The runner has written its answer and ends, and the container with it.
Exit(j) ==
    /\ Runs(j, "exit")
    /\ box' = [box EXCEPT ![j] = "gone"]
    /\ UNCHANGED <<workerVars, cases, at, fed, run, doing, left, wrote, outcomes, delay, excuse>>

-----------------------------------------------------------------------------
(* The local executor *)

StartLocal(j, n) ==
    /\ pc = "idle" /\ cases[j] = Null
    /\ pc' = "local_compile" /\ cur' = j
    /\ cases' = [cases EXCEPT ![j] = n]
    /\ UNCHANGED <<clock, verdict, at, boxVars, outcomes, delay, excuse>>

LocalCompile(o) ==
    /\ pc = "local_compile"
    /\ Show(cur, o)
    /\ IF o = "compiles" THEN pc' = "local_run" /\ UNCHANGED <<cur, clock, verdict>>
                         ELSE Return("compile_error")
    /\ UNCHANGED <<cases, at, boxVars, delay, excuse>>

LocalInterpret ==
    /\ pc = "local_compile"
    /\ pc' = "local_run"
    /\ UNCHANGED <<cur, clock, verdict, cases, at, boxVars, outcomes, delay, excuse>>

\* Output is decoded strictly: what is no text raises, and ends the worker.
LocalRun(o) ==
    /\ pc = "local_run" /\ at[cur] < cases[cur]
    /\ Show(cur, o)
    /\ CASE o = "right"   -> /\ at' = [at EXCEPT ![cur] = @ + 1]
                             /\ UNCHANGED <<workerVars, excuse>>
         [] o = "garbled" -> Return(Null) /\ Excuse(cur, "stopped") /\ UNCHANGED at
         [] o = "crash"   -> Return("runtime_error") /\ UNCHANGED <<at, excuse>>
         [] o = "hang"    -> Return("tle") /\ UNCHANGED <<at, excuse>>
         [] OTHER         -> Return("wrong_answer") /\ UNCHANGED <<at, excuse>>
    /\ UNCHANGED <<cases, boxVars, delay>>

LocalAccept ==
    /\ pc = "local_run" /\ at[cur] = cases[cur]
    /\ Return("accepted")
    /\ UNCHANGED <<cases, at, boxVars, outcomes, delay, excuse>>

-----------------------------------------------------------------------------

\* A tick.  The timer of the host is not late, so the clock stops at its limit.
InProcess(j) == box[j] = "running" /\ left[j] > 0
Delayed == IF pc = "talk" /\ ~InProcess(cur) THEN {cur} ELSE {}

Tick ==
    /\ \/ pc = "talk" /\ clock < HostLimit
       \/ pc # "talk" /\ \E j \in Jobs : InProcess(j)
    /\ clock' = IF pc = "talk" THEN clock + 1 ELSE clock
    /\ left' = [j \in Jobs |-> IF InProcess(j) THEN left[j] - 1 ELSE left[j]]
    /\ delay' = [j \in Jobs |->
          IF j \in Delayed /\ delay[j] < DelayCap THEN delay[j] + 1 ELSE delay[j]]
    /\ UNCHANGED <<pc, cur, verdict, cases, at, box, fed, run, doing, wrote, outcomes, excuse>>

RunnerStep(j) ==
    \/ ReadRequest(j) \/ Interpret(j) \/ Compiled(j) \/ EndCase(j) \/ Accept(j)
    \/ AgentFails(j) \/ Exit(j)
    \/ \E o \in CompileOutcomes, t \in {0, CompileLimit} : Compile(j, o, t)
    \/ \E o \in RunOutcomes, t \in {0, RunLimit} : RunCase(j, o, t)

WorkerStep ==
    \/ Answered \/ TimesOut \/ Remove \/ RemoveTimesOut \/ ReadAnswer \/ Fail \/ Raise
    \/ \E o \in CompileOutcomes : LocalCompile(o)
    \/ \E o \in RunOutcomes : LocalRun(o)
    \/ LocalInterpret \/ LocalAccept

Next ==
    \/ \E j \in Jobs, n \in CaseCounts :
          \/ "docker" \in Executors /\ (StartDocker(j, n) \/ Refuse(j, n))
          \/ "local" \in Executors /\ StartLocal(j, n)
    \/ WorkerStep \/ Interrupted \/ Killed
    \/ \E j \in Jobs : Create(j) \/ Break(j) \/ RunnerStep(j)
    \/ Tick

Spec == Init /\ [][Next]_vars

\* The worker's event loop goes on, time passes, and a container that runs is
\* scheduled.  The daemon is not fair: it need not create what it was asked for.
Fairness == WF_vars(WorkerStep) /\ WF_vars(Tick) /\ \A j \in Jobs : WF_vars(RunnerStep(j))

FairSpec == Spec /\ Fairness

-----------------------------------------------------------------------------
(* Properties *)

\* Every variable keeps to its type.
TypeOK ==
    /\ pc \in {"idle", "talk", "remove_answered", "remove_timeout", "remove_cancelled",
               "conclude", "failed", "raise", "local_compile", "local_run"}
    /\ cur \in Jobs \cup {Null} /\ (pc = "idle" <=> cur = Null)
    /\ clock \in 0..HostLimit
    /\ verdict \in [Jobs -> JobVerdicts \cup {Null}]
    /\ cases \in [Jobs -> CaseCounts \cup {Null}]
    /\ at \in [Jobs -> Nat]
    /\ \A j \in Jobs : at[j] <= IF cases[j] = Null THEN 0 ELSE cases[j]
    /\ box \in [Jobs -> {"none", "asked", "created", "running", "gone"}]
    /\ fed \in [Jobs -> BOOLEAN]
    /\ run \in [Jobs -> {"read", "compile", "compiling", "case", "running", "exit"}]
    /\ doing \in [Jobs -> CompileOutcomes \cup RunOutcomes \cup {Null}]
    /\ left \in [Jobs -> Nat]
    /\ wrote \in [Jobs -> JobVerdicts \cup {Null}]
    /\ outcomes \in [Jobs -> SUBSET (CompileOutcomes \cup RunOutcomes)]
    /\ delay \in [Jobs -> 0..DelayCap]
    /\ excuse \in [Jobs -> SUBSET {"refused", "overrun", "stopped", "not_found",
                                   "not_removed", "broken", "agent"}]

\* A verdict is the program's own: accepted means that it passed every case and
\* did nothing else, in either executor and whatever Docker did; another verdict is
\* that of the one outcome it was stopped at, unless Docker failed or ran over, or
\* the agent in the container did.
FirstFailure(v) == CASE v = "tle"           -> {"hang"}
                     [] v = "wrong_answer"  -> {"wrong", "garbled"}
                     [] v = "compile_error" -> {"rejected", "flood", "compiler_hangs"}
                     [] OTHER               -> {"crash", "flood"}
VerdictsAreEarned ==
    \A j \in Jobs : LET failures == outcomes[j] \ {"right", "compiles"} IN
        /\ verdict[j] = "accepted" => at[j] = cases[j] /\ failures = {}
        /\ verdict[j] \in JobVerdicts \ {"accepted"} =>
              \/ \E o \in FirstFailure(verdict[j]) : failures = {o}
              \/ /\ verdict[j] = "runtime_error"
                 /\ excuse[j] \cap {"refused", "broken", "overrun", "agent"} # {}

\* The host's limit leaves room for the runner's own: a submission with the five
\* cases of every catalogue question (seed_catalog.py:751) is cut off by the host only
\* if ten seconds went by in which none of its processes ran.  One with more cases
\* may be cut off, and called a runtime error, though it passes each in time.
CatalogueFitsHost ==
    \A j \in Jobs : "overrun" \in excuse[j] /\ cases[j] <= 5 => delay[j] >= 2

\* "The list should normally be empty between submissions" (docker/README.md:84): a
\* container the worker is done with has been removed, unless it did not exist yet,
\* docker rm hung, or the worker was killed.
LeftoversHaveAReason ==
    \A j \in Jobs : box[j] \in {"asked", "created", "running"} /\ cur # j =>
        excuse[j] \cap {"not_found", "not_removed", "stopped"} # {}

\* Judging ends, even if the daemon never does anything.
JudgingEnds == pc # "idle" ~> pc = "idle"

\* Every container that runs ends by itself, also one that was left behind.
ContainersEnd == \A j \in Jobs : box[j] = "running" ~> box[j] = "gone"

=============================================================================
