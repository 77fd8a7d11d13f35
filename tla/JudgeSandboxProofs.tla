------------------------- MODULE JudgeSandboxProofs -------------------------
(***************************************************************************)
(* The sandbox for every number of submissions, cases and limits, and      *)
(* whatever the Docker daemon does.  What the invariant says of a job is   *)
(* JobInv: how its container, the runner in it and the worker fit together.*)
(* The containers of earlier jobs may still be running.                    *)
(***************************************************************************)
EXTENDS JudgeSandbox, TLAPS

Alive == {"asked", "created", "running"}
Harmless == {"right", "compiles"}
Failures(j) == outcomes[j] \ Harmless
Owned(j, v) == /\ v = "accepted" => at[j] = cases[j] /\ Failures(j) = {}
               /\ v # "accepted" => \E o \in FirstFailure(v) : Failures(j) = {o}

\* A job nobody has taken, and a container that has not been started.
Untouched(j) ==
    /\ cases[j] = Null => cur # j /\ box[j] = "none" /\ verdict[j] = Null /\ outcomes[j] = {}
    /\ box[j] \in {"none", "asked", "created"} => run[j] = "read" /\ left[j] = 0 /\ wrote[j] = Null

\* The runner: what the program has shown by the time it is there.
RunnerInv(j) ==
    box[j] \in Alive =>
        /\ run[j] \in {"read", "compile"} => outcomes[j] = {}
        /\ run[j] = "compiling" => doing[j] \in CompileOutcomes /\ outcomes[j] = {doing[j]}
        /\ run[j] = "case" => Failures(j) = {}
        /\ run[j] = "running" => /\ doing[j] \in RunOutcomes /\ at[j] < cases[j]
                                 /\ outcomes[j] \ {doing[j]} \subseteq Harmless
                                 /\ doing[j] \in outcomes[j]
        /\ run[j] = "exit" => wrote[j] # Null

\* Its answer, if it was asked.
WroteInv(j) ==
    wrote[j] # Null =>
        /\ run[j] = "exit"
        /\ fed[j] => \/ Owned(j, wrote[j])
                     \/ wrote[j] = "runtime_error" /\ "agent" \in excuse[j]

\* The worker, while it is at the job.
WorkerInv(j) ==
    cur = j =>
        /\ cases[j] # Null /\ verdict[j] = Null
        /\ pc \in {"local_compile", "local_run"} <=> box[j] = "none"
        /\ pc = "local_compile" => outcomes[j] = {}
        /\ pc = "local_run" => Failures(j) = {}
        /\ pc \in {"talk", "remove_answered", "conclude"} =>
              /\ box[j] # "created"
              /\ box[j] = "running" => fed[j]
              /\ box[j] = "gone" => IF wrote[j] = Null THEN "broken" \in excuse[j] ELSE fed[j]
        /\ pc \in {"remove_answered", "conclude"} => box[j] = "gone"
        /\ pc \in {"remove_timeout", "failed"} => "overrun" \in excuse[j]
        /\ pc \in {"remove_cancelled", "raise"} => "stopped" \in excuse[j]
        /\ pc \in {"failed", "raise"} /\ box[j] \in Alive =>
              excuse[j] \cap {"not_found", "not_removed"} # {}

\* The verdict, and what the worker left.
VerdictInv(j) ==
    /\ verdict[j] # Null =>
          \/ /\ verdict[j] = "runtime_error"
             /\ excuse[j] \cap {"refused", "broken", "overrun", "agent"} # {}
          \/ Owned(j, verdict[j]) /\ box[j] \in {"none", "gone"}
    /\ box[j] \in Alive /\ cur # j => excuse[j] \cap {"not_found", "not_removed", "stopped"} # {}

JobInv(j) == Untouched(j) /\ RunnerInv(j) /\ WroteInv(j) /\ WorkerInv(j) /\ VerdictInv(j)

JobsInv == \A j \in Jobs : JobInv(j)

Inv == TypeOK /\ JobsInv

-----------------------------------------------------------------------------
(* A step is about one job; all others stay as they are *)

Same(j) ==
    /\ verdict'[j] = verdict[j] /\ cases'[j] = cases[j] /\ at'[j] = at[j]
    /\ box'[j] = box[j] /\ fed'[j] = fed[j] /\ run'[j] = run[j] /\ doing'[j] = doing[j]
    /\ left'[j] = left[j] /\ wrote'[j] = wrote[j]
    /\ outcomes'[j] = outcomes[j] /\ excuse'[j] = excuse[j]
Mine(j) == \/ cur # j /\ cur' # j
           \/ cur' = cur /\ pc' = pc

LEMMA Frame ==
    ASSUME NEW j \in Jobs, JobInv(j), Same(j), Mine(j) PROVE JobInv(j)'
<1>1. Untouched(j)'
  BY DEF JobInv, Untouched, Same, Mine
<1>2. RunnerInv(j)'
  BY DEF JobInv, RunnerInv, Failures, Same
<1>3. WroteInv(j)'
  BY DEF JobInv, WroteInv, Owned, Failures, Same
<1>4. WorkerInv(j)'
  BY DEF JobInv, WorkerInv, Failures, Same, Mine
<1>5. VerdictInv(j)'
  BY DEF JobInv, VerdictInv, Owned, Failures, Same, Mine
<1>6. QED
  BY <1>1, <1>2, <1>3, <1>4, <1>5 DEF JobInv

\* A step of the worker that leaves containers alone.
LEMMA SameBox ==
    ASSUME NEW i \in Jobs, RunnerInv(i), WroteInv(i), UNCHANGED <<cases, at, boxVars, outcomes>>,
           "agent" \in excuse[i] => "agent" \in excuse'[i]
    PROVE  RunnerInv(i)' /\ WroteInv(i)'
BY DEF RunnerInv, WroteInv, Owned, Failures, boxVars

LEMMA RefuseKeeps ==
    ASSUME Inv, NEW i \in Jobs, NEW n \in CaseCounts, Refuse(i, n) PROVE JobsInv'
<1>0. JobInv(i)
  BY DEF Inv, JobsInv
<1> USE <1>0, LimitsAssumption, NullAssumption DEF Inv, TypeOK, JobInv, boxVars, Refuse, Excuse
<1>1. Untouched(i)'
  BY DEF Untouched
<1>2. RunnerInv(i)'
  BY DEF RunnerInv, Untouched
<1>3. WroteInv(i)'
  BY DEF WroteInv, Untouched
<1>4. WorkerInv(i)'
  BY DEF WorkerInv
<1>5. VerdictInv(i)'
  BY DEF VerdictInv, Untouched, RunnerInv, WorkerInv, WroteInv, JobVerdicts, FirstFailure, Alive,
     Owned
<1>6. \A j \in Jobs \ {i} : Same(j) /\ Mine(j)
  BY DEF Same, Mine
<1>7. QED
  BY <1>1, <1>2, <1>3, <1>4, <1>5, <1>6, Frame DEF JobsInv

LEMMA StartDockerKeeps ==
    ASSUME Inv, NEW i \in Jobs, NEW n \in CaseCounts, StartDocker(i, n) PROVE JobsInv'
<1>0. JobInv(i)
  BY DEF Inv, JobsInv
<1> USE <1>0, LimitsAssumption, NullAssumption DEF Inv, TypeOK, JobInv, StartDocker
<1>1. Untouched(i)'
  BY DEF Untouched
<1>2. RunnerInv(i)'
  BY DEF RunnerInv, Untouched
<1>3. WroteInv(i)'
  BY DEF WroteInv, Untouched
<1>4. WorkerInv(i)'
  BY DEF WorkerInv, Untouched
<1>5. VerdictInv(i)'
  BY DEF VerdictInv, Untouched
<1>6. \A j \in Jobs \ {i} : Same(j) /\ Mine(j)
  BY DEF Same, Mine
<1>7. QED
  BY <1>1, <1>2, <1>3, <1>4, <1>5, <1>6, Frame DEF JobsInv

LEMMA StartLocalKeeps ==
    ASSUME Inv, NEW i \in Jobs, NEW n \in CaseCounts, StartLocal(i, n) PROVE JobsInv'
<1>0. JobInv(i)
  BY DEF Inv, JobsInv
<1> USE <1>0, LimitsAssumption, NullAssumption DEF Inv, TypeOK, JobInv, boxVars, StartLocal
<1>1. Untouched(i)'
  BY DEF Untouched
<1>2. RunnerInv(i)'
  BY DEF RunnerInv, Untouched
<1>3. WroteInv(i)'
  BY DEF WroteInv, Untouched
<1>4. WorkerInv(i)'
  BY DEF WorkerInv, Untouched
<1>5. VerdictInv(i)'
  BY DEF VerdictInv, Untouched
<1>6. \A j \in Jobs \ {i} : Same(j) /\ Mine(j)
  BY DEF Same, Mine
<1>7. QED
  BY <1>1, <1>2, <1>3, <1>4, <1>5, <1>6, Frame DEF JobsInv

LEMMA AnsweredKeeps ==
    ASSUME Inv, NEW i \in Jobs, i = cur, Answered PROVE JobsInv'
<1>0. JobInv(i)
  BY DEF Inv, JobsInv
<1> USE <1>0 DEF Inv, JobInv, boxVars, Answered
<1>1. Untouched(i)'
  BY DEF Untouched
<1>4. WorkerInv(i)'
  BY DEF WorkerInv
<1>5. VerdictInv(i)'
  BY DEF VerdictInv, WorkerInv
<1>6. \A j \in Jobs \ {i} : Same(j) /\ Mine(j)
  BY DEF Same, Mine
<1>7. QED
  BY <1>1, <1>4, <1>5, <1>6, SameBox, Frame DEF JobsInv

LEMMA TimesOutKeeps ==
    ASSUME Inv, NEW i \in Jobs, i = cur, TimesOut PROVE JobsInv'
<1>0. JobInv(i)
  BY DEF Inv, JobsInv
<1> USE <1>0 DEF Inv, TypeOK, JobInv, boxVars, TimesOut, Excuse
<1>1. Untouched(i)'
  BY DEF Untouched
<1>4. WorkerInv(i)'
  BY DEF WorkerInv
<1>5. VerdictInv(i)'
  BY DEF VerdictInv, WorkerInv
<1>6. \A j \in Jobs \ {i} : Same(j) /\ Mine(j)
  BY DEF Same, Mine
<1>7. QED
  BY <1>1, <1>4, <1>5, <1>6, SameBox, Frame DEF JobsInv

LEMMA InterruptedKeeps ==
    ASSUME Inv, NEW i \in Jobs, i = cur, Interrupted PROVE JobsInv'
<1>0. JobInv(i)
  BY DEF Inv, JobsInv
<1> USE <1>0 DEF Inv, TypeOK, JobInv, boxVars, Interrupted, Excuse
<1>1. Untouched(i)'
  BY DEF Untouched
<1>4. WorkerInv(i)'
  BY DEF WorkerInv
<1>5. VerdictInv(i)'
  BY DEF VerdictInv, WorkerInv
<1>6. \A j \in Jobs \ {i} : Same(j) /\ Mine(j)
  BY DEF Same, Mine
<1>7. QED
  BY <1>1, <1>4, <1>5, <1>6, SameBox, Frame DEF JobsInv

LEMMA KilledKeeps ==
    ASSUME Inv, NEW i \in Jobs, i = cur, Killed PROVE JobsInv'
<1>0. JobInv(i)
  BY DEF Inv, JobsInv
<1> USE <1>0, NullAssumption DEF Inv, TypeOK, JobInv, boxVars, Killed, Excuse, Return
<1>1. Untouched(i)'
  BY DEF Untouched
<1>4. WorkerInv(i)'
  BY DEF WorkerInv
<1>5. VerdictInv(i)'
  BY DEF VerdictInv, WorkerInv
<1>6. \A j \in Jobs \ {i} : Same(j) /\ Mine(j)
  BY DEF Same, Mine
<1>7. QED
  BY <1>1, <1>4, <1>5, <1>6, SameBox, Frame DEF JobsInv

LEMMA RemoveKeeps ==
    ASSUME Inv, NEW i \in Jobs, i = cur, Remove PROVE JobsInv'
<1>0. JobInv(i)
  BY DEF Inv, JobsInv
<1> USE <1>0 DEF Inv, TypeOK, JobInv, Failures, Remove, Excuse, Conclude
<1>1. Untouched(i)'
  BY DEF Untouched
<1>2. RunnerInv(i)'
  BY DEF RunnerInv, Alive
<1>3. WroteInv(i)'
  BY DEF WroteInv, Untouched, RunnerInv, JobVerdicts, Owned
<1>4. WorkerInv(i)'
  <2>1. CASE box[i] = "asked"
    <3>1. excuse'[i] = excuse[i] \cup {"not_found"} /\ box'[i] = "asked"
      BY <2>1
    <3>2. pc # "remove_answered"
      BY <2>1 DEF WorkerInv
    <3>3. QED
      BY <2>1, <3>1, <3>2 DEF WorkerInv, Untouched
  <2>2. CASE box[i] # "asked"
    BY <2>2 DEF WorkerInv, Alive
  <2>3. QED
    BY <2>1, <2>2
<1>5. VerdictInv(i)'
  BY DEF VerdictInv, WorkerInv
<1>6. \A j \in Jobs \ {i} : Same(j) /\ Mine(j)
  BY DEF Same, Mine
<1>7. QED
  BY <1>1, <1>2, <1>3, <1>4, <1>5, <1>6, Frame DEF JobsInv

LEMMA RemoveTimesOutKeeps ==
    ASSUME Inv, NEW i \in Jobs, i = cur, RemoveTimesOut PROVE JobsInv'
<1>0. JobInv(i)
  BY DEF Inv, JobsInv
<1> USE <1>0 DEF Inv, TypeOK, JobInv, Harmless, boxVars, RemoveTimesOut, Excuse, Conclude
<1>1. Untouched(i)'
  BY DEF Untouched
<1>4. WorkerInv(i)'
  BY DEF WorkerInv, RunnerInv, Alive
<1>5. VerdictInv(i)'
  BY DEF VerdictInv, WorkerInv
<1>6. \A j \in Jobs \ {i} : Same(j) /\ Mine(j)
  BY DEF Same, Mine
<1>7. QED
  BY <1>1, <1>4, <1>5, <1>6, SameBox, Frame DEF JobsInv

LEMMA ReadAnswerKeeps ==
    ASSUME Inv, NEW i \in Jobs, i = cur, ReadAnswer PROVE JobsInv'
<1>0. JobInv(i)
  BY DEF Inv, JobsInv
<1> USE <1>0, NullAssumption DEF Inv, TypeOK, JobInv, Failures, boxVars, ReadAnswer, Return
<1>1. Untouched(i)'
  BY DEF Untouched
<1>4. WorkerInv(i)'
  BY DEF WorkerInv
<1>5. VerdictInv(i)'
  <2>1. CASE wrote[i] = Null
    BY <2>1 DEF VerdictInv, WorkerInv, Alive
  <2>2. CASE wrote[i] # Null
    <3>1. /\ Owned(i, wrote[i]) \/ (wrote[i] = "runtime_error" /\ "agent" \in excuse[i])
          /\ box[i] = "gone"
      BY <2>2 DEF WroteInv, WorkerInv
    <3>2. verdict'[i] = wrote[i] /\ box'[i] = "gone" /\ excuse' = excuse /\ i # cur'
      BY <2>2, <3>1
    <3>3. CASE Owned(i, wrote[i])
      <4>1. Owned(i, wrote[i])'
        BY <3>3 DEF Owned
      <4>2. QED
        BY <3>2, <4>1 DEF VerdictInv, Alive
    <3>4. QED
      BY <3>1, <3>2, <3>3 DEF VerdictInv, Alive
  <2>3. QED
    BY <2>1, <2>2
<1>6. \A j \in Jobs \ {i} : Same(j) /\ Mine(j)
  BY DEF Same, Mine
<1>7. QED
  BY <1>1, <1>4, <1>5, <1>6, SameBox, Frame DEF JobsInv

LEMMA FailKeeps ==
    ASSUME Inv, NEW i \in Jobs, i = cur, Fail PROVE JobsInv'
<1>0. JobInv(i)
  BY DEF Inv, JobsInv
<1> USE <1>0, NullAssumption DEF Inv, JobInv, boxVars, Fail, Return
<1>1. Untouched(i)'
  BY DEF Untouched
<1>4. WorkerInv(i)'
  BY DEF WorkerInv
<1>5. VerdictInv(i)'
  BY DEF VerdictInv, WorkerInv
<1>6. \A j \in Jobs \ {i} : Same(j) /\ Mine(j)
  BY DEF Same, Mine
<1>7. QED
  BY <1>1, <1>4, <1>5, <1>6, SameBox, Frame DEF JobsInv

LEMMA RaiseKeeps ==
    ASSUME Inv, NEW i \in Jobs, i = cur, Raise PROVE JobsInv'
<1>0. JobInv(i)
  BY DEF Inv, JobsInv
<1> USE <1>0, NullAssumption DEF Inv, JobInv, boxVars, Raise, Return
<1>1. Untouched(i)'
  BY DEF Untouched
<1>4. WorkerInv(i)'
  BY DEF WorkerInv
<1>5. VerdictInv(i)'
  BY DEF VerdictInv, WorkerInv
<1>6. \A j \in Jobs \ {i} : Same(j) /\ Mine(j)
  BY DEF Same, Mine
<1>7. QED
  BY <1>1, <1>4, <1>5, <1>6, SameBox, Frame DEF JobsInv

LEMMA LocalCompileKeeps ==
    ASSUME Inv, NEW i \in Jobs, i = cur, NEW o \in CompileOutcomes, LocalCompile(o) PROVE JobsInv'
<1>0. JobInv(i)
  BY DEF Inv, JobsInv
<1> USE <1>0, NullAssumption DEF Inv, TypeOK, JobInv, Failures, Harmless, CompileOutcomes,
   boxVars, LocalCompile, Show, Return
<1>1. Untouched(i)'
  BY DEF Untouched
<1>2. RunnerInv(i)'
  BY DEF RunnerInv, WorkerInv, Alive
<1>3. WroteInv(i)'
  BY DEF WroteInv, WorkerInv, Untouched
<1>4. WorkerInv(i)'
  BY DEF WorkerInv
<1>5. VerdictInv(i)'
  <2>1. box'[i] = "none" /\ cases'[i] # Null
    BY DEF WorkerInv
  <2>2. CASE o = "compiles"
    BY <2>1, <2>2 DEF VerdictInv, WorkerInv
  <2>3. CASE o # "compiles"
    <3>1. verdict'[i] = "compile_error" /\ outcomes'[i] \ Harmless = {o}
      BY <2>3 DEF WorkerInv
    <3>2. o \in FirstFailure("compile_error")
      BY <2>3 DEF FirstFailure
    <3>3. QED
      BY <2>1, <3>1, <3>2 DEF VerdictInv, Owned, Alive
  <2>4. QED
    BY <2>2, <2>3
<1>6. \A j \in Jobs \ {i} : Same(j) /\ Mine(j)
  BY DEF Same, Mine
<1>7. QED
  BY <1>1, <1>2, <1>3, <1>4, <1>5, <1>6, Frame DEF JobsInv

LEMMA LocalInterpretKeeps ==
    ASSUME Inv, NEW i \in Jobs, i = cur, LocalInterpret PROVE JobsInv'
<1>0. JobInv(i)
  BY DEF Inv, JobsInv
<1> USE <1>0 DEF Inv, JobInv, Failures, boxVars, LocalInterpret
<1>1. Untouched(i)'
  BY DEF Untouched
<1>4. WorkerInv(i)'
  BY DEF WorkerInv
<1>5. VerdictInv(i)'
  BY DEF VerdictInv, WorkerInv
<1>6. \A j \in Jobs \ {i} : Same(j) /\ Mine(j)
  BY DEF Same, Mine
<1>7. QED
  BY <1>1, <1>4, <1>5, <1>6, SameBox, Frame DEF JobsInv

LEMMA LocalRunKeeps ==
    ASSUME Inv, NEW i \in Jobs, i = cur, NEW o \in RunOutcomes, LocalRun(o) PROVE JobsInv'
<1>0. JobInv(i)
  BY DEF Inv, JobsInv
<1> USE <1>0, NullAssumption DEF Inv, TypeOK, JobInv, Failures, Harmless, RunOutcomes,
     boxVars, workerVars, LocalRun, Show, Return, Excuse
<1>1. Untouched(i)'
  BY DEF Untouched
<1>2. RunnerInv(i)'
  BY DEF RunnerInv, WorkerInv, Alive
<1>3. WroteInv(i)'
  BY DEF WroteInv, WorkerInv, Untouched
<1>4. WorkerInv(i)'
  BY DEF WorkerInv
<1>5. VerdictInv(i)'
  <2>1. box'[i] = "none" /\ cases'[i] # Null /\ outcomes[i] \ Harmless = {}
    BY DEF WorkerInv
  <2>2. CASE o = "right" \/ o = "garbled"
    BY <2>1, <2>2 DEF VerdictInv, WorkerInv, Alive
  <2>3. CASE o \in {"wrong", "crash", "hang"}
    <3>1. outcomes'[i] \ Harmless = {o}
      BY <2>1, <2>3
    <3>2. verdict'[i] \in JobVerdicts \ {"accepted"} /\ o \in FirstFailure(verdict'[i])
      BY <2>3 DEF JobVerdicts, FirstFailure
    <3>3. QED
      BY <2>1, <3>1, <3>2 DEF VerdictInv, Owned, Alive
  <2>4. QED
    BY <2>2, <2>3
<1>6. \A j \in Jobs \ {i} : Same(j) /\ Mine(j)
  BY DEF Same, Mine
<1>7. QED
  BY <1>1, <1>2, <1>3, <1>4, <1>5, <1>6, Frame DEF JobsInv

LEMMA LocalAcceptKeeps ==
    ASSUME Inv, NEW i \in Jobs, i = cur, LocalAccept PROVE JobsInv'
<1>0. JobInv(i)
  BY DEF Inv, JobsInv
<1> USE <1>0, NullAssumption DEF Inv, JobInv, Failures, boxVars, LocalAccept, Return
<1>1. Untouched(i)'
  BY DEF Untouched
<1>4. WorkerInv(i)'
  BY DEF WorkerInv
<1>5. VerdictInv(i)'
  BY DEF VerdictInv, WorkerInv, Alive, Owned
<1>6. \A j \in Jobs \ {i} : Same(j) /\ Mine(j)
  BY DEF Same, Mine
<1>7. QED
  BY <1>1, <1>4, <1>5, <1>6, SameBox, Frame DEF JobsInv

LEMMA CreateKeeps ==
    ASSUME Inv, NEW i \in Jobs, Create(i) PROVE JobsInv'
<1>0. JobInv(i)
  BY DEF Inv, JobsInv
<1> USE <1>0 DEF Inv, TypeOK, JobInv, Failures, workerVars, Create, Attached
<1>1. Untouched(i)'
  BY DEF Untouched
<1>2. RunnerInv(i)'
  BY DEF RunnerInv, Alive
<1>3. WroteInv(i)'
  BY DEF WroteInv, Untouched
<1>4. WorkerInv(i)'
  <2>1. fed'[i] <=> Attached(i)
    BY Zenon
  <2>2. QED
    BY <2>1 DEF WorkerInv, Alive
<1>5. VerdictInv(i)'
  BY DEF VerdictInv, Alive
<1>6. \A j \in Jobs \ {i} : Same(j) /\ Mine(j)
  BY DEF Same, Mine
<1>7. QED
  BY <1>1, <1>2, <1>3, <1>4, <1>5, <1>6, Frame DEF JobsInv

LEMMA BreakKeeps ==
    ASSUME Inv, NEW i \in Jobs, Break(i) PROVE JobsInv'
<1>0. JobInv(i)
  BY DEF Inv, JobsInv
<1> USE <1>0 DEF Inv, TypeOK, JobInv, workerVars, Break, Excuse
<1>1. Untouched(i)'
  BY DEF Untouched
<1>2. RunnerInv(i)'
  BY DEF RunnerInv, Alive
<1>3. WroteInv(i)'
  BY DEF WroteInv
<1>4. WorkerInv(i)'
  BY DEF WorkerInv, Alive
<1>5. VerdictInv(i)'
  BY DEF VerdictInv, Alive
<1>6. \A j \in Jobs \ {i} : Same(j) /\ Mine(j)
  BY DEF Same, Mine
<1>7. QED
  BY <1>1, <1>2, <1>3, <1>4, <1>5, <1>6, Frame DEF JobsInv

LEMMA ReadRequestKeeps ==
    ASSUME Inv, NEW i \in Jobs, ReadRequest(i) PROVE JobsInv'
<1>0. JobInv(i)
  BY DEF Inv, JobsInv
<1> USE <1>0, NullAssumption DEF Inv, TypeOK, JobInv, workerVars, ReadRequest, Runs, Goto, Write
<1>1. Untouched(i)'
  BY DEF Untouched
<1>2. RunnerInv(i)'
  BY DEF RunnerInv, JobVerdicts
<1>3. WroteInv(i)'
  BY DEF WroteInv
<1>4. WorkerInv(i)'
  BY DEF WorkerInv
<1>5. VerdictInv(i)'
  BY DEF VerdictInv
<1>6. \A j \in Jobs \ {i} : Same(j) /\ Mine(j)
  BY DEF Same, Mine
<1>7. QED
  BY <1>1, <1>2, <1>3, <1>4, <1>5, <1>6, Frame DEF JobsInv

LEMMA InterpretKeeps ==
    ASSUME Inv, NEW i \in Jobs, Interpret(i) PROVE JobsInv'
<1>0. JobInv(i)
  BY DEF Inv, JobsInv
<1> USE <1>0 DEF Inv, JobInv, Failures, workerVars, Interpret, Runs, Goto
<1>1. Untouched(i)'
  BY DEF Untouched
<1>2. RunnerInv(i)'
  BY DEF RunnerInv
<1>3. WroteInv(i)'
  BY DEF WroteInv
<1>4. WorkerInv(i)'
  BY DEF WorkerInv
<1>5. VerdictInv(i)'
  BY DEF VerdictInv
<1>6. \A j \in Jobs \ {i} : Same(j) /\ Mine(j)
  BY DEF Same, Mine
<1>7. QED
  BY <1>1, <1>2, <1>3, <1>4, <1>5, <1>6, Frame DEF JobsInv

LEMMA CompileKeeps ==
    ASSUME Inv, NEW i \in Jobs, NEW o \in CompileOutcomes,
           NEW t \in {0, CompileLimit}, Compile(i, o, t) PROVE JobsInv'
<1>0. JobInv(i)
  BY DEF Inv, JobsInv
<1> USE <1>0 DEF Inv, TypeOK, JobInv, workerVars, Compile, Runs, Goto, Spawn, Show
<1>1. Untouched(i)'
  BY DEF Untouched
<1>2. RunnerInv(i)'
  BY DEF RunnerInv
<1>3. WroteInv(i)'
  BY DEF WroteInv
<1>4. WorkerInv(i)'
  BY DEF WorkerInv
<1>5. VerdictInv(i)'
  BY DEF VerdictInv
<1>6. \A j \in Jobs \ {i} : Same(j) /\ Mine(j)
  BY DEF Same, Mine
<1>7. QED
  BY <1>1, <1>2, <1>3, <1>4, <1>5, <1>6, Frame DEF JobsInv

LEMMA CompiledKeeps ==
    ASSUME Inv, NEW i \in Jobs, Compiled(i) PROVE JobsInv'
<1>0. JobInv(i)
  BY DEF Inv, JobsInv
<1> USE <1>0, NullAssumption DEF Inv, TypeOK, JobInv, Failures, Harmless, CompileOutcomes,
   workerVars, Compiled, Runs, Goto, Write
<1>1. Untouched(i)'
  BY DEF Untouched
<1>2. RunnerInv(i)'
  BY DEF RunnerInv, JobVerdicts
<1>3. WroteInv(i)'
  <2>1. outcomes[i] = {doing[i]} /\ doing[i] \in CompileOutcomes /\ wrote[i] = Null
    BY DEF RunnerInv, WroteInv, Alive
  <2>2. CASE doing[i] = "compiles"
    BY <2>1, <2>2 DEF WroteInv
  <2>3. CASE doing[i] # "compiles"
    <3>1. wrote'[i] \in JobVerdicts \ {"accepted"} /\ doing[i] \in FirstFailure(wrote'[i]) /\
       run'[i] = "exit"
      BY <2>1, <2>3 DEF JobVerdicts, FirstFailure
    <3>2. outcomes'[i] \ Harmless = {doing[i]}
      BY <2>1, <2>3
    <3>3. QED
      BY <3>1, <3>2 DEF WroteInv, Owned
  <2>4. QED
    BY <2>2, <2>3
<1>4. WorkerInv(i)'
  BY DEF WorkerInv
<1>5. VerdictInv(i)'
  BY DEF VerdictInv
<1>6. \A j \in Jobs \ {i} : Same(j) /\ Mine(j)
  BY DEF Same, Mine
<1>7. QED
  BY <1>1, <1>2, <1>3, <1>4, <1>5, <1>6, Frame DEF JobsInv

LEMMA RunCaseKeeps ==
    ASSUME Inv, NEW i \in Jobs, NEW o \in RunOutcomes,
           NEW t \in {0, RunLimit}, RunCase(i, o, t) PROVE JobsInv'
<1>0. JobInv(i)
  BY DEF Inv, JobsInv
<1> USE <1>0 DEF Inv, TypeOK, JobInv, Failures, workerVars, RunCase, Runs, Goto, Spawn, Show
<1>1. Untouched(i)'
  BY DEF Untouched
<1>2. RunnerInv(i)'
  BY DEF RunnerInv
<1>3. WroteInv(i)'
  BY DEF WroteInv
<1>4. WorkerInv(i)'
  BY DEF WorkerInv
<1>5. VerdictInv(i)'
  BY DEF VerdictInv
<1>6. \A j \in Jobs \ {i} : Same(j) /\ Mine(j)
  BY DEF Same, Mine
<1>7. QED
  BY <1>1, <1>2, <1>3, <1>4, <1>5, <1>6, Frame DEF JobsInv

LEMMA EndCaseKeeps ==
    ASSUME Inv, NEW i \in Jobs, EndCase(i) PROVE JobsInv'
<1>0. JobInv(i)
  BY DEF Inv, JobsInv
<1> USE <1>0, NullAssumption DEF Inv, TypeOK, JobInv, Failures, Harmless, RunOutcomes,
     workerVars, EndCase, Runs, Goto, Write, CaseVerdict
<1>1. Untouched(i)'
  BY DEF Untouched
<1>2. RunnerInv(i)'
  BY DEF RunnerInv, JobVerdicts
<1>3. WroteInv(i)'
  <2>1. /\ outcomes[i] \ {doing[i]} \subseteq Harmless /\ doing[i] \in outcomes[i]
        /\ doing[i] \in RunOutcomes /\ wrote[i] = Null
    BY DEF RunnerInv, WroteInv, Alive
  <2>2. CASE doing[i] = "right"
    BY <2>1, <2>2 DEF WroteInv
  <2>3. CASE doing[i] # "right"
    <3>1. wrote'[i] \in JobVerdicts \ {"accepted"} /\ doing[i] \in FirstFailure(wrote'[i]) /\
       run'[i] = "exit"
      BY <2>1, <2>3 DEF JobVerdicts, FirstFailure
    <3>2. outcomes'[i] \ Harmless = {doing[i]}
      BY <2>1, <2>3
    <3>3. QED
      BY <3>1, <3>2 DEF WroteInv, Owned
  <2>4. QED
    BY <2>2, <2>3
<1>4. WorkerInv(i)'
  BY DEF WorkerInv
<1>5. VerdictInv(i)'
  BY DEF VerdictInv
<1>6. \A j \in Jobs \ {i} : Same(j) /\ Mine(j)
  BY DEF Same, Mine
<1>7. QED
  BY <1>1, <1>2, <1>3, <1>4, <1>5, <1>6, Frame DEF JobsInv

LEMMA AcceptKeeps ==
    ASSUME Inv, NEW i \in Jobs, Accept(i) PROVE JobsInv'
<1>0. JobInv(i)
  BY DEF Inv, JobsInv
<1> USE <1>0, NullAssumption DEF Inv, TypeOK, JobInv, Failures, workerVars, Accept, Runs, Goto,
   Write
<1>1. Untouched(i)'
  BY DEF Untouched
<1>2. RunnerInv(i)'
  BY DEF RunnerInv, JobVerdicts
<1>3. WroteInv(i)'
  BY DEF WroteInv, RunnerInv, Alive, Owned
<1>4. WorkerInv(i)'
  BY DEF WorkerInv
<1>5. VerdictInv(i)'
  BY DEF VerdictInv
<1>6. \A j \in Jobs \ {i} : Same(j) /\ Mine(j)
  BY DEF Same, Mine
<1>7. QED
  BY <1>1, <1>2, <1>3, <1>4, <1>5, <1>6, Frame DEF JobsInv

LEMMA AgentFailsKeeps ==
    ASSUME Inv, NEW i \in Jobs, AgentFails(i) PROVE JobsInv'
<1>0. JobInv(i)
  BY DEF Inv, JobsInv
<1> USE <1>0, NullAssumption DEF Inv, TypeOK, JobInv, workerVars, AgentFails, Runs, Goto, Write,
   Excuse
<1>1. Untouched(i)'
  BY DEF Untouched
<1>2. RunnerInv(i)'
  BY DEF RunnerInv, JobVerdicts
<1>3. WroteInv(i)'
  BY DEF WroteInv
<1>4. WorkerInv(i)'
  BY DEF WorkerInv, Failures
<1>5. VerdictInv(i)'
  BY DEF VerdictInv, Owned, Failures
<1>6. \A j \in Jobs \ {i} : Same(j) /\ Mine(j)
  BY DEF Same, Mine
<1>7. QED
  BY <1>1, <1>2, <1>3, <1>4, <1>5, <1>6, Frame DEF JobsInv

LEMMA ExitKeeps ==
    ASSUME Inv, NEW i \in Jobs, Exit(i) PROVE JobsInv'
<1>0. JobInv(i)
  BY DEF Inv, JobsInv
<1> USE <1>0 DEF Inv, JobInv, workerVars, Exit, Runs
<1>1. Untouched(i)'
  BY DEF Untouched
<1>2. RunnerInv(i)'
  BY DEF RunnerInv, Alive
<1>3. WroteInv(i)'
  BY DEF WroteInv, Owned, Failures
<1>4. WorkerInv(i)'
  BY DEF WorkerInv, RunnerInv, Alive
<1>5. VerdictInv(i)'
  BY DEF VerdictInv, Alive
<1>6. \A j \in Jobs \ {i} : Same(j) /\ Mine(j)
  BY DEF Same, Mine
<1>7. QED
  BY <1>1, <1>2, <1>3, <1>4, <1>5, <1>6, Frame DEF JobsInv

LEMMA TickKeeps ==
    ASSUME Inv, Tick PROVE JobsInv'
<1> SUFFICES ASSUME NEW j \in Jobs PROVE JobInv(j)'
  BY DEF JobsInv
<1>0. JobInv(j)
  BY DEF Inv, JobsInv
<1>1. /\ UNCHANGED <<pc, cur, verdict, cases, at, box, fed, run, doing, wrote, outcomes, excuse>>
      /\ box[j] # "running" => left'[j] = left[j]
  BY DEF Tick, InProcess, Inv, TypeOK
<1>2. Untouched(j)'
  BY <1>0, <1>1 DEF JobInv, Untouched
<1>3. RunnerInv(j)' /\ WroteInv(j)'
  BY <1>0, <1>1 DEF JobInv, RunnerInv, WroteInv, Owned, Failures
<1>4. WorkerInv(j)' /\ VerdictInv(j)'
  BY <1>0, <1>1 DEF JobInv, WorkerInv, VerdictInv, Owned, Failures
<1>5. QED
  BY <1>2, <1>3, <1>4 DEF JobInv

-----------------------------------------------------------------------------

LEMMA TypeStep ==
    ASSUME Inv, [Next]_vars PROVE TypeOK'
<1>0. TypeOK
  BY DEF Inv
<1> USE <1>0, LimitsAssumption, NullAssumption
    DEF TypeOK, CompileOutcomes, RunOutcomes, JobVerdicts, workerVars, boxVars, Excuse, Return, Show
<1>1. ASSUME NEW i \in Jobs, NEW n \in CaseCounts,
             Refuse(i, n) \/ StartDocker(i, n) \/ StartLocal(i, n)
      PROVE  TypeOK'
  BY <1>1 DEF Refuse, StartDocker, StartLocal
<1>2. CASE Answered \/ TimesOut \/ Interrupted \/ Remove \/ RemoveTimesOut
  BY <1>2 DEF Answered, TimesOut, Interrupted, Remove, RemoveTimesOut, Conclude
<1>3. CASE Killed \/ ReadAnswer \/ Fail \/ Raise
  BY <1>3 DEF Killed, ReadAnswer, Fail, Raise
<1>4. ASSUME NEW o \in CompileOutcomes, LocalCompile(o) PROVE TypeOK'
  BY <1>4 DEF LocalCompile
<1>5. CASE LocalInterpret \/ LocalAccept
  BY <1>5 DEF LocalInterpret, LocalAccept
<1>6. ASSUME NEW o \in RunOutcomes, LocalRun(o) PROVE TypeOK'
  <2>1. cur \in Jobs /\ cases[cur] \in Nat /\ at[cur] < cases[cur]
    BY <1>6 DEF LocalRun, Inv, JobsInv, JobInv, WorkerInv
  <2>2. QED
    BY <1>6, <2>1 DEF LocalRun
<1>7. ASSUME NEW i \in Jobs, Create(i) \/ Break(i) \/ Exit(i) PROVE TypeOK'
  <2>1. ASSUME Create(i) PROVE fed' \in [Jobs -> BOOLEAN]
    <3>1. fed \in [Jobs -> BOOLEAN] /\ fed' = [fed EXCEPT ![i] = Attached(i)]
      BY <2>1 DEF Create
    <3>2. Attached(i) \in BOOLEAN
      BY DEF Attached
    <3>3. QED
      BY <3>1, <3>2, Zenon
  <2>2. CASE Create(i)
    BY <2>1, <2>2 DEF Create, Attached
  <2>3. CASE Break(i) \/ Exit(i)
    BY <2>3 DEF Break, Exit, Runs
  <2>4. QED
    BY <1>7, <2>2, <2>3
<1>8. ASSUME NEW i \in Jobs, ReadRequest(i) \/ Interpret(i) \/ Compiled(i) \/ Accept(i)
                                 \/ AgentFails(i)
      PROVE  TypeOK'
  BY <1>8 DEF ReadRequest, Interpret, Compiled, Accept, AgentFails, Runs, Goto, Write, Excuse
<1>9. ASSUME NEW i \in Jobs, EndCase(i) PROVE TypeOK'
  <2>1. JobInv(i) /\ box[i] = "running" /\ run[i] = "running"
    BY <1>9 DEF EndCase, Runs, Inv, JobsInv
  <2>2. cases[i] # Null /\ at[i] < cases[i]
    BY <2>1 DEF JobInv, RunnerInv, Untouched, Alive
  <2>3. cases[i] \in Nat
    BY <2>2
  <2>4. QED
    BY <1>9, <2>2, <2>3 DEF EndCase, CaseVerdict, Runs, Goto, Write
<1>10. CASE Tick
  BY <1>10 DEF Tick, InProcess, Delayed
<1>11. CASE UNCHANGED vars
  BY <1>11 DEF vars
<1>12. CASE WorkerStep \/ Interrupted \/ Killed
  BY <1>2, <1>3, <1>4, <1>5, <1>6, <1>12, Zenon DEF WorkerStep
<1>13. ASSUME NEW i \in Jobs, Create(i) \/ Break(i) \/ RunnerStep(i) PROVE TypeOK'
  <2>1. CASE Create(i) \/ Break(i) \/ Exit(i)
    BY <1>7, <2>1, Zenon
  <2>2. CASE ReadRequest(i) \/ Interpret(i) \/ Compiled(i) \/ Accept(i) \/ AgentFails(i)
    BY <1>8, <2>2, Zenon
  <2>3. CASE EndCase(i)
    BY <1>9, <2>3, Zenon
  <2>4. CASE \E o \in CompileOutcomes, t \in {0, CompileLimit} : Compile(i, o, t)
    <3>1. PICK o \in CompileOutcomes, t \in {0, CompileLimit} : Compile(i, o, t)
      BY <2>4, Zenon
    <3>2. QED
      BY <3>1 DEF Compile, Runs, Goto, Spawn
  <2>5. CASE \E o \in RunOutcomes, t \in {0, RunLimit} : RunCase(i, o, t)
    <3>1. PICK o \in RunOutcomes, t \in {0, RunLimit} : RunCase(i, o, t)
      BY <2>5, Zenon
    <3>2. QED
      BY <3>1 DEF RunCase, Runs, Goto, Spawn
  <2>6. QED
    BY <1>13, <2>1, <2>2, <2>3, <2>4, <2>5, Zenon DEF RunnerStep
<1>14. QED
  BY <1>1, <1>10, <1>11, <1>12, <1>13, Zenon DEF Next

\* The steps of the worker at a job are about that job.
LEMMA AtAJob ==
    ASSUME Inv, WorkerStep \/ Interrupted \/ Killed PROVE cur \in Jobs
BY NullAssumption DEF Inv, TypeOK, WorkerStep, Interrupted, Killed, Answered, TimesOut, Remove,
   RemoveTimesOut, ReadAnswer, Fail, Raise, LocalCompile, LocalRun, LocalInterpret, LocalAccept

LEMMA StepInv == Inv /\ [Next]_vars => Inv'
<1> SUFFICES ASSUME Inv, [Next]_vars PROVE JobsInv'
  BY TypeStep DEF Inv
<1>1. CASE WorkerStep \/ Interrupted \/ Killed
  BY <1>1, AtAJob, AnsweredKeeps, TimesOutKeeps, InterruptedKeeps, KilledKeeps, RemoveKeeps,
     RemoveTimesOutKeeps, ReadAnswerKeeps, FailKeeps, RaiseKeeps, LocalCompileKeeps,
     LocalInterpretKeeps, LocalRunKeeps, LocalAcceptKeeps DEF WorkerStep
<1>2. ASSUME NEW i \in Jobs, Create(i) \/ Break(i) \/ RunnerStep(i) PROVE JobsInv'
  BY <1>2, CreateKeeps, BreakKeeps, ReadRequestKeeps, InterpretKeeps, CompileKeeps, CompiledKeeps,
     RunCaseKeeps, EndCaseKeeps, AcceptKeeps, AgentFailsKeeps, ExitKeeps DEF RunnerStep
<1>3. ASSUME NEW i \in Jobs, NEW n \in CaseCounts,
             StartDocker(i, n) \/ Refuse(i, n) \/ StartLocal(i, n)
      PROVE  JobsInv'
  BY <1>3, StartDockerKeeps, RefuseKeeps, StartLocalKeeps
<1>4. CASE UNCHANGED vars
  BY <1>4, Frame DEF vars, workerVars, boxVars, Same, Mine, Inv, JobsInv
<1>5. QED
  BY <1>1, <1>2, <1>3, <1>4, TickKeeps DEF Next

LEMMA InitInv == Init => Inv
<1> SUFFICES ASSUME Init PROVE Inv
  OBVIOUS
<1>1. TypeOK
  BY LimitsAssumption, NullAssumption DEF Init, TypeOK
<1>2. ASSUME NEW j \in Jobs PROVE JobInv(j)
  BY NullAssumption DEF Init, JobInv, Untouched, RunnerInv, WroteInv, WorkerInv, VerdictInv,
     Failures, Alive
<1>3. QED
  BY <1>1, <1>2 DEF Inv, JobsInv

LEMMA Always == Spec => []Inv
BY InitInv, StepInv, PTL DEF Spec

\* Every variable keeps to its type.
THEOREM TypeCorrect == Spec => []TypeOK
<1>1. Inv => TypeOK
  BY DEF Inv
<1>2. QED
  BY <1>1, Always, PTL

\* Accepted means that every case was passed; any other verdict is that of the
\* outcome the program was stopped at, unless Docker or the agent in the container
\* failed, or the host's limit ran over.
THEOREM VerdictsEarned == Spec => []VerdictsAreEarned
<1>1. Inv => VerdictsAreEarned
  <2> SUFFICES ASSUME Inv, NEW j \in Jobs, verdict[j] # Null
               PROVE  /\ verdict[j] = "accepted" => at[j] = cases[j] /\ Failures(j) = {}
                      /\ verdict[j] \in JobVerdicts \ {"accepted"} =>
                            \/ \E o \in FirstFailure(verdict[j]) : Failures(j) = {o}
                            \/ /\ verdict[j] = "runtime_error"
                               /\ excuse[j] \cap {"refused", "broken", "overrun", "agent"} # {}
    BY NullAssumption DEF VerdictsAreEarned, Failures, Harmless, JobVerdicts
  <2>1. VerdictInv(j)
    BY DEF Inv, JobsInv, JobInv
  <2>2. QED
    BY <2>1 DEF VerdictInv, Owned
<1>2. QED
  BY <1>1, Always, PTL

\* What is left of a container the worker is done with has one of three reasons.
THEOREM LeftoversExplained == Spec => []LeftoversHaveAReason
<1>1. Inv => LeftoversHaveAReason
  BY DEF Inv, JobsInv, JobInv, VerdictInv, Alive, LeftoversHaveAReason
<1>2. QED
  BY <1>1, Always, PTL

-----------------------------------------------------------------------------

(***************************************************************************)
(* The limits add up: if the host waits for a compilation, five runs and   *)
(* two ticks more, then only a daemon that is two ticks late makes it cut  *)
(* off a submission of five cases.  (The deployed limits are 10 s, 5 s and *)
(* 45 s.)  Each moment of the host's clock is one in which a process of    *)
(* the submission ran, and those are bounded by how far the runner is, or  *)
(* one the delay has counted.                                              *)
(***************************************************************************)

Room == CompileLimit + 5 * RunLimit + 2 <= HostLimit /\ 2 <= DelayCap

\* How long a compilation and n runs may take.
Full(n) == CompileLimit + n * RunLimit

\* How long the processes of a job may have run by the end of the present one.
Bound(j) ==
    IF box[j] = "gone" \/ run[j] = "exit" THEN Full(cases[j])
    ELSE IF run[j] = "running" THEN Full(at[j] + 1)
    ELSE IF run[j] = "case" THEN Full(at[j])
    ELSE IF run[j] = "compiling" THEN CompileLimit
    ELSE 0

Rest(j) == IF box[j] = "running" THEN left[j] ELSE 0

Still == \A j \in Jobs :
    box[j] = "running" /\ run[j] \notin {"compiling", "running"} => left[j] = 0

InTime == pc = "talk" /\ delay[cur] < 2 => clock + Rest(cur) <= Bound(cur) + delay[cur]

CutOff(j) == "overrun" \in excuse[j] => cases[j] # Null /\ (cases[j] <= 5 => delay[j] >= 2)

TimeInv == Still /\ InTime /\ \A j \in Jobs : CutOff(j)

-----------------------------------------------------------------------------

LEMMA FullGrows ==
    ASSUME NEW m \in Nat, NEW n \in Nat
    PROVE  /\ Full(n) \in Nat /\ CompileLimit <= Full(n)
           /\ Full(n + 1) = Full(n) + RunLimit
           /\ m <= n => Full(m) <= Full(n)
<1>1. \A a, b \in Nat : a * b \in Nat
  OBVIOUS
<1>2. \A a, b, c \in Nat : a <= b => a * c <= b * c
  OBVIOUS
<1>3. \A a, b \in Nat : (a + 1) * b = a * b + b
  OBVIOUS
<1>4. QED
  BY <1>1, <1>2, <1>3, LimitsAssumption DEF Full

LEMMA FullOfFive ==
    ASSUME NEW n \in Nat, n <= 5 PROVE Full(n) <= CompileLimit + 5 * RunLimit
BY FullGrows, LimitsAssumption DEF Full

\* What is known of the job the worker talks about.
LEMMA Talking ==
    ASSUME Inv, pc = "talk"
    PROVE  /\ cur \in Jobs /\ JobInv(cur)
           /\ cases[cur] \in Nat /\ at[cur] \in Nat /\ at[cur] <= cases[cur]
           /\ left[cur] \in Nat /\ delay[cur] \in Nat /\ clock \in Nat
           /\ box[cur] \in {"asked", "running", "gone"}
           /\ box[cur] # "gone" /\ run[cur] = "running" => at[cur] < cases[cur]
<1>1. cur \in Jobs /\ JobInv(cur)
  BY NullAssumption DEF Inv, TypeOK, JobsInv
<1>2. cases[cur] # Null /\ box[cur] \in {"asked", "running", "gone"}
  BY <1>1 DEF JobInv, WorkerInv, Inv, TypeOK
<1>3. cases[cur] \in Nat /\ at[cur] \in Nat /\ at[cur] <= cases[cur]
  BY <1>1, <1>2, LimitsAssumption DEF Inv, TypeOK
<1>4. left[cur] \in Nat /\ delay[cur] \in Nat /\ clock \in Nat
  BY <1>1, LimitsAssumption DEF Inv, TypeOK
<1>5. box[cur] # "gone" /\ run[cur] = "running" => at[cur] < cases[cur]
  BY <1>1, <1>2 DEF JobInv, RunnerInv, Untouched, Alive
<1>6. QED
  BY <1>1, <1>2, <1>3, <1>4, <1>5

LEMMA BoundIs ==
    ASSUME Inv, pc = "talk"
    PROVE  Bound(cur) \in Nat /\ Bound(cur) <= Full(cases[cur])
<1>1. /\ Full(cases[cur]) \in Nat /\ CompileLimit <= Full(cases[cur]) /\ CompileLimit \in Nat
      /\ Full(at[cur]) \in Nat /\ Full(at[cur]) <= Full(cases[cur])
  BY Talking, FullGrows, LimitsAssumption
<1>2. box[cur] # "gone" /\ run[cur] = "running" =>
         Full(at[cur] + 1) \in Nat /\ Full(at[cur] + 1) <= Full(cases[cur])
  <2> SUFFICES ASSUME box[cur] # "gone", run[cur] = "running"
               PROVE  Full(at[cur] + 1) \in Nat /\ Full(at[cur] + 1) <= Full(cases[cur])
    OBVIOUS
  <2>1. at[cur] + 1 \in Nat /\ cases[cur] \in Nat /\ at[cur] + 1 <= cases[cur]
    BY Talking
  <2>2. QED
    BY <2>1, FullGrows
<1>3. QED
  BY <1>1, <1>2 DEF Bound

-----------------------------------------------------------------------------

LEMMA StillStep ==
    ASSUME Inv, Still, [Next]_vars PROVE Still'
<1> USE DEF Inv, TypeOK, boxVars, workerVars, Still
<1>1. CASE WorkerStep \/ Interrupted \/ Killed
  <2>1. UNCHANGED <<run, left>> /\ \A j \in Jobs : box'[j] = "running" => box[j] = "running"
    BY <1>1, AtAJob DEF WorkerStep, Interrupted, Killed, Answered, TimesOut, Remove,
       RemoveTimesOut, ReadAnswer, Fail, Raise, LocalCompile, LocalRun, LocalInterpret, LocalAccept
  <2>2. QED
    BY <2>1
<1>2. ASSUME NEW i \in Jobs, NEW n \in CaseCounts,
             StartDocker(i, n) \/ Refuse(i, n) \/ StartLocal(i, n)
      PROVE  Still'
  BY <1>2 DEF StartDocker, Refuse, StartLocal
<1>3. ASSUME NEW i \in Jobs, Create(i) PROVE Still'
  <2>1. JobInv(i) /\ UNCHANGED <<run, left>>
    BY <1>3 DEF Create, JobsInv
  <2>2. left[i] = 0 /\ \A j \in Jobs \ {i} : box'[j] = box[j]
    BY <1>3, <2>1 DEF Create, JobInv, Untouched
  <2>3. QED
    BY <2>1, <2>2
<1>4. ASSUME NEW i \in Jobs, Break(i) PROVE Still'
  BY <1>4 DEF Break
<1>5. ASSUME NEW i \in Jobs, RunnerStep(i) PROVE Still'
  <2>1. \A j \in Jobs \ {i} : box'[j] = box[j] /\ run'[j] = run[j] /\ left'[j] = left[j]
    BY <1>5 DEF RunnerStep, ReadRequest, Interpret, Compiled, EndCase, Accept, AgentFails, Exit,
       Compile,
       RunCase, Spawn, Goto, Write
  <2>2. left'[i] = 0 \/ run'[i] \in {"compiling", "running"}
    BY <1>5 DEF RunnerStep, ReadRequest, Interpret, Compiled, EndCase, Accept, AgentFails, Exit,
       Compile,
       RunCase, Spawn, Goto, Write, Runs
  <2>3. QED
    BY <2>1, <2>2
<1>6. CASE Tick
  BY <1>6 DEF Tick, InProcess
<1>7. CASE UNCHANGED vars
  BY <1>7 DEF vars
<1>8. QED
  BY <1>1, <1>2, <1>3, <1>4, <1>5, <1>6, <1>7, Zenon DEF Next

-----------------------------------------------------------------------------
(* The clock *)

\* A step of another job, or one that ends the talk.
LEMMA Elsewhere ==
    ASSUME InTime,
           \/ pc' # "talk"
           \/ /\ UNCHANGED <<pc, cur, clock>> /\ delay'[cur] = delay[cur]
              /\ Rest(cur)' = Rest(cur) /\ Bound(cur)' = Bound(cur)
    PROVE  InTime'
BY DEF InTime

\* A step of the runner at the job: what a process still has, the bound gives it.
LEMMA AtTheJob ==
    ASSUME Inv, InTime, pc = "talk", UNCHANGED <<pc, cur, clock, delay>>,
           Rest(cur)' \in Nat, Bound(cur)' \in Nat,
           Rest(cur)' + Bound(cur) <= Bound(cur)' + Rest(cur)
    PROVE  InTime'
<1>1. Rest(cur) \in Nat /\ clock \in Nat /\ delay[cur] \in Nat
  BY Talking DEF Rest
<1>2. QED
  BY <1>1, BoundIs DEF InTime

\* The runner has got to the next place; n is the time it may take there.
LEMMA RunnerInTime ==
    ASSUME Inv, InTime, NEW i \in Jobs, RunnerStep(i) PROVE InTime'
<1> USE DEF Inv, TypeOK, boxVars, workerVars
<1>1. UNCHANGED <<pc, cur, clock, delay, cases>>
  BY DEF RunnerStep, ReadRequest, Interpret, Compiled, EndCase, Accept, AgentFails, Exit, Compile,
     RunCase
<1>2. CASE pc # "talk"
  BY <1>1, <1>2, Elsewhere
<1>3. CASE pc = "talk" /\ cur # i
  <2>1. /\ box'[cur] = box[cur] /\ run'[cur] = run[cur] /\ left'[cur] = left[cur]
        /\ at'[cur] = at[cur] /\ cases'[cur] = cases[cur]
    BY <1>3, Talking DEF RunnerStep, ReadRequest, Interpret, Compiled, EndCase, Accept,
       AgentFails, Exit,
       Compile, RunCase, Spawn, Goto, Write
  <2>2. QED
    BY <1>1, <2>1, Elsewhere DEF Rest, Bound
<1>4. CASE pc = "talk" /\ cur = i
  <2> USE <1>1, <1>4
  <2>0. /\ box[i] = "running" /\ left[i] = 0 /\ Rest(i) = 0
        /\ cases[i] \in Nat /\ at[i] \in Nat /\ at[i] <= cases[i]
        /\ run[i] = "running" => at[i] < cases[i]
    BY Talking DEF Rest, RunnerStep, ReadRequest, Interpret, Compiled, EndCase, Accept,
       AgentFails, Exit,
       Compile, RunCase, Runs
  <2>a. /\ Full(cases[i]) \in Nat /\ CompileLimit \in Nat /\ RunLimit \in Nat
        /\ CompileLimit <= Full(cases[i])
        /\ Full(at[i]) \in Nat /\ CompileLimit <= Full(at[i]) /\ Full(at[i]) <= Full(cases[i])
        /\ Full(at[i] + 1) \in Nat /\ Full(at[i] + 1) = Full(at[i]) + RunLimit
    <3>1. at[i] + 1 \in Nat
      BY <2>0
    <3>2. Full(at[i] + 1) \in Nat
      BY <3>1, FullGrows
    <3>3. Full(at[i] + 1) = Full(at[i]) + RunLimit /\ Full(at[i]) <= Full(cases[i])
      BY <2>0, FullGrows
    <3>4. QED
      BY <2>0, <3>2, <3>3, FullGrows, LimitsAssumption
  <2>b. Bound(i) \in Nat /\ Bound(i) <= Full(cases[i])
    BY BoundIs
  <2>1. CASE \E o \in CompileOutcomes, t \in {0, CompileLimit} : Compile(i, o, t)
    <3>1. PICK o \in CompileOutcomes, t \in {0, CompileLimit} : Compile(i, o, t)
      BY <2>1, Zenon
    <3>2. /\ box'[i] = "running" /\ run'[i] = "compiling" /\ left'[i] \in {0, CompileLimit}
          /\ Bound(i) = 0
      BY <2>0, <3>1 DEF Compile, Goto, Spawn, Runs, Bound
    <3>3. Bound(i)' = CompileLimit /\ Rest(i)' \in {0, CompileLimit}
      BY <3>2 DEF Bound, Rest
    <3>4. QED
      BY <2>0, <2>a, <3>2, <3>3, AtTheJob
  <2>2. CASE \E o \in RunOutcomes, t \in {0, RunLimit} : RunCase(i, o, t)
    <3>1. PICK o \in RunOutcomes, t \in {0, RunLimit} : RunCase(i, o, t)
      BY <2>2, Zenon
    <3>2. /\ box'[i] = "running" /\ run'[i] = "running" /\ left'[i] \in {0, RunLimit}
          /\ at'[i] = at[i] /\ Bound(i) = Full(at[i])
      BY <2>0, <3>1 DEF RunCase, Goto, Spawn, Runs, Bound
    <3>3. Bound(i)' = Full(at[i] + 1) /\ Rest(i)' \in {0, RunLimit}
      BY <3>2 DEF Bound, Rest, Full
    <3>4. QED
      BY <2>0, <2>a, <3>2, <3>3, AtTheJob
  <2>3. CASE \/ ReadRequest(i) \/ Interpret(i) \/ Compiled(i) \/ EndCase(i) \/ Accept(i)
             \/ AgentFails(i) \/ Exit(i)
    <3>1. left'[i] = 0 /\ box'[i] \in {"running", "gone"}
      BY <2>0, <2>3 DEF ReadRequest, Interpret, Compiled, EndCase, Accept, AgentFails, Exit
    <3>2. Rest(i)' = 0
      BY <3>1 DEF Rest
    <3>3. Bound(i)' = Bound(i) \/ Bound(i)' = Full(cases[i])
            \/ (Bound(i) <= CompileLimit /\ Bound(i)' = Full(at[i]))
      <4>1. CASE ReadRequest(i)
        BY <2>0, <4>1 DEF ReadRequest, Runs, Goto, Write, Bound, Full
      <4>2. CASE Interpret(i) \/ Compiled(i)
        BY <2>0, <2>a, <4>2 DEF Interpret, Compiled, Runs, Goto, Write, Bound, Full
      <4>3. CASE EndCase(i)
        BY <2>0, <4>3 DEF EndCase, Runs, Goto, Write, Bound, Full
      <4>4. CASE Accept(i) \/ AgentFails(i) \/ Exit(i)
        BY <2>0, <4>4 DEF Accept, AgentFails, Exit, Runs, Goto, Write, Bound, Full
      <4>5. QED
        BY <2>3, <4>1, <4>2, <4>3, <4>4
    <3>4. QED
      BY <2>0, <2>a, <2>b, <3>2, <3>3, AtTheJob
  <2>4. QED
    BY <2>1, <2>2, <2>3, Zenon DEF RunnerStep
<1>5. QED
  BY <1>2, <1>3, <1>4

LEMMA DaemonInTime ==
    ASSUME Inv, InTime, NEW i \in Jobs, Create(i) \/ Break(i) PROVE InTime'
<1> USE DEF Inv, TypeOK, boxVars, workerVars
<1>1. UNCHANGED <<pc, cur, clock, delay, cases, at, run, left>>
  BY DEF Create, Break
<1>2. CASE pc # "talk"
  BY <1>1, <1>2, Elsewhere
<1>3. CASE pc = "talk" /\ cur # i
  <2>1. box'[cur] = box[cur]
    BY <1>3, Talking DEF Create, Break
  <2>2. QED
    BY <1>1, <2>1, Elsewhere DEF Rest, Bound
<1>4. CASE pc = "talk" /\ cur = i
  <2>1. Full(cases[i]) \in Nat
    BY <1>4, Talking, FullGrows
  <2>2. CASE Create(i)
    <3>1. /\ box[i] = "asked" /\ box'[i] = "running" /\ run[i] = "read" /\ left[i] = 0
      BY <1>4, <2>2, Talking DEF Create, Attached, JobInv, Untouched
    <3>2. Rest(i)' = 0 /\ Rest(i) = 0 /\ Bound(i) = 0 /\ Bound(i)' = 0
      BY <1>1, <3>1 DEF Rest, Bound
    <3>3. QED
      BY <1>1, <1>4, <3>2, AtTheJob
  <2>3. CASE Break(i)
    <3>1. box'[i] = "gone"
      BY <2>3 DEF Break
    <3>2. Rest(i)' = 0 /\ Bound(i)' = Full(cases[i])
      BY <1>1, <3>1 DEF Rest, Bound, Full
    <3>3. Rest(i) \in Nat
      BY <1>4, Talking DEF Rest
    <3>4. QED
      BY <1>1, <1>4, <2>1, <3>2, <3>3, BoundIs, AtTheJob
  <2>4. QED
    BY <2>2, <2>3
<1>5. QED
  BY <1>2, <1>3, <1>4

\* A tick is either one less for the process or one more for the delay.
LEMMA TickInTime ==
    ASSUME Inv, InTime, Room, Tick PROVE InTime'
<1>1. CASE pc # "talk"
  BY <1>1 DEF Tick, InTime
<1>2. CASE pc = "talk"
  <2>1. /\ pc' = pc /\ cur' = cur /\ clock' = clock + 1
        /\ UNCHANGED <<box, run, at, cases>>
    BY <1>2 DEF Tick
  <2>2. Bound(cur)' = Bound(cur)
    BY <2>1 DEF Bound, Full
  <2>3. CASE InProcess(cur)
    <3>1. left'[cur] = left[cur] - 1 /\ box[cur] = "running" /\ left[cur] > 0
      BY <2>3, Talking, <1>2 DEF Tick, InProcess
    <3>2. delay'[cur] = delay[cur]
      BY <1>2, <2>3, Talking DEF Tick, Delayed, Inv, TypeOK
    <3>3. QED
      BY <1>2, <2>1, <2>2, <3>1, <3>2, Talking, BoundIs DEF InTime, Rest
  <2>4. CASE ~InProcess(cur)
    <3>1. left'[cur] = left[cur] /\ Rest(cur) = 0 /\ Rest(cur)' = 0
      BY <1>2, <2>1, <2>4, Talking DEF Tick, InProcess, Rest
    <3>2. delay'[cur] = IF delay[cur] < DelayCap THEN delay[cur] + 1 ELSE delay[cur]
      BY <1>2, <2>4, Talking DEF Tick, Delayed, Inv, TypeOK
    <3>3. delay'[cur] < 2 => delay'[cur] = delay[cur] + 1 /\ delay[cur] < 2
      BY <1>2, <3>2, Talking, LimitsAssumption DEF Room
    <3>4. delay'[cur] < 2 => clock + 0 <= Bound(cur) + delay[cur]
      BY <1>2, <3>1, <3>3 DEF InTime
    <3>5. clock \in Nat /\ delay[cur] \in Nat /\ Bound(cur) \in Nat
      BY <1>2, Talking, BoundIs
    <3>6. delay'[cur] < 2 => clock + 1 + 0 <= Bound(cur) + delay'[cur]
      BY <3>3, <3>4, <3>5
    <3>7. QED
      BY <2>1, <2>2, <3>1, <3>6 DEF InTime
  <2>5. QED
    BY <2>3, <2>4
<1>3. QED
  BY <1>1, <1>2

LEMMA InTimeStep ==
    ASSUME Inv, InTime, Room, [Next]_vars PROVE InTime'
<1> USE DEF workerVars, boxVars
<1>1. CASE WorkerStep \/ Interrupted \/ Killed
  <2>1. pc' # "talk"
    BY <1>1 DEF WorkerStep, Interrupted, Killed, Answered, TimesOut, Remove, RemoveTimesOut,
       ReadAnswer, Fail, Raise, LocalCompile, LocalRun, LocalInterpret, LocalAccept, Return, Conclude
  <2>2. QED
    BY <2>1 DEF InTime
<1>2. ASSUME NEW i \in Jobs, NEW n \in CaseCounts, StartDocker(i, n) PROVE InTime'
  <2>1. /\ cur' = i /\ clock' = 0 /\ box'[i] = "asked" /\ run'[i] = run[i] /\ delay'[i] = delay[i]
        /\ cases[i] = Null
    BY <1>2 DEF StartDocker, Inv, TypeOK
  <2>2. run[i] = "read" /\ delay[i] \in Nat
    BY <2>1 DEF Inv, TypeOK, JobsInv, JobInv, Untouched
  <2>3. Rest(i)' = 0 /\ Bound(i)' = 0
    BY <2>1, <2>2 DEF Rest, Bound
  <2>4. QED
    BY <2>1, <2>2, <2>3 DEF InTime
<1>3. ASSUME NEW i \in Jobs, NEW n \in CaseCounts, Refuse(i, n) \/ StartLocal(i, n) PROVE InTime'
  BY <1>3 DEF Refuse, StartLocal, InTime
<1>4. CASE UNCHANGED vars
  BY <1>4, Elsewhere DEF vars, Rest, Bound
<1>5. QED
  BY <1>1, <1>2, <1>3, <1>4, RunnerInTime, DaemonInTime, TickInTime DEF Next

\* The one step that cuts a job off.
LEMMA CutOffInTime ==
    ASSUME Inv, InTime, Room, TimesOut PROVE \A j \in Jobs : CutOff(j) => CutOff(j)'
<1> SUFFICES ASSUME NEW j \in Jobs, CutOff(j) PROVE CutOff(j)'
  OBVIOUS
<1>1. cases' = cases /\ delay' = delay /\ pc = "talk" /\ HostLimit <= clock
  BY LimitsAssumption DEF TimesOut, Inv, TypeOK
<1>2. CASE j # cur
  BY <1>1, <1>2 DEF TimesOut, Excuse, CutOff, Inv, TypeOK
<1>3. CASE j = cur
  <2>1. ASSUME cases[j] <= 5, delay[j] < 2 PROVE FALSE
    <3>1. clock + Rest(cur) <= Bound(cur) + delay[cur]
      BY <1>1, <1>3, <2>1 DEF InTime
    <3>2. Bound(cur) \in Nat /\ Bound(cur) <= CompileLimit + 5 * RunLimit
      <4>1. cases[cur] \in Nat /\ cases[cur] <= 5
        BY <1>1, <1>3, <2>1, Talking
      <4>2. Full(cases[cur]) \in Nat /\ Full(cases[cur]) <= CompileLimit + 5 * RunLimit
        BY <4>1, FullOfFive, FullGrows
      <4>3. 5 * RunLimit \in Nat /\ CompileLimit \in Nat
        BY LimitsAssumption
      <4>4. Bound(cur) \in Nat /\ Bound(cur) <= Full(cases[cur])
        BY <1>1, BoundIs
      <4>5. QED
        BY <4>2, <4>3, <4>4
    <3>3. Rest(cur) \in Nat /\ delay[cur] \in Nat /\ clock \in Nat /\ 5 * RunLimit \in Nat
      BY <1>1, Talking, LimitsAssumption DEF Rest
    <3>4. QED
      BY <1>1, <1>3, <2>1, <3>1, <3>2, <3>3, LimitsAssumption DEF Room
  <2>2. cases[j] # Null /\ cases[j] \in Nat /\ delay[j] \in Nat
    BY <1>1, <1>3, Talking, NullAssumption
  <2>3. QED
    BY <1>1, <2>1, <2>2 DEF CutOff
<1>4. QED
  BY <1>2, <1>3

LEMMA CutOffStep ==
    ASSUME TimeInv, Inv, Room, [Next]_vars PROVE \A j \in Jobs : CutOff(j)'
<1>1. CASE TimesOut
  BY <1>1, CutOffInTime DEF TimeInv
<1>2. CASE ~TimesOut
  <2> SUFFICES ASSUME NEW j \in Jobs PROVE CutOff(j)'
    OBVIOUS
  <2>1. "overrun" \in excuse'[j] => "overrun" \in excuse[j]
    <3> USE DEF boxVars, workerVars, Excuse, Inv, TypeOK
    <3>1. CASE WorkerStep \/ Interrupted \/ Killed
      BY <1>2, <3>1, AtAJob DEF WorkerStep, Interrupted, Killed, Answered, Remove, RemoveTimesOut,
         ReadAnswer, Fail, Raise, LocalCompile, LocalRun, LocalInterpret, LocalAccept
    <3>2. ASSUME NEW i \in Jobs, NEW n \in CaseCounts,
                 StartDocker(i, n) \/ Refuse(i, n) \/ StartLocal(i, n)
          PROVE  "overrun" \in excuse'[j] => "overrun" \in excuse[j]
      BY <3>2 DEF StartDocker, Refuse, StartLocal
    <3>3. ASSUME NEW i \in Jobs, Create(i) \/ Break(i) \/ RunnerStep(i)
          PROVE  "overrun" \in excuse'[j] => "overrun" \in excuse[j]
      BY <3>3 DEF Create, Break, RunnerStep, ReadRequest, Interpret, Compiled, EndCase, Accept,
         AgentFails, Exit, Compile, RunCase
    <3>4. CASE Tick \/ UNCHANGED vars
      BY <3>4 DEF Tick, vars
    <3>5. QED
      BY <3>1, <3>2, <3>3, <3>4, Zenon DEF Next
  <2>2. delay[j] \in Nat /\ delay'[j] \in Nat /\ delay[j] <= delay'[j]
    <3> USE DEF boxVars, workerVars, Inv, TypeOK
    <3>1. CASE Tick
      BY <3>1 DEF Tick
    <3>2. CASE ~Tick
      <4>1. delay' = delay
        BY <3>2 DEF Next, WorkerStep, Interrupted, Killed, Answered, TimesOut, Remove,
           RemoveTimesOut, ReadAnswer, Fail, Raise, LocalCompile, LocalRun, LocalInterpret,
           LocalAccept, StartDocker, Refuse, StartLocal, Create, Break, RunnerStep, ReadRequest,
           Interpret, Compiled, EndCase, Accept, AgentFails, Exit, Compile, RunCase, vars
      <4>2. QED
        BY <4>1
    <3>3. QED
      BY <3>1, <3>2
  <2>3. cases[j] # Null => cases'[j] = cases[j]
    BY DEF Next, WorkerStep, Interrupted, Killed, Answered, TimesOut, Remove,
       RemoveTimesOut, ReadAnswer, Fail, Raise, LocalCompile, LocalRun, LocalInterpret,
       LocalAccept, StartDocker, Refuse, StartLocal, Create, Break, RunnerStep, ReadRequest,
       Interpret, Compiled, EndCase, Accept, AgentFails, Exit, Compile, RunCase, Tick, vars, Inv,
          TypeOK
  <2>4. QED
    BY <2>1, <2>2, <2>3 DEF TimeInv, CutOff
<1>3. QED
  BY <1>1, <1>2

\* A submission takes at most the runner's limit to compile and another for each
\* case (runner.py).  Whatever those limits are, if the host's leaves room for the
\* catalogue's five cases and two ticks more, then it cuts such a submission off only
\* after two ticks in which the daemon or the machine let none of its processes run.
THEOREM CatalogueFits == Room => (Spec => []CatalogueFitsHost)
<1> SUFFICES ASSUME Room PROVE Spec => []CatalogueFitsHost
  OBVIOUS
<1>1. Init => TimeInv
  BY DEF Init, TimeInv, Still, InTime, CutOff
<1>2. TimeInv /\ Inv /\ [Next]_vars => TimeInv'
  BY StillStep, InTimeStep, CutOffStep DEF TimeInv
<1>3. TimeInv => CatalogueFitsHost
  BY DEF TimeInv, CutOff, CatalogueFitsHost
<1>4. QED
  BY <1>1, <1>2, <1>3, Always, PTL DEF Spec

=============================================================================
