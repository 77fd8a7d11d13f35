------------------------ MODULE ContestAttemptProofs ------------------------
(***************************************************************************)
(* What a student can rely on about the attempt: there is one, it is not   *)
(* reopened, prolonged or touched by others, what is answered about it is  *)
(* what is stored, a submission that comes too late is practice, and the   *)
(* score shown is never higher than what the student has solved.           *)
(***************************************************************************)
EXTENDS ContestProofs

\* The steps that write an attempts row; all others leave the table alone.
LEMMA WhoWrites ==
    ASSUME [Next]_vars, attempts' # attempts
    PROVE  \/ \E h \in Handlers : InsertAttempt(h) \/ CommitClose(h)
           \/ \E w \in Workers : CommitVerdict(w)
<1> USE DEF shared
<1>1. CASE UNCHANGED vars \/ Tick
  BY <1>1 DEF vars, Tick
<1>2. ASSUME NEW h \in Handlers, NEW r \in Requests, Arrive(h, r) PROVE FALSE
  BY <1>2 DEF Arrive
<1>3. ASSUME NEW h \in Handlers, HandlerStep(h) PROVE InsertAttempt(h) \/ CommitClose(h)
  BY <1>3 DEF HandlerStep, Refuse, SyncExpired, SyncUnchanged, CountScore, Refresh,
     CreateAttempt, RejectInsert, Reload, StampFinish, Answer, Done, ResolveLink,
     CountCases, InsertSubmission, Push
<1>4. ASSUME NEW h \in Handlers, Abort(h) \/ AbortReload(h) PROVE FALSE
  BY <1>4 DEF Abort, AbortReload
<1>5. ASSUME NEW w \in Workers, WorkerStep(w) \/ Crash(w) PROVE CommitVerdict(w)
  BY <1>5 DEF WorkerStep, PopJob, StartJudging, Judge, LoadForScore, Recount, Restart, Crash
<1>6. QED
  BY <1>1, <1>2, <1>3, <1>4, <1>5 DEF Next

\* What CommitClose relies on.
LEMMA Closing ==
    ASSUME ShapeInv, NEW h \in Handlers, CommitClose(h)
    PROVE  /\ Owner(req[h]) \in Users /\ Owner(req[h]) = req[h].user
           /\ attempts[Owner(req[h])] \in AttemptRow
           /\ seen[h] \in AttemptRow /\ seen[h].submitted # Null /\ loaded[h] \in Nat
BY RequestFields, SMT DEF ShapeInv, TypeOK, HandlersFit, RequestFits, CommitClose

\* What CommitVerdict relies on when it writes a score.
LEMMA Scoring ==
    ASSUME ShapeInv, NEW w \in Workers, CommitVerdict(w), Scores(subs[job[w]], verdict[w])
    PROVE  /\ subs[job[w]].user \in Users
           /\ attempts[subs[job[w]].user] \in AttemptRow
           /\ wloaded[w] \in Nat /\ wscore[w] \in Nat
<1>1. job[w] \in SubIds /\ Exists(job[w])
  BY SMT DEF ShapeInv, WorkersFit, JobFits, Busy, CommitVerdict
<1>2. subs[job[w]] \in SubmissionRow
  BY <1>1 DEF ShapeInv, TypeOK, Exists
<1>3. subs[job[w]].user \in Users
  BY <1>2, SMT DEF SubmissionRow
<1>4. attempts[subs[job[w]].user] \in AttemptRow
  BY <1>1 DEF ShapeInv, WorkersFit, LinkFits, Scores
<1>5. QED
  BY <1>3, <1>4 DEF ShapeInv, TypeOK

LEMMA KeptStep == ShapeInv /\ [Next]_vars => AttemptsKept
<1> SUFFICES ASSUME ShapeInv, [Next]_vars PROVE AttemptsKept
  OBVIOUS
<1>1. CASE attempts' = attempts
  BY <1>1, AttemptsSame
<1>2. ASSUME NEW h \in Handlers, InsertAttempt(h) PROVE AttemptsKept
  <2>1. req[h].user \in Users /\ attempts[req[h].user] \notin AttemptRow
    BY <1>2, RequestFields, NullAssumption, SMT
       DEF ShapeInv, HandlersFit, RequestFits, InsertAttempt
  <2>2. QED
    BY <1>2, <2>1, SMT DEF ShapeInv, TypeOK, InsertAttempt, AttemptsKept
<1>3. ASSUME NEW h \in Handlers, CommitClose(h) PROVE AttemptsKept
  <2> DEFINE u == Owner(req[h])
             new == ClosedRow(attempts[u], seen[h], loaded[h])
  <2>1. u \in Users /\ attempts[u] \in AttemptRow /\ seen[h].submitted # Null
    BY <1>3, Closing
  <2>2. /\ new \in AttemptRow /\ new.submitted = seen[h].submitted
        /\ new.started = attempts[u].started /\ new.expires = attempts[u].expires
    BY <1>3, Closing, ClosedRowFields
  <2>3. attempts' = [attempts EXCEPT ![u] = new]
    BY <1>3 DEF CommitClose
  <2> HIDE DEF u, new
  <2>4. QED
    BY <2>1, <2>2, <2>3, SMT DEF ShapeInv, TypeOK, AttemptsKept
<1>4. ASSUME NEW w \in Workers, CommitVerdict(w), attempts' # attempts PROVE AttemptsKept
  <2>0. Scores(subs[job[w]], verdict[w])
    BY <1>4 DEF CommitVerdict
  <2>1. PICK u \in Users : u = subs[job[w]].user /\ attempts[u] \in AttemptRow
    BY <1>4, <2>0, Scoring
  <2>2. PICK n \in Nat : n = StoredScore(attempts[u].score, wloaded[w], wscore[w])
    BY <1>4, <2>0, <2>1, Scoring, RowFields, StoredScoreType
  <2>3. attempts' = [attempts EXCEPT ![u] = [attempts[u] EXCEPT !.score = n]]
    BY <1>4, <2>0, <2>1, <2>2, SMTT(30) DEF CommitVerdict
  <2>4. PICK row \in AttemptRow : row = [attempts[u] EXCEPT !.score = n]
    BY <2>1, SetScore
  <2>5. /\ row.submitted = attempts[u].submitted
        /\ row.started = attempts[u].started /\ row.expires = attempts[u].expires
    BY <2>1, <2>4, SetScore
  <2>6. QED
    BY <2>3, <2>4, <2>5, SMT DEF ShapeInv, TypeOK, AttemptsKept
<1>5. QED
  BY <1>1, <1>2, <1>3, <1>4, WhoWrites

LEMMA ShapeAlways == Spec => []ShapeInv
BY ShapeInit, ShapeStep, PTL DEF Spec

\* A student gets one attempt: it is not replaced, restarted, prolonged or
\* reopened, whatever requests of whatever students overlap.
THEOREM OneAttempt == Spec => AttemptIsOnce
<1> DEFINE Once == \A u \in Users : attempts[u] # Null =>
                       /\ attempts'[u] # Null
                       /\ attempts'[u].started = attempts[u].started
                       /\ attempts'[u].expires = attempts[u].expires
                       /\ (attempts[u].submitted # Null => attempts'[u].submitted # Null)
<1>1. ShapeInv /\ [Next]_vars => Once
  BY KeptStep, RowFields DEF AttemptsKept, ShapeInv, TypeOK
<1>2. QED
  BY <1>1, ShapeAlways, PTL DEF Spec, AttemptIsOnce

\* Requests and verdicts of one student never write another's attempt.
THEOREM NobodyElsesAttempt == Spec => OthersKeepTheirAttempt
<1> DEFINE Own == \A u \in Users : attempts'[u] # attempts[u] =>
          \/ \E h \in Handlers : hpc[h] \in {"insert", "commit"} /\ req[h].user = u
          \/ \E w \in Workers : wpc[w] = "commit" /\ subs[job[w]].user = u
<1>1. ShapeInv /\ [Next]_vars => Own
  <2> SUFFICES ASSUME ShapeInv, [Next]_vars, NEW u \in Users, attempts'[u] # attempts[u]
               PROVE  \/ \E h \in Handlers : hpc[h] \in {"insert", "commit"} /\ req[h].user = u
                      \/ \E w \in Workers : wpc[w] = "commit" /\ subs[job[w]].user = u
    OBVIOUS
  <2>1. ASSUME NEW h \in Handlers, InsertAttempt(h)
        PROVE  hpc[h] \in {"insert", "commit"} /\ req[h].user = u
    BY <2>1, SMT DEF InsertAttempt, ShapeInv, TypeOK
  <2>2. ASSUME NEW h \in Handlers, CommitClose(h)
        PROVE  hpc[h] \in {"insert", "commit"} /\ req[h].user = u
    <3>1. u = Owner(req[h]) /\ hpc[h] = "commit"
      BY <2>2, SMT DEF CommitClose, ShapeInv, TypeOK
    <3>2. QED
      BY <2>2, <3>1, Closing
  <2>3. ASSUME NEW w \in Workers, CommitVerdict(w)
        PROVE  wpc[w] = "commit" /\ subs[job[w]].user = u
    BY <2>3, SMT DEF CommitVerdict, ShapeInv, TypeOK
  <2>4. QED
    BY <2>1, <2>2, <2>3, WhoWrites
<1>2. QED
  BY <1>1, ShapeAlways, PTL DEF Spec, OthersKeepTheirAttempt

\* What a request answers is the stored attempt: same start, same deadline, and
\* closed only if it is.
THEOREM TruthfulAnswers == Spec => []AnswersTellTheTruth
<1>1. ShapeInv => AnswersTellTheTruth
  <2> SUFFICES ASSUME ShapeInv, NEW h \in Handlers, hpc[h] = "reply"
               PROVE  LET r == req[h]
                          a == attempts[Owner(r)] IN
                      /\ a # Null
                      /\ seen[h].started = a.started
                      /\ seen[h].expires = a.expires
                      /\ (r.op = "finish" => seen[h].submitted # Null)
                      /\ (seen[h].submitted # Null => a.submitted # Null)
    BY DEF AnswersTellTheTruth
  <2>1. RequestFits(h) /\ SeenFits(h)
    BY DEF ShapeInv, HandlersFit
  <2>2. seen[h] \in AttemptRow /\ seen[h] # Null
    BY <2>1, RowFields DEF RequestFits
  <2>3. QED
    BY <2>1, <2>2, RowFields DEF RequestFits, SeenFits
<1>2. QED
  BY <1>1, ShapeAlways, PTL

-----------------------------------------------------------------------------
(* Late submissions *)

LEMMA TimeGoesOn == TypeOK /\ [Next]_vars => now <= now'
<1> SUFFICES ASSUME TypeOK, [Next]_vars PROVE now <= now'
  OBVIOUS
<1>1. CASE Tick
  BY <1>1, SMT DEF Tick, TypeOK
<1>2. CASE ~Tick
  <2>1. ASSUME NEW h \in Handlers,
               HandlerStep(h) \/ Abort(h) \/ AbortReload(h) \/ \E r \in Requests : Arrive(h, r)
        PROVE  now' = now
    BY <2>1 DEF shared, Arrive, HandlerStep, Refuse, SyncExpired, SyncUnchanged, CountScore,
       CommitClose, Refresh, CreateAttempt, InsertAttempt, RejectInsert, Reload, StampFinish,
       Answer, Done, ResolveLink, CountCases, InsertSubmission, Push, Abort, AbortReload
  <2>2. ASSUME NEW w \in Workers, WorkerStep(w) \/ Crash(w)
        PROVE  now' = now
    BY <2>2 DEF shared, WorkerStep, Crash, PopJob, StartJudging, Judge, LoadForScore, Recount,
       CommitVerdict, Restart
  <2>3. now' = now
    BY <1>2, <2>1, <2>2 DEF Next, vars
  <2>4. QED
    BY <2>3, SMT DEF TypeOK
<1>3. QED
  BY <1>1, <1>2

\* What LateInv says of one request.
LateFits(h) == late[h] /\ hpc[h] # "idle" =>
    /\ hpc[h] \notin {"insert", "reload"}
    /\ hpc[h] = "sync" =>
          seen[h] # Null /\ (seen[h].submitted # Null \/ now >= seen[h].expires)
    /\ hpc[h] = "refresh" => attempts[Owner(req[h])].submitted # Null
    /\ hpc[h] = "resume" => seen[h] # Null /\ seen[h].submitted # Null
    /\ hpc[h] \in {"cases", "add", "push"} => ~link[h]

LEMMA LateInvFits == LateInv <=> \A h \in Handlers : LateFits(h)
BY DEF LateInv, LateIsPractice, LateStaysClosed, LateFits

\* A request that is not stepping stays as late as it was.
LEMMA WaitingLate ==
    ASSUME ShapeInv, ShapeInv', AttemptsKept, now <= now', NEW g \in Handlers, LateFits(g),
           SameRequest(g), late'[g] = late[g]
    PROVE  LateFits(g)'
<1> SUFFICES ASSUME late[g], hpc[g] # "idle" PROVE LateFits(g)'
  BY DEF SameRequest, LateFits
<1>1. req[g] \in Requests /\ Owner(req[g]) \in Users /\ RequestFits(g)
  BY RequestFields DEF ShapeInv, HandlersFit, RequestFits
<1>2. hpc[g] = "sync" => seen'[g] # Null /\ (seen'[g].submitted # Null \/ now' >= seen'[g].expires)
  <2> SUFFICES ASSUME hpc[g] = "sync"
               PROVE  seen'[g] # Null /\ (seen'[g].submitted # Null \/ now' >= seen'[g].expires)
    OBVIOUS
  <2>1. seen'[g] = seen[g] /\ seen[g] # Null /\ (seen[g].submitted # Null \/ now >= seen[g].expires)
    BY DEF LateFits, SameRequest
  <2>2. seen[g].expires \in Nat /\ now \in Nat /\ now' \in Nat
    BY <2>1, RowFields DEF ShapeInv, TypeOK
  <2>3. QED
    BY <2>1, <2>2, SMT
<1>3. hpc[g] = "refresh" => attempts'[Owner(req[g])].submitted # Null
  BY <1>1 DEF LateFits, RequestFits, AttemptsKept
<1>4. QED
  BY <1>2, <1>3 DEF LateFits, SameRequest, Owner

LEMMA RequestLate ==
    ASSUME ShapeInv, ShapeInv', AttemptsKept, NEW h \in Handlers, LateFits(h),
           HandlerStep(h) \/ Abort(h) \/ AbortReload(h)
    PROVE  LateFits(h)'
<1> USE DEF Goto, shared
<1>0. RequestFits(h) /\ SeenFits(h) /\ now \in Nat
  BY DEF ShapeInv, HandlersFit, TypeOK
<1>1. CASE Leave(h)
  BY <1>1, SMT DEF Leave, LateFits, ShapeInv, TypeOK
<1>2. CASE ~Leave(h) /\ late' = late /\ ~late[h]
  BY <1>2 DEF LateFits
<1>3. CASE ~Leave(h) /\ late' = late /\ late[h]
  <2> USE <1>3
  <2>1. CASE SyncExpired(h) \/ CountScore(h) \/ Answer(h)
    BY <2>1, SMT DEF LateFits, SyncExpired, CountScore, Answer, ShapeInv, TypeOK
  <2>2. CASE SyncUnchanged(h)
    <3>1. seen[h] \in AttemptRow /\ (seen[h].submitted # Null \/ now >= seen[h].expires)
      BY <2>2, SMT DEF LateFits, SyncUnchanged, ShapeInv, TypeOK
    <3>2. seen[h].submitted # Null /\ seen[h] # Null
      BY <2>2, <3>1, RowFields, SMT DEF SyncUnchanged, RunOut
    <3>3. QED
      BY <2>2, <3>2, SMT DEF LateFits, SyncUnchanged, ShapeInv, TypeOK
  <2>3. CASE CommitClose(h)
    <3> DEFINE u == Owner(req[h])
               new == ClosedRow(attempts[u], seen[h], loaded[h])
    <3>1. u \in Users /\ attempts[u] \in AttemptRow /\ seen[h].submitted # Null
      BY <2>3, Closing
    <3>2. new.submitted = seen[h].submitted
      <4>1. attempts[u] \in AttemptRow /\ seen[h] \in AttemptRow /\ loaded[h] \in Nat
        BY <2>3, Closing
      <4>2. QED
        BY <4>1, ClosedRowFields
    <3>3. attempts' = [attempts EXCEPT ![u] = new]
      BY <2>3 DEF CommitClose
    <3> HIDE DEF new
    <3>4. attempts'[u].submitted # Null
      BY <3>1, <3>2, <3>3, SMT DEF ShapeInv, TypeOK
    <3>5. hpc'[h] = "refresh" /\ req'[h] = req[h]
      BY <2>3, SMT DEF CommitClose, ShapeInv, TypeOK
    <3>6. QED
      BY <3>4, <3>5 DEF LateFits, Owner
  <2>4. CASE Refresh(h)
    <3>1. /\ hpc'[h] = "resume"
          /\ seen'[h] = attempts[Owner(req[h])] /\ seen'[h] \in AttemptRow
          /\ seen'[h].submitted # Null
      BY <1>0, <2>4, SMT DEF LateFits, Refresh, Fetch, RequestFits, ShapeInv, TypeOK
    <3>2. QED
      BY <3>1, RowFields DEF LateFits
  <2>5. CASE CreateAttempt(h) \/ StampFinish(h) \/ InsertAttempt(h) \/ RejectInsert(h) \/ Reload(h)
    BY <2>5 DEF LateFits, CreateAttempt, StampFinish, InsertAttempt, RejectInsert, Reload
  <2>6. CASE ResolveLink(h)
    <3>1. seen[h] # Null /\ seen[h].submitted # Null
      BY <2>6 DEF LateFits, ResolveLink
    <3>2. AttemptStatus(seen[h], now) # "active"
      BY <3>1 DEF AttemptStatus
    <3>3. hpc'[h] = "cases"
      BY <2>6, SMT DEF ResolveLink, ShapeInv, TypeOK
    <3>4. ~link'[h]
      BY <2>6, <3>2, Zenon DEF ResolveLink, ShapeInv, TypeOK
    <3>5. QED
      BY <3>3, <3>4 DEF LateFits
  <2>7. CASE CountCases(h) \/ \E s \in SubIds : InsertSubmission(h, s)
    BY <2>7, SMT DEF LateFits, CountCases, InsertSubmission, ShapeInv, TypeOK
  <2>8. QED
    BY <2>1, <2>2, <2>3, <2>4, <2>5, <2>6, <2>7
       DEF HandlerStep, Refuse, Done, Push, Abort, AbortReload
<1>4. late' = late \/ Leave(h)
  BY DEF HandlerStep, Refuse, SyncExpired, SyncUnchanged, CountScore, CommitClose, Refresh,
     CreateAttempt, InsertAttempt, RejectInsert, Reload, StampFinish, Answer, Done,
     ResolveLink, CountCases, InsertSubmission, Push, Abort, AbortReload
<1>5. QED
  BY <1>1, <1>2, <1>3, <1>4

LEMMA ArriveLate ==
    ASSUME ShapeInv, NEW h \in Handlers, NEW r \in Requests, Arrive(h, r)
    PROVE  LateFits(h)'
<1>1. /\ hpc'[h] = "sync" /\ seen'[h] = attempts[Owner(r)] /\ now' = now
      /\ late'[h] = (AttemptStatus(attempts[Owner(r)], now) \in {"completed", "expired"})
  BY SMT DEF Arrive, Goto, Fetch, shared, ShapeInv, TypeOK
<1>2. late'[h] => seen'[h] # Null /\ (seen'[h].submitted # Null \/ now' >= seen'[h].expires)
  BY <1>1 DEF AttemptStatus
<1>3. QED
  BY <1>1, <1>2 DEF LateFits

\* A step of one request leaves the others where they are.
LEMMA OthersWait ==
    ASSUME ShapeInv, NEW h \in Handlers, NEW g \in Handlers, g # h,
           \/ \E r \in Requests : Arrive(h, r)
           \/ HandlerStep(h) \/ Abort(h) \/ AbortReload(h)
    PROVE  SameRequest(g) /\ late'[g] = late[g]
BY SMT DEF SameRequest, ShapeInv, TypeOK, Arrive, HandlerStep, Refuse, SyncExpired,
   SyncUnchanged, CountScore, CommitClose, Refresh, CreateAttempt, InsertAttempt,
   RejectInsert, Reload, StampFinish, Answer, Done, ResolveLink, CountCases,
   InsertSubmission, Push, Abort, AbortReload, Leave, Goto, Fetch

LEMMA LateStep == ShapeInv /\ LateInv /\ [Next]_vars => LateInv'
<1> SUFFICES ASSUME ShapeInv, LateInv, [Next]_vars PROVE \A g \in Handlers : LateFits(g)'
  BY DEF LateInv, LateIsPractice, LateStaysClosed, LateFits
<1>1. ShapeInv' /\ AttemptsKept /\ \A g \in Handlers : LateFits(g)
  BY ShapeStep, KeptStep, LateInvFits
<1>2. CASE UNCHANGED hvars
  BY <1>1, <1>2, TimeGoesOn, WaitingLate DEF hvars, SameRequest, ShapeInv
<1>3. ASSUME NEW h \in Handlers, HandlerStep(h) \/ Abort(h) \/ AbortReload(h)
      PROVE  \A g \in Handlers : LateFits(g)'
  <2>1. ASSUME NEW g \in Handlers, g # h PROVE SameRequest(g) /\ late'[g] = late[g]
    BY <1>3, <2>1, OthersWait
  <2>2. QED
    BY <1>1, <1>3, <2>1, TimeGoesOn, RequestLate, WaitingLate DEF ShapeInv
<1>4. ASSUME NEW h \in Handlers, NEW r \in Requests, Arrive(h, r)
      PROVE  \A g \in Handlers : LateFits(g)'
  <2>1. ASSUME NEW g \in Handlers, g # h PROVE SameRequest(g) /\ late'[g] = late[g]
    BY <1>4, <2>1, OthersWait
  <2>2. QED
    BY <1>1, <1>4, <2>1, TimeGoesOn, ArriveLate, WaitingLate DEF ShapeInv
<1>5. CASE Tick \/ \E w \in Workers : WorkerStep(w) \/ Crash(w)
  BY <1>2, <1>5 DEF Tick, WorkerStep, Crash, PopJob, StartJudging, Judge, LoadForScore, Recount,
     CommitVerdict, Restart
<1>6. CASE UNCHANGED vars
  BY <1>2, <1>6 DEF vars
<1>7. QED
  BY <1>3, <1>4, <1>5, <1>6 DEF Next

LEMMA LateAlways == Spec => []LateInv
<1>1. Init => LateInv
  BY DEF Init, LateInv, LateIsPractice, LateStaysClosed
<1>2. ShapeInv /\ LateInv /\ [Next]_vars => LateInv'
  BY LateStep
<1>3. QED
  BY <1>1, <1>2, ShapeAlways, PTL DEF Spec

\* A request that reads its attempt after it was finished or ran out of time
\* never links its submission to it, whatever happens while it waits.
THEOREM LateSubmissionsArePractice == Spec => []LateIsPractice
<1>1. LateInv => LateIsPractice
  BY DEF LateInv
<1>2. QED
  BY <1>1, LateAlways, PTL

-----------------------------------------------------------------------------
(* Finishing *)

\* Nothing but a request that is still closing the attempt moves submitted_at.
LEMMA SubmittedStays ==
    ASSUME ShapeInv, [Next]_vars, NEW u \in Users, Final(u)
    PROVE  attempts'[u] \in AttemptRow /\ attempts'[u].submitted = attempts[u].submitted
<1>0. attempts[u] \in AttemptRow
  BY DEF Final, ShapeInv, TypeOK
<1>1. CASE attempts' = attempts
  BY <1>0, <1>1
<1>2. ASSUME NEW h \in Handlers, InsertAttempt(h) PROVE attempts'[u] = attempts[u]
  BY <1>2, SMT DEF Final, InsertAttempt, ShapeInv, TypeOK
<1>3. ASSUME NEW h \in Handlers, CommitClose(h) PROVE attempts'[u] = attempts[u]
  <2>1. Owner(req[h]) \in Users /\ hpc[h] = "commit"
    BY <1>3, Closing DEF CommitClose
  <2>2. Owner(req[h]) # u
    BY <2>1 DEF Final, StillClosing
  <2>3. QED
    BY <1>3, <2>1, <2>2, SMT DEF CommitClose, ShapeInv, TypeOK
<1>4. ASSUME NEW w \in Workers, CommitVerdict(w), attempts' # attempts
      PROVE  attempts'[u] \in AttemptRow /\ attempts'[u].submitted = attempts[u].submitted
  <2>0. Scores(subs[job[w]], verdict[w])
    BY <1>4 DEF CommitVerdict
  <2>1. PICK v \in Users : v = subs[job[w]].user /\ attempts[v] \in AttemptRow
    BY <1>4, <2>0, Scoring
  <2>2. PICK n \in Nat : n = StoredScore(attempts[v].score, wloaded[w], wscore[w])
    BY <1>4, <2>0, <2>1, Scoring, RowFields, StoredScoreType
  <2>3. attempts' = [attempts EXCEPT ![v] = [attempts[v] EXCEPT !.score = n]]
    BY <1>4, <2>0, <2>1, <2>2, SMTT(30) DEF CommitVerdict
  <2>4. PICK row \in AttemptRow : row = [attempts[v] EXCEPT !.score = n]
    BY <2>1, SetScore
  <2>5. row.submitted = attempts[v].submitted
    BY <2>1, <2>4, SetScore
  <2>6. QED
    BY <1>0, <2>3, <2>4, <2>5, SMT DEF ShapeInv, TypeOK
<1>5. QED
  BY <1>0, <1>1, <1>2, <1>3, <1>4, WhoWrites

\* A request that is not closing a closed attempt does not start to.
LEMMA NoNewCloser ==
    ASSUME ShapeInv, NEW u \in Users, Final(u), NEW h \in Handlers,
           \/ \E r \in Requests : Arrive(h, r)
           \/ HandlerStep(h) \/ Abort(h) \/ AbortReload(h)
    PROVE  ~StillClosing(h, u)'
<1> USE DEF Goto, shared
<1>0. ~StillClosing(h, u) /\ attempts[u].submitted # Null
  BY DEF Final
<1>1. CASE Leave(h)
  BY <1>1, SMT DEF Leave, StillClosing, ShapeInv, TypeOK
<1>2. ASSUME NEW r \in Requests, Arrive(h, r) PROVE ~StillClosing(h, u)'
  <2>1. hpc'[h] = "sync" /\ req'[h] = r /\ seen'[h] = attempts[Owner(r)]
    BY <1>2, SMT DEF Arrive, Fetch, ShapeInv, TypeOK
  <2>2. QED
    BY <1>0, <2>1 DEF StillClosing, Owner
<1>3. CASE SyncExpired(h) \/ SyncUnchanged(h) \/ CountScore(h) \/ CommitClose(h)
  BY <1>0, <1>3, SMT DEF StillClosing, Owner, SyncExpired, SyncUnchanged, RunOut,
     CountScore, CommitClose, ShapeInv, TypeOK
<1>4. CASE Refresh(h)
  <2>1. /\ hpc'[h] = "resume" /\ req'[h] = req[h]
        /\ seen'[h] = attempts[Owner(req[h])]
    BY <1>4, SMT DEF Refresh, Fetch, ShapeInv, TypeOK
  <2>2. QED
    BY <1>0, <2>1 DEF StillClosing, Owner
<1>5. CASE CreateAttempt(h) \/ InsertAttempt(h) \/ RejectInsert(h)
  BY <1>5, SMT DEF StillClosing, CreateAttempt, InsertAttempt, RejectInsert, ShapeInv, TypeOK
<1>6. CASE Reload(h) /\ ~Leave(h)
  <2>1. Owner(req[h]) = req[h].user
    BY <1>6 DEF Reload, ShapeInv, HandlersFit, RequestFits
  <2>2. /\ hpc'[h] = "sync" /\ req'[h] = req[h]
        /\ seen'[h] = attempts[req[h].user]
    BY <1>6, SMT DEF Reload, Fetch, ShapeInv, TypeOK
  <2>3. QED
    BY <1>0, <2>1, <2>2 DEF StillClosing, Owner
<1>7. CASE StampFinish(h)
  <2>1. hpc[h] = "resume" /\ req[h].op = "finish" /\ seen[h].submitted = Null /\ req' = req
    BY <1>7 DEF StampFinish
  <2>2. seen[h] \in AttemptRow
    BY <2>1 DEF ShapeInv, HandlersFit, RequestFits
  <2>3. Owner(req[h]) # u
    BY <1>0, <2>1, <2>2, RowFields DEF StillClosing
  <2>4. QED
    BY <2>1, <2>3 DEF StillClosing, Owner
<1>8. CASE Answer(h) \/ ResolveLink(h) \/ CountCases(h) \/ \E s \in SubIds : InsertSubmission(h, s)
  BY <1>1, <1>8, SMT DEF StillClosing, Answer, ResolveLink, CountCases, InsertSubmission,
     ShapeInv, TypeOK
<1>9. QED
  BY <1>1, <1>2, <1>3, <1>4, <1>5, <1>6, <1>7, <1>8
     DEF HandlerStep, Refuse, Done, Push, Abort, AbortReload

\* Once an attempt is closed and no request at work read it open, its
\* submitted_at never changes again.
THEOREM FinishedForGood == Spec => FinishIsFinal
<1>1. ShapeInv /\ [Next]_vars => StaysFinal
  <2> SUFFICES ASSUME ShapeInv, [Next]_vars, NEW u \in Users, Final(u)
               PROVE  Final(u)' /\ attempts'[u].submitted = attempts[u].submitted
    BY DEF StaysFinal
  <2>1. /\ attempts'[u] # Null /\ attempts'[u].submitted # Null
        /\ attempts'[u].submitted = attempts[u].submitted
    BY SubmittedStays, RowFields DEF Final
  <2>2. ASSUME NEW g \in Handlers, SameRequest(g) PROVE ~StillClosing(g, u)'
    BY <2>2 DEF Final, StillClosing, SameRequest, Owner
  <2>3. CASE UNCHANGED hvars
    BY <2>1, <2>2, <2>3 DEF Final, hvars, SameRequest
  <2>4. ASSUME NEW h \in Handlers,
               \/ \E r \in Requests : Arrive(h, r)
               \/ HandlerStep(h) \/ Abort(h) \/ AbortReload(h)
        PROVE  \A g \in Handlers : ~StillClosing(g, u)'
    BY <2>2, <2>4, OthersWait, NoNewCloser
  <2>5. CASE Tick \/ \E w \in Workers : WorkerStep(w) \/ Crash(w)
    BY <2>3, <2>5 DEF Tick, WorkerStep, Crash, PopJob, StartJudging, Judge, LoadForScore,
       Recount, CommitVerdict, Restart
  <2>6. CASE UNCHANGED vars
    BY <2>3, <2>6 DEF vars
  <2>7. QED
    BY <2>1, <2>3, <2>4, <2>5, <2>6 DEF Next, Final
<1>2. QED
  BY <1>1, ShapeAlways, PTL DEF Spec, FinishIsFinal

-----------------------------------------------------------------------------
(* Scores: a count is committed an await after it was made, so what is     *)
(* shown may be old; it is never too high, because acceptances are never   *)
(* taken back.  With one worker that of an open attempt is not even old.   *)

Table == [SubIds -> SubmissionRow \cup {Null}]

\* No submission that counts in one table is missing, or counts for something
\* else, in the other.
Grows(rows, more) ==
    \A s \in SubIds : rows[s] # Null =>
        /\ more[s] # Null
        /\ more[s].user = rows[s].user /\ more[s].question = rows[s].question
        /\ more[s].kind = rows[s].kind /\ more[s].linked = rows[s].linked
        /\ rows[s].status = "accepted" => more[s].status = "accepted"

\* The query of calculate_attempt_score counts what has been earned.
LEMMA EarnedIsSolved ==
    ASSUME NEW rows \in Table, NEW u
    PROVE  Earned(rows, u) = Solved(rows, u)
<1>1. \A s \in SubIds : rows[s] # Null => rows[s].question \in Questions
  BY SMT DEF Table, SubmissionRow
<1>2. QED
  BY <1>1 DEF Earned, ScoredAcceptances, Solved

LEMMA EarnedFinite ==
    ASSUME NEW rows \in Table, NEW u
    PROVE  /\ IsFiniteSet(Earned(rows, u))
           /\ Cardinality(Earned(rows, u)) \in Nat
           /\ CalculateAttemptScore(rows, u) = Cardinality(Earned(rows, u))
<1>1. Earned(rows, u) \subseteq Questions
  BY EarnedIsSolved DEF Solved
<1>2. IsFiniteSet(Earned(rows, u))
  BY <1>1, QuestionsAssumption, FS_Subset
<1>3. QED
  BY <1>2, EarnedIsSolved, FS_CardinalityType DEF CalculateAttemptScore

LEMMA EarnedGrows ==
    ASSUME NEW rows \in Table, NEW more \in Table, Grows(rows, more), NEW u
    PROVE  Cardinality(Earned(rows, u)) <= Cardinality(Earned(more, u))
<1>1. ScoredAcceptances(rows, u) \subseteq ScoredAcceptances(more, u)
  BY DEF ScoredAcceptances, Grows
<1>2. \A s \in ScoredAcceptances(rows, u) : rows[s].question = more[s].question
  BY DEF ScoredAcceptances, Grows
<1>3. Earned(rows, u) \subseteq Earned(more, u)
  BY <1>1, <1>2 DEF Earned
<1>4. QED
  BY <1>3, EarnedFinite, FS_Subset

\* What setting the status of a row changes in a table.
Sets(rows, new, s, v) ==
    /\ new[s] # Null /\ new[s].status = v
    /\ new[s].user = rows[s].user /\ new[s].question = rows[s].question
    /\ new[s].kind = rows[s].kind /\ new[s].linked = rows[s].linked
    /\ \A t \in SubIds \ {s} : new[t] = rows[t]

LEMMA StatusFields ==
    ASSUME NEW rows \in Table, NEW s \in SubIds, rows[s] # Null, NEW v \in Statuses,
           NEW new, new = [rows EXCEPT ![s].status = v]
    PROVE  new \in Table /\ Sets(rows, new, s, v)
<1> DEFINE row == [rows[s] EXCEPT !.status = v]
<1>1. rows[s] \in SubmissionRow
  BY DEF Table
<1>2. /\ row \in SubmissionRow /\ row # Null /\ row.user = rows[s].user
      /\ row.question = rows[s].question /\ row.status = v
      /\ row.kind = rows[s].kind /\ row.linked = rows[s].linked
  BY <1>1, SetStatus
<1>3. new = [rows EXCEPT ![s] = row]
  OBVIOUS
<1> HIDE DEF row
<1>4. new \in Table /\ new[s] = row /\ \A t \in SubIds \ {s} : new[t] = rows[t]
  BY <1>2, <1>3, SMT DEF Table
<1>5. QED
  BY <1>2, <1>4 DEF Sets

\* Setting the status of a row that has no verdict yet takes nothing back.
LEMMA StatusGrows ==
    ASSUME NEW rows \in Table, NEW s \in SubIds, rows[s] # Null, NEW v \in Statuses,
           rows[s].status = "accepted" => v = "accepted",
           NEW new, new = [rows EXCEPT ![s].status = v]
    PROVE  Grows(rows, new)
<1>1. Sets(rows, new, s, v)
  BY StatusFields
<1>2. QED
  BY <1>1 DEF Grows, Sets

\* A table that grows still grows after the same verdict is set in both.
LEMMA FlushGrows ==
    ASSUME NEW rows \in Table, NEW more \in Table, Grows(rows, more),
           NEW s \in SubIds, rows[s] # Null, NEW v \in Statuses,
           NEW new, new = [rows EXCEPT ![s].status = v],
           NEW newer, newer = [more EXCEPT ![s].status = v]
    PROVE  Grows(new, newer)
<1>1. more[s] # Null
  BY DEF Grows
<1>2. Sets(rows, new, s, v) /\ Sets(more, newer, s, v)
  BY <1>1, StatusFields
<1>3. QED
  BY <1>2 DEF Grows, Sets

\* A job about to be decided.
LEMMA Deciding ==
    ASSUME ShapeInv, CustodyInv, NEW w \in Workers, wpc[w] \in {"judge", "load", "count", "commit"}
    PROVE  /\ job[w] \in SubIds /\ subs \in Table /\ subs[job[w]] # Null
           /\ subs[job[w]] \in SubmissionRow
           /\ subs[job[w]].status = "running"
           /\ wpc[w] # "judge" => verdict[w] \in Statuses
<1>1. Busy(w) /\ job[w] \in SubIds /\ Exists(job[w])
  BY BusyJob DEF Busy, CustodyInv, HeldAsExpected
<1>2. wpc[w] # "judge" => verdict[w] \in Statuses
  BY InputsAssumption DEF ShapeInv, WorkersFit, JobFits, Statuses
<1>3. QED
  BY <1>1, <1>2 DEF CustodyInv, HeldAsExpected, ShapeInv, TypeOK, Table, Exists

\* The only steps that write a submission.
LEMMA WhoWritesSubs ==
    ASSUME [Next]_vars, subs' # subs
    PROVE  \/ \E h \in Handlers, s \in SubIds : InsertSubmission(h, s)
           \/ \E w \in Workers : StartJudging(w) \/ CommitVerdict(w)
<1>1. ASSUME NEW h \in Handlers, \A s \in SubIds : ~InsertSubmission(h, s),
             \/ \E r \in Requests : Arrive(h, r)
             \/ HandlerStep(h) \/ Abort(h) \/ AbortReload(h)
      PROVE  subs' = subs
  BY <1>1 DEF shared, HandlerStep, Arrive, Refuse, SyncExpired, SyncUnchanged, CountScore,
     CommitClose, Refresh, CreateAttempt, InsertAttempt, RejectInsert, Reload,
     StampFinish, Answer, Done, ResolveLink, CountCases, Push, Abort, AbortReload
<1>2. ASSUME NEW w \in Workers, WorkerStep(w) \/ Crash(w), ~StartJudging(w), ~CommitVerdict(w)
      PROVE  subs' = subs
  BY <1>2 DEF WorkerStep, PopJob, Judge, LoadForScore, Recount, Restart, Crash
<1>3. CASE UNCHANGED vars \/ Tick
  BY <1>3 DEF vars, Tick
<1>4. QED
  BY <1>1, <1>2, <1>3 DEF Next

LEMMA GrowStep ==
    ShapeInv /\ CustodyInv /\ [Next]_vars => subs \in Table /\ subs' \in Table /\ Grows(subs, subs')
<1> SUFFICES ASSUME ShapeInv, CustodyInv, [Next]_vars
             PROVE  subs \in Table /\ subs' \in Table /\ Grows(subs, subs')
  OBVIOUS
<1>0. subs \in Table /\ subs' \in Table
  BY ShapeStep DEF ShapeInv, TypeOK, Table
<1>1. CASE subs' = subs
  BY <1>0, <1>1 DEF Grows
<1>2. ASSUME NEW h \in Handlers, NEW s \in SubIds, InsertSubmission(h, s)
      PROVE  Grows(subs, subs')
  BY <1>0, <1>2 DEF InsertSubmission, Grows, Table
<1>3. ASSUME NEW w \in Workers, StartJudging(w), subs' # subs PROVE Grows(subs, subs')
  <2>1. job[w] \in SubIds /\ subs[job[w]] # Null /\ subs[job[w]].status # "accepted"
    BY <1>3, BusyJob, SMT DEF Busy, StartJudging, CustodyInv, HeldAsExpected, Exists
  <2>2. subs' = [subs EXCEPT ![job[w]].status = "running"]
    BY <1>3, <2>1 DEF StartJudging
  <2>3. QED
    BY <1>0, <2>1, <2>2, StatusGrows DEF Statuses
<1>4. ASSUME NEW w \in Workers, CommitVerdict(w) PROVE Grows(subs, subs')
  BY <1>0, <1>4, Deciding, StatusGrows DEF CommitVerdict, Flushed
<1>5. QED
  BY <1>1, <1>2, <1>3, <1>4, <1>0, WhoWritesSubs

-----------------------------------------------------------------------------
(* The credit layer *)

\* What CreditInv says of one request, of one worker and of one user.
ScoreFits(h) == hpc[h] \in {"insert", "commit"} =>
    seen[h].score <= Cardinality(Earned(subs, Owner(req[h])))
RecountFits(w) == wpc[w] = "commit" /\ Scores(subs[job[w]], verdict[w]) =>
    wscore[w] <= Cardinality(Earned(Flushed(w), subs[job[w]].user))
StoredFits(u) == attempts[u] # Null =>
    attempts[u].score <= Cardinality(Earned(subs, u))

LEMMA CreditFits ==
    CreditInv <=> /\ \A h \in Handlers : ScoreFits(h)
                  /\ \A w \in Workers : RecountFits(w)
                  /\ \A u \in Users : StoredFits(u)
BY DEF CreditInv, CreditInFlight, NoPhantomCredit, ScoreFits, RecountFits, StoredFits

\* A count made earlier is still not too high, as what is earned only grows.
LEMMA WaitingScore ==
    ASSUME ShapeInv, subs \in Table, subs' \in Table, Grows(subs, subs'),
           NEW g \in Handlers, ScoreFits(g), SameRequest(g)
    PROVE  ScoreFits(g)'
<1> SUFFICES ASSUME hpc[g] \in {"insert", "commit"} PROVE ScoreFits(g)'
  BY DEF SameRequest, ScoreFits
<1> DEFINE u == Owner(req[g])
<1>1. seen[g].score \in Nat /\ seen[g].score <= Cardinality(Earned(subs, u))
  BY RowFields DEF ShapeInv, HandlersFit, RequestFits, ScoreFits
<1>2. /\ Cardinality(Earned(subs, u)) \in Nat /\ Cardinality(Earned(subs', u)) \in Nat
      /\ Cardinality(Earned(subs, u)) <= Cardinality(Earned(subs', u))
  BY EarnedFinite, EarnedGrows
<1>3. seen[g].score <= Cardinality(Earned(subs', u))
  <2> HIDE DEF u
  <2> QED BY <1>1, <1>2, SMT
<1>4. QED
  BY <1>3 DEF ScoreFits, SameRequest, Owner

LEMMA CountedScore ==
    ASSUME ShapeInv, subs \in Table, NEW h \in Handlers, CountScore(h)
    PROVE  ScoreFits(h)'
<1> DEFINE n == CalculateAttemptScore(subs, Owner(req[h]))
<1>1. n \in Nat /\ n = Cardinality(Earned(subs, Owner(req[h])))
  BY EarnedFinite
<1>2. seen' = [seen EXCEPT ![h].score = n] /\ seen[h] \in AttemptRow
  BY DEF CountScore, ShapeInv, HandlersFit, RequestFits
<1> HIDE DEF n
<1>3. seen'[h].score = n
  BY <1>1, <1>2, SMT DEF ShapeInv, TypeOK, AttemptRow
<1>4. req'[h] = req[h] /\ subs' = subs
  BY DEF CountScore, shared
<1>5. n <= n
  BY <1>1, SMT
<1>6. QED
  BY <1>1, <1>3, <1>4, <1>5 DEF ScoreFits, Owner

LEMMA RequestScore ==
    ASSUME ShapeInv, subs \in Table, subs' \in Table, NEW h \in Handlers,
           \/ \E r \in Requests : Arrive(h, r)
           \/ HandlerStep(h) \/ Abort(h) \/ AbortReload(h)
    PROVE  ScoreFits(h)'
<1> USE DEF Goto
<1>1. CASE hpc'[h] \notin {"insert", "commit"}
  BY <1>1 DEF ScoreFits
<1>2. CASE CountScore(h)
  BY <1>2, CountedScore
<1>3. CASE CreateAttempt(h)
  <2>1. seen'[h].score = 0
    BY <1>3, NewAttemptRow, SMT DEF CreateAttempt, ShapeInv, TypeOK
  <2>2. Cardinality(Earned(subs', Owner(req'[h]))) \in Nat
    BY EarnedFinite
  <2>3. QED
    BY <2>1, <2>2, SMT DEF ScoreFits, Owner
<1>4. CASE ~CountScore(h) /\ ~CreateAttempt(h)
  <2>1. \E pc \in HandlerPCs \ {"insert", "commit"} : hpc' = [hpc EXCEPT ![h] = pc]
    BY <1>4 DEF HandlerStep, Arrive, Refuse, SyncExpired, SyncUnchanged, CommitClose, Refresh,
       InsertAttempt, RejectInsert, Reload, StampFinish, Answer, Done, ResolveLink,
       CountCases, InsertSubmission, Push, Abort, AbortReload, Leave, HandlerPCs
  <2>2. hpc'[h] \notin {"insert", "commit"}
    BY <2>1, SMT DEF ShapeInv, TypeOK
  <2>3. QED
    BY <2>2 DEF ScoreFits
<1>5. QED
  BY <1>1, <1>2, <1>3, <1>4

LEMMA WaitingRecount ==
    ASSUME ShapeInv, CustodyInv, subs \in Table, subs' \in Table, Grows(subs, subs'),
           NEW v \in Workers, RecountFits(v), SameJob(v), wscore'[v] = wscore[v]
    PROVE  RecountFits(v)'
<1> DEFINE s == job[v]
           x == verdict[v]
           u == subs[s].user
           new == [subs EXCEPT ![s].status = x]
           newer == [subs' EXCEPT ![s].status = x]
<1> SUFFICES ASSUME wpc[v] = "commit", Scores(subs'[s], x)
             PROVE  wscore[v] <= Cardinality(Earned(newer, subs'[s].user))
  BY DEF RecountFits, SameJob, Flushed
<1>1. s \in SubIds /\ subs[s] # Null /\ x \in Statuses
  BY Deciding
<1>2. /\ subs'[s] # Null /\ subs'[s].user = u
      /\ subs'[s].kind = subs[s].kind /\ subs'[s].linked = subs[s].linked
  BY <1>1 DEF Grows
<1>3. new \in Table /\ newer \in Table /\ Grows(new, newer)
  BY <1>1, <1>2, StatusFields, FlushGrows
<1>4. wscore[v] <= Cardinality(Earned(new, u)) /\ wscore[v] \in Nat
  BY <1>2 DEF RecountFits, Flushed, Scores, ShapeInv, TypeOK
<1>5. /\ Cardinality(Earned(new, u)) \in Nat /\ Cardinality(Earned(newer, u)) \in Nat
      /\ Cardinality(Earned(new, u)) <= Cardinality(Earned(newer, u))
  BY <1>3, EarnedFinite, EarnedGrows
<1> HIDE DEF new, newer, u, x
<1>6. wscore[v] <= Cardinality(Earned(newer, u))
  BY <1>4, <1>5, SMT
<1>7. QED
  BY <1>2, <1>6

LEMMA WorkerRecount ==
    ASSUME ShapeInv, CustodyInv, NEW w \in Workers, WorkerStep(w) \/ Crash(w)
    PROVE  RecountFits(w)'
<1> USE DEF WGoto
<1>1. CASE Recount(w)
  <2>1. job[w] \in SubIds /\ subs \in Table /\ subs[job[w]] # Null /\ verdict[w] \in Statuses
    BY <1>1, Deciding, SMT DEF Recount
  <2>2. Flushed(w) \in Table
    BY <2>1, StatusFields DEF Flushed
  <2>3. wscore'[w] = CalculateAttemptScore(Flushed(w), subs[job[w]].user)
    BY <1>1 DEF Recount, ShapeInv, TypeOK
  <2>4. UNCHANGED <<subs, job, verdict>>
    BY <1>1 DEF Recount
  <2> DEFINE n == Cardinality(Earned(Flushed(w), subs[job[w]].user))
  <2>5. wscore'[w] = n /\ n \in Nat
    BY <2>2, <2>3, EarnedFinite
  <2>6. n <= n
    BY <2>5, SMT
  <2>7. QED
    BY <2>4, <2>5, <2>6 DEF RecountFits, Flushed
<1>2. CASE \E v \in Verdicts : Judge(w, v)
  <2>1. PICK v \in Verdicts : Judge(w, v)
    BY <1>2
  <2>2. verdict'[w] = v /\ UNCHANGED <<subs, job>>
    BY <2>1 DEF Judge, ShapeInv, TypeOK
  <2>3. Scores(subs[job[w]], v) => wpc'[w] = "load"
    BY <2>1 DEF Judge, ShapeInv, TypeOK
  <2>4. QED
    BY <2>2, <2>3 DEF RecountFits
<1>3. CASE PopJob(w) \/ StartJudging(w) \/ LoadForScore(w) \/ CommitVerdict(w) \/ Restart(w) \/ Crash(w)
  <2>1. wpc'[w] # "commit"
    BY <1>3, SMT DEF PopJob, StartJudging, LoadForScore, CommitVerdict, Restart, Crash, Drop,
       ShapeInv, TypeOK
  <2>2. QED
    BY <2>1 DEF RecountFits
<1>4. QED
  BY <1>1, <1>2, <1>3 DEF WorkerStep

\* A score that is stored is one of two counts, neither too high.
LEMMA StoredScoreBound ==
    ASSUME NEW a \in Nat, NEW b \in Nat, NEW c \in Nat, NEW n \in Nat, a <= n, c <= n
    PROVE  StoredScore(a, b, c) <= n
BY StoredScoreType, SMT

LEMMA StoredStep ==
    ASSUME ShapeInv, CustodyInv, CreditInv, [Next]_vars, NEW u \in Users
    PROVE  StoredFits(u)'
<1> DEFINE n == Cardinality(Earned(subs, u))
           m == Cardinality(Earned(subs', u))
<1>1. n \in Nat /\ m \in Nat /\ n <= m
  BY GrowStep, EarnedFinite, EarnedGrows
<1>2. attempts[u] # Null => attempts[u].score \in Nat /\ attempts[u].score <= n
  BY CreditFits, RowFields DEF StoredFits, ShapeInv, TypeOK
<1> HIDE DEF n, m
<1>3. CASE attempts'[u] = attempts[u]
  <2>1. attempts[u] # Null => attempts[u].score <= m
    BY <1>1, <1>2, SMT
  <2>2. QED
    BY <1>3, <2>1 DEF StoredFits, m
<1>4. ASSUME NEW h \in Handlers, InsertAttempt(h), attempts'[u] # attempts[u]
      PROVE  StoredFits(u)'
  <2>1. u = req[h].user /\ attempts'[u] = seen[h] /\ hpc[h] = "insert" /\ subs' = subs
    BY <1>4, SMT DEF InsertAttempt, ShapeInv, TypeOK
  <2>2. Owner(req[h]) = u
    BY <2>1 DEF ShapeInv, HandlersFit, RequestFits
  <2>3. seen[h].score <= Cardinality(Earned(subs, u))
    BY <2>1, <2>2, CreditFits DEF ScoreFits
  <2>4. QED
    BY <2>1, <2>3 DEF StoredFits
<1>5. ASSUME NEW h \in Handlers, CommitClose(h), attempts'[u] # attempts[u]
      PROVE  StoredFits(u)'
  <2> DEFINE new == ClosedRow(attempts[u], seen[h], loaded[h])
  <2>1. u = Owner(req[h]) /\ attempts'[u] = new /\ hpc[h] = "commit" /\ subs' = subs
    BY <1>5, Closing, SMT DEF CommitClose, ShapeInv, TypeOK
  <2>2. attempts[u] \in AttemptRow /\ seen[h] \in AttemptRow /\ loaded[h] \in Nat
    BY <1>5, <2>1, Closing
  <2>3. new.score = StoredScore(attempts[u].score, loaded[h], seen[h].score)
    BY <2>2, ClosedRowFields
  <2>4. /\ attempts[u].score \in Nat /\ attempts[u].score <= n
        /\ seen[h].score \in Nat /\ seen[h].score <= n
    BY <1>2, <2>1, <2>2, RowFields, CreditFits DEF ScoreFits, n
  <2>5. StoredScore(attempts[u].score, loaded[h], seen[h].score) <= n
    BY <1>1, <2>2, <2>4, StoredScoreBound
  <2> HIDE DEF new
  <2>6. QED
    BY <2>1, <2>3, <2>5 DEF StoredFits, n
<1>6. ASSUME NEW w \in Workers, CommitVerdict(w), attempts'[u] # attempts[u]
      PROVE  StoredFits(u)'
  <2> DEFINE k == StoredScore(attempts[u].score, wloaded[w], wscore[w])
  <2>1. Scores(subs[job[w]], verdict[w]) /\ wpc[w] = "commit" /\ subs' = Flushed(w)
    BY <1>6 DEF CommitVerdict
  <2>2. u = subs[job[w]].user /\ attempts'[u] = [attempts[u] EXCEPT !.score = k]
    <3>1. PICK x \in Users : x = subs[job[w]].user
      BY <1>6, <2>1, Scoring
    <3>2. attempts' = [attempts EXCEPT ![x].score = StoredScore(@, wloaded[w], wscore[w])]
      BY <1>6, <2>1, <3>1 DEF CommitVerdict
    <3>3. u = x
      BY <1>6, <3>2 DEF ShapeInv, TypeOK
    <3>4. QED
      BY <3>1, <3>2, <3>3 DEF ShapeInv, TypeOK
  <2>3. attempts[u] \in AttemptRow /\ wloaded[w] \in Nat /\ wscore[w] \in Nat
    BY <1>6, <2>1, <2>2, Scoring
  <2>4. wscore[w] <= m
    BY <2>1, <2>2, CreditFits DEF RecountFits, m
  <2>5. attempts[u].score \in Nat /\ attempts[u].score <= n
    BY <1>2, <2>3, RowFields
  <2>6. attempts[u].score <= m
    BY <1>1, <2>5, SMT
  <2>7. k \in Nat /\ k <= m
    BY <1>1, <2>3, <2>4, <2>5, <2>6, StoredScoreBound, StoredScoreType
  <2> HIDE DEF k
  <2>8. attempts'[u].score = k
    BY <2>2, <2>3, <2>7, SetScore
  <2>9. QED
    BY <2>7, <2>8 DEF StoredFits, m
<1>7. QED
  BY <1>3, <1>4, <1>5, <1>6, WhoWrites

LEMMA CreditInit == Init => CreditInv
<1> SUFFICES ASSUME Init PROVE CreditInv
  OBVIOUS
<1>1. \A h \in Handlers : ScoreFits(h)
  BY SMT DEF Init, ScoreFits
<1>2. \A w \in Workers : RecountFits(w)
  BY SMT DEF Init, RecountFits
<1>3. \A u \in Users : StoredFits(u)
  BY DEF Init, StoredFits
<1>4. QED
  BY <1>1, <1>2, <1>3, CreditFits

LEMMA CreditStep == ShapeInv /\ CustodyInv /\ CreditInv /\ [Next]_vars => CreditInv'
<1> SUFFICES ASSUME ShapeInv, CustodyInv, CreditInv, [Next]_vars PROVE CreditInv'
  OBVIOUS
<1>1. /\ subs \in Table /\ subs' \in Table /\ Grows(subs, subs')
      /\ \A h \in Handlers : ScoreFits(h)
      /\ \A w \in Workers : RecountFits(w)
  BY GrowStep, CreditFits
<1>2. \A u \in Users : StoredFits(u)'
  BY StoredStep
<1>3. \A h \in Handlers : ScoreFits(h)'
  <2>1. CASE UNCHANGED hvars
    BY <1>1, <2>1, WaitingScore DEF hvars, SameRequest
  <2>2. ASSUME NEW h \in Handlers,
               \/ \E r \in Requests : Arrive(h, r)
               \/ HandlerStep(h) \/ Abort(h) \/ AbortReload(h)
        PROVE  \A g \in Handlers : ScoreFits(g)'
    <3>1. ASSUME NEW g \in Handlers, g # h PROVE SameRequest(g)
      BY <2>2, <3>1, OthersWait
    <3>2. QED
      BY <1>1, <2>2, <3>1, WaitingScore, RequestScore
  <2>3. QED
    BY <2>1, <2>2 DEF Next, Tick, WorkerStep, Crash, PopJob, StartJudging, Judge,
       LoadForScore, Recount, CommitVerdict, Restart, vars
<1>4. \A w \in Workers : RecountFits(w)'
  <2>1. CASE UNCHANGED wvars
    BY <1>1, <2>1, WaitingRecount DEF wvars, SameJob
  <2>2. ASSUME NEW w \in Workers, WorkerStep(w) \/ Crash(w)
        PROVE  \A v \in Workers : RecountFits(v)'
    <3>1. ASSUME NEW v \in Workers, v # w PROVE SameJob(v) /\ wscore'[v] = wscore[v]
      BY <2>2, <3>1, SMT DEF WorkerStep, Crash, PopJob, StartJudging, Judge, LoadForScore,
         Recount, CommitVerdict, Restart, SameJob, WGoto, Drop, ShapeInv, TypeOK
    <3>2. QED
      BY <1>1, <2>2, <3>1, WaitingRecount, WorkerRecount
  <2>3. QED
    BY <2>1, <2>2 DEF Next, Tick, vars, shared, Arrive, HandlerStep, Refuse, SyncExpired,
       SyncUnchanged, CountScore, CommitClose, Refresh, CreateAttempt, InsertAttempt,
       RejectInsert, Reload, StampFinish, Answer, Done, ResolveLink, CountCases,
       InsertSubmission, Push, Abort, AbortReload
<1>5. QED
  BY <1>2, <1>3, <1>4 DEF CreditInv, CreditInFlight, NoPhantomCredit, ScoreFits, RecountFits,
     StoredFits

-----------------------------------------------------------------------------
(* The score of an open attempt, with one worker *)

\* One process judges (docker/README.md:58).
OneWorker == \A v, w \in Workers : v = w

\* What the worker holds between load and commit is exact as well: nobody but
\* itself writes the score of an open attempt or accepts a submission.
RecountExact(w) ==
    wpc[w] \in {"count", "commit"} /\ Scores(subs[job[w]], verdict[w]) =>
        LET u == subs[job[w]].user IN
        /\ attempts[u].submitted = Null => wloaded[w] = attempts[u].score
        /\ wpc[w] = "commit" => wscore[w] = Cardinality(Earned(Flushed(w), u))
OpenExact(u) ==
    attempts[u] # Null /\ attempts[u].submitted = Null =>
        attempts[u].score = Cardinality(Earned(subs, u))
ExactInv == (\A w \in Workers : RecountExact(w)) /\ (\A u \in Users : OpenExact(u))

\* The same acceptances, for the same questions.
SameCredit(rows, new, u) ==
    /\ ScoredAcceptances(new, u) = ScoredAcceptances(rows, u)
    /\ \A s \in ScoredAcceptances(rows, u) : new[s].question = rows[s].question

LEMMA SameCreditEarns ==
    ASSUME NEW rows, NEW new, NEW u, SameCredit(rows, new, u)
    PROVE  Earned(new, u) = Earned(rows, u)
BY DEF SameCredit, Earned

\* A status that is not an acceptance, or not a scored one, earns nothing.
LEMMA UnscoredStatus ==
    ASSUME NEW rows \in Table, NEW s \in SubIds, rows[s] # Null, NEW v \in Statuses,
           rows[s].status # "accepted", NEW new, new = [rows EXCEPT ![s].status = v], NEW u,
           ~Scores(rows[s], v) \/ rows[s].user # u
    PROVE  SameCredit(rows, new, u)
<1>1. Sets(rows, new, s, v)
  BY StatusFields
<1>2. \A t \in SubIds : t \in ScoredAcceptances(new, u) <=> t \in ScoredAcceptances(rows, u)
  <2>1. ASSUME NEW t \in SubIds, t # s
        PROVE  t \in ScoredAcceptances(new, u) <=> t \in ScoredAcceptances(rows, u)
    BY <1>1, <2>1 DEF Sets, ScoredAcceptances
  <2>2. s \notin ScoredAcceptances(rows, u) /\ s \notin ScoredAcceptances(new, u)
    BY <1>1 DEF Sets, ScoredAcceptances, Scores
  <2>3. QED
    BY <2>1, <2>2
<1>3. ScoredAcceptances(new, u) = ScoredAcceptances(rows, u)
  BY <1>2 DEF ScoredAcceptances
<1>4. \A t \in SubIds : new[t].question = rows[t].question
  BY <1>1 DEF Sets
<1>5. QED
  BY <1>3, <1>4 DEF SameCredit, ScoredAcceptances

\* Inserting a submission earns nothing yet, with a flushed verdict or without.
LEMMA InsertedEarnsNothing ==
    ASSUME NEW rows \in Table, NEW s \in SubIds, rows[s] = Null, NEW row \in SubmissionRow,
           row.status = "pending", NEW new, new = [rows EXCEPT ![s] = row], NEW u
    PROVE  SameCredit(rows, new, u)
<1>1. new[s] = row /\ row # Null /\ \A t \in SubIds \ {s} : new[t] = rows[t]
  BY NullAssumption DEF Table
<1>2. ScoredAcceptances(new, u) = ScoredAcceptances(rows, u)
  BY <1>1 DEF ScoredAcceptances
<1>3. s \notin ScoredAcceptances(rows, u)
  BY DEF ScoredAcceptances
<1>4. QED
  BY <1>1, <1>2, <1>3 DEF SameCredit, ScoredAcceptances

\* What the INSERT of a submission adds.
LEMMA InsertedRow ==
    ASSUME ShapeInv, NEW h \in Handlers, NEW s \in SubIds, InsertSubmission(h, s)
    PROVE  /\ subs[s] = Null /\ subs'[s] \in SubmissionRow /\ subs'[s].status = "pending"
           /\ subs' = [subs EXCEPT ![s] = subs'[s]]
<1>1. RequestFits(h) /\ hpc[h] = "add" /\ link[h] \in BOOLEAN
  BY DEF ShapeInv, TypeOK, HandlersFit, InsertSubmission
<1>2. req[h] \in Requests /\ req[h].op = "submit"
  BY <1>1, SMT DEF RequestFits
<1> DEFINE row == [user |-> req[h].user, question |-> req[h].question,
                   kind |-> req[h].kind, linked |-> link[h], status |-> "pending"]
<1>3. row \in SubmissionRow /\ row.status = "pending" /\ subs' = [subs EXCEPT ![s] = row]
  BY <1>1, <1>2, NewSubmissionRow DEF InsertSubmission
<1> HIDE DEF row
<1>4. QED
  BY <1>3 DEF InsertSubmission, ShapeInv, TypeOK

\* Only a scored verdict adds to what is earned; the worker's flushed verdict
\* adds as much before a step of somebody else as after it.
LEMMA QuietCredit ==
    ASSUME ShapeInv, CustodyInv, [Next]_vars, \A w \in Workers : ~CommitVerdict(w), NEW u
    PROVE  SameCredit(subs, subs', u)
<1>0. subs \in Table /\ subs' \in Table
  BY GrowStep
<1>1. CASE subs' = subs
  BY <1>1 DEF SameCredit
<1>2. ASSUME NEW h \in Handlers, NEW s \in SubIds, InsertSubmission(h, s)
      PROVE  SameCredit(subs, subs', u)
  BY <1>0, <1>2, InsertedRow, InsertedEarnsNothing
<1>3. ASSUME NEW w \in Workers, StartJudging(w), subs' # subs
      PROVE  SameCredit(subs, subs', u)
  <2>1. job[w] \in SubIds /\ subs[job[w]] # Null /\ subs[job[w]].status # "accepted"
    BY <1>3, BusyJob, SMT DEF Busy, StartJudging, CustodyInv, HeldAsExpected, Exists
  <2>2. subs' = [subs EXCEPT ![job[w]].status = "running"]
    BY <1>3, <2>1 DEF StartJudging
  <2>3. ~Scores(subs[job[w]], "running")
    BY DEF Scores
  <2>4. QED
    BY <1>0, <2>1, <2>2, <2>3, UnscoredStatus DEF Statuses
<1>4. QED
  BY <1>1, <1>2, <1>3, WhoWritesSubs

\* A request's step leaves the sole worker's count and what it loaded exact.
LEMMA RequestExact ==
    ASSUME ShapeInv, ShapeInv', CustodyInv, [Next]_vars, NEW w \in Workers, RecountExact(w),
           SameJob(w), UNCHANGED <<wloaded, wscore>>,
           \A v \in Workers : ~CommitVerdict(v) /\ ~StartJudging(v)
    PROVE  RecountExact(w)'
<1> DEFINE j == job[w]
           row == subs[j]
           x == verdict[w]
           u == row.user
<1> SUFFICES ASSUME wpc[w] \in {"count", "commit"}, Scores(subs'[j], x)
             PROVE  LET y == subs'[j].user IN
                    /\ attempts'[y].submitted = Null => wloaded[w] = attempts'[y].score
                    /\ wpc[w] = "commit" => wscore[w] = Cardinality(Earned(Flushed(w)', y))
  BY DEF RecountExact, SameJob
<1>1. j \in SubIds /\ row # Null /\ row \in SubmissionRow /\ x \in Statuses
  BY Deciding
<1>2. subs \in Table /\ subs' \in Table /\ Grows(subs, subs')
  BY GrowStep
<1>3. \/ subs' = subs
      \/ \E s \in SubIds, new \in SubmissionRow :
            /\ s # j /\ subs[s] = Null /\ new.status = "pending"
            /\ subs' = [subs EXCEPT ![s] = new]
  <2>1. ASSUME NEW h \in Handlers, NEW s \in SubIds, InsertSubmission(h, s)
        PROVE  /\ s # j /\ subs[s] = Null /\ subs'[s].status = "pending"
               /\ subs'[s] \in SubmissionRow
               /\ subs' = [subs EXCEPT ![s] = subs'[s]]
    BY <1>1, <2>1, InsertedRow
  <2>2. QED
    BY <2>1, WhoWritesSubs
<1>4. subs'[j] = row
  BY <1>1, <1>2, <1>3 DEF Table
<1>5. u \in Users /\ row.linked /\ attempts[u] \in AttemptRow
  BY <1>1, <1>4 DEF ShapeInv, WorkersFit, LinkFits, Exists, SubmissionRow, Scores
<1>6. wpc[w] = "commit" => wscore[w] = Cardinality(Earned(Flushed(w)', u))
  <2> DEFINE old == [subs EXCEPT ![j].status = x]
             fresh == [subs' EXCEPT ![j].status = x]
  <2>1. old \in Table /\ Sets(subs, old, j, x) /\ fresh \in Table /\ Sets(subs', fresh, j, x)
    BY <1>1, <1>2, <1>4, StatusFields
  <2>2. Earned(fresh, u) = Earned(old, u)
    <3>1. CASE subs' = subs
      BY <3>1
    <3>2. ASSUME NEW s \in SubIds, NEW new \in SubmissionRow, s # j, subs[s] = Null,
                 new.status = "pending", subs' = [subs EXCEPT ![s] = new]
          PROVE  Earned(fresh, u) = Earned(old, u)
      <4>1. fresh = [old EXCEPT ![s] = new]
        BY <1>2, <1>4, <3>2 DEF Table
      <4>2. old[s] = Null
        BY <2>1, <3>2 DEF Sets
      <4> HIDE DEF old, fresh
      <4>3. SameCredit(old, fresh, u)
        BY <2>1, <3>2, <4>1, <4>2, InsertedEarnsNothing
      <4>4. QED
        BY <4>3, SameCreditEarns
    <3>3. QED
      BY <1>3, <3>1, <3>2
  <2>3. wpc[w] = "commit" => wscore[w] = Cardinality(Earned(old, u))
    BY <1>4 DEF RecountExact, Flushed
  <2>4. Flushed(w)' = fresh
    BY DEF Flushed, SameJob
  <2> HIDE DEF old, fresh
  <2>5. QED
    BY <2>2, <2>3, <2>4
<1>7. attempts'[u].submitted = Null => wloaded[w] = attempts'[u].score
  <2>1. CASE attempts'[u] = attempts[u]
    BY <1>4, <2>1 DEF RecountExact
  <2>2. ASSUME NEW h \in Handlers, InsertAttempt(h) PROVE attempts'[u] = attempts[u]
    BY <1>5, <2>2, RowFields, SMT DEF InsertAttempt, ShapeInv, TypeOK
  <2>3. ASSUME NEW h \in Handlers, CommitClose(h), attempts'[u] # attempts[u]
        PROVE  attempts'[u].submitted # Null
    <3> DEFINE new == ClosedRow(attempts[u], seen[h], loaded[h])
    <3>1. u = Owner(req[h]) /\ attempts'[u] = new
      BY <1>5, <2>3, Closing, SMT DEF CommitClose, ShapeInv, TypeOK
    <3>2. new.submitted = seen[h].submitted /\ seen[h].submitted # Null
      <4>1. /\ attempts[u] \in AttemptRow /\ seen[h] \in AttemptRow /\ loaded[h] \in Nat
            /\ seen[h].submitted # Null
        BY <1>5, <2>3, Closing
      <4>2. QED
        BY <4>1, ClosedRowFields
    <3> HIDE DEF new
    <3>3. QED
      BY <3>1, <3>2
  <2>4. QED
    BY <2>1, <2>2, <2>3, WhoWrites
<1>8. QED
  BY <1>4, <1>6, <1>7

\* The sole worker's own steps: it loads what is stored, counts what is there,
\* and nothing comes between.
LEMMA WorkerExact ==
    ASSUME ShapeInv, CustodyInv, NEW w \in Workers, RecountExact(w), WorkerStep(w) \/ Crash(w)
    PROVE  RecountExact(w)'
<1> USE DEF WGoto
<1>1. CASE LoadForScore(w)
  <2>1. /\ wpc'[w] = "count" /\ wloaded'[w] = attempts[subs[job[w]].user].score
        /\ UNCHANGED <<subs, job, verdict, attempts>>
    BY <1>1 DEF LoadForScore, ShapeInv, TypeOK
  <2>2. QED
    BY <2>1 DEF RecountExact
<1>2. CASE Recount(w)
  <2>1. job[w] \in SubIds /\ subs \in Table /\ subs[job[w]] # Null /\ verdict[w] \in Statuses
    BY <1>2, Deciding, SMT DEF Recount
  <2>2. Flushed(w) \in Table
    BY <2>1, StatusFields DEF Flushed
  <2>3. /\ wscore'[w] = CalculateAttemptScore(Flushed(w), subs[job[w]].user)
        /\ wpc[w] = "count" /\ UNCHANGED <<subs, job, verdict, attempts, wloaded>>
    BY <1>2 DEF Recount, ShapeInv, TypeOK
  <2>4. wscore'[w] = Cardinality(Earned(Flushed(w), subs[job[w]].user))
    BY <2>2, <2>3, EarnedFinite
  <2>5. QED
    BY <2>3, <2>4 DEF RecountExact, Flushed
<1>3. CASE \E v \in Verdicts : Judge(w, v)
  <2>1. PICK v \in Verdicts : Judge(w, v)
    BY <1>3
  <2>2. verdict'[w] = v /\ UNCHANGED <<subs, job>>
    BY <2>1 DEF Judge, ShapeInv, TypeOK
  <2>3. Scores(subs[job[w]], v) => wpc'[w] = "load"
    BY <2>1 DEF Judge, ShapeInv, TypeOK
  <2>4. QED
    BY <2>2, <2>3 DEF RecountExact
<1>4. CASE PopJob(w) \/ StartJudging(w) \/ CommitVerdict(w) \/ Restart(w) \/ Crash(w)
  <2>1. wpc'[w] \notin {"count", "commit"}
    BY <1>4, SMT DEF PopJob, StartJudging, CommitVerdict, Restart, Crash, Drop, ShapeInv, TypeOK
  <2>2. QED
    BY <2>1 DEF RecountExact
<1>5. QED
  BY <1>1, <1>2, <1>3, <1>4 DEF WorkerStep

\* No row without an attempt is linked, so a new attempt starts with nothing.
LEMMA NothingEarnedYet ==
    ASSUME ShapeInv, NEW u \in Users, attempts[u] = Null
    PROVE  Cardinality(Earned(subs, u)) = 0
<1>1. Null \notin AttemptRow
  BY NullAssumption
<1>2. ScoredAcceptances(subs, u) = {}
  BY <1>1 DEF ScoredAcceptances, ShapeInv, WorkersFit, LinkFits, Exists
<1>3. Earned(subs, u) = {}
  BY <1>2 DEF Earned
<1>4. QED
  BY <1>3, FS_EmptySet

LEMMA OpenStep ==
    ASSUME ShapeInv, CustodyInv, CreditInv, ExactInv, [Next]_vars, NEW u \in Users
    PROVE  OpenExact(u)'
<1> SUFFICES ASSUME attempts'[u] # Null, attempts'[u].submitted = Null
             PROVE  attempts'[u].score = Cardinality(Earned(subs', u))
  BY DEF OpenExact
<1>0. subs \in Table /\ subs' \in Table
  BY GrowStep
<1>1. ASSUME NEW w \in Workers, CommitVerdict(w)
      PROVE  attempts'[u].score = Cardinality(Earned(subs', u))
  <2> DEFINE row == subs[job[w]]
             k == StoredScore(attempts[u].score, wloaded[w], wscore[w])
  <2>1. wpc[w] = "commit" /\ subs' = Flushed(w)
    BY <1>1 DEF CommitVerdict
  <2>2. CASE Scores(row, verdict[w]) /\ row.user = u
    <3>1. /\ attempts' = [attempts EXCEPT ![u].score = k]
          /\ attempts[u] \in AttemptRow /\ wloaded[w] \in Nat /\ wscore[w] \in Nat
      BY <1>1, <2>2, Scoring DEF CommitVerdict
    <3>2. attempts[u].score \in Nat
      BY <3>1, RowFields
    <3>3. k \in Nat
      BY <3>1, <3>2, StoredScoreType
    <3>4. attempts'[u] = [attempts[u] EXCEPT !.score = k]
      BY <3>1 DEF ShapeInv, TypeOK
    <3> HIDE DEF k
    <3>5. attempts'[u].score = k /\ attempts[u].submitted = Null
      <4>1. /\ [attempts[u] EXCEPT !.score = k].score = k
            /\ [attempts[u] EXCEPT !.score = k].submitted = attempts[u].submitted
        BY <3>1, <3>3, SetScore
      <4>2. QED
        BY <3>4, <4>1
    <3>6. wloaded[w] = attempts[u].score /\ wscore[w] = Cardinality(Earned(Flushed(w), u))
      BY <2>1, <2>2, <3>5 DEF ExactInv, RecountExact
    <3>7. k = wscore[w]
      BY <3>6 DEF k, StoredScore
    <3>8. QED
      BY <2>1, <3>5, <3>6, <3>7
  <2>3. CASE ~(Scores(row, verdict[w]) /\ row.user = u)
    <3>1. attempts'[u] = attempts[u]
      <4>1. CASE ~Scores(row, verdict[w])
        BY <1>1, <4>1 DEF CommitVerdict
      <4>2. CASE Scores(row, verdict[w]) /\ row.user # u
        BY <1>1, <4>2 DEF CommitVerdict, ShapeInv, TypeOK
      <4>3. QED
        BY <2>3, <4>1, <4>2
    <3>2. job[w] \in SubIds /\ row # Null /\ row.status = "running" /\ verdict[w] \in Statuses
      BY <2>1, Deciding
    <3>3. SameCredit(subs, subs', u)
      BY <1>0, <2>1, <2>3, <3>2, UnscoredStatus DEF Flushed
    <3>4. QED
      BY <3>1, <3>3, SameCreditEarns DEF ExactInv, OpenExact
  <2>4. QED
    BY <2>2, <2>3
<1>2. CASE \A w \in Workers : ~CommitVerdict(w)
  <2>1. Earned(subs', u) = Earned(subs, u)
    BY <1>2, QuietCredit, SameCreditEarns
  <2>2. CASE attempts'[u] = attempts[u]
    BY <2>1, <2>2 DEF ExactInv, OpenExact
  <2>3. ASSUME NEW h \in Handlers, InsertAttempt(h), attempts'[u] # attempts[u]
        PROVE  attempts'[u].score = Cardinality(Earned(subs', u))
    <3>1. u = req[h].user /\ attempts'[u] = seen[h] /\ hpc[h] = "insert" /\ attempts[u] = Null
      BY <2>3, SMT DEF InsertAttempt, ShapeInv, TypeOK
    <3>2. Owner(req[h]) = u /\ seen[h] \in AttemptRow
      BY <3>1 DEF ShapeInv, HandlersFit, RequestFits
    <3>3. seen[h].score <= Cardinality(Earned(subs, u)) /\ seen[h].score \in Nat
      BY <3>1, <3>2, CreditFits, RowFields DEF ScoreFits
    <3>4. seen[h].score = 0 /\ Cardinality(Earned(subs, u)) = 0
      BY <3>1, <3>3, NothingEarnedYet, SMT
    <3>5. QED
      BY <2>1, <3>1, <3>4
  <2>4. ASSUME NEW h \in Handlers, CommitClose(h), attempts'[u] # attempts[u]
        PROVE  FALSE
    <3> DEFINE new == ClosedRow(attempts[u], seen[h], loaded[h])
    <3>1. u = Owner(req[h]) /\ attempts'[u] = new
      BY <2>4, Closing, SMT DEF CommitClose, ShapeInv, TypeOK
    <3>2. /\ attempts[u] \in AttemptRow /\ seen[h] \in AttemptRow
          /\ seen[h].submitted # Null /\ loaded[h] \in Nat
      BY <2>4, <3>1, Closing
    <3>3. new.submitted = seen[h].submitted
      BY <3>2, ClosedRowFields
    <3> HIDE DEF new
    <3>4. QED
      BY <3>1, <3>2, <3>3
  <2>5. QED
    BY <1>2, <2>2, <2>3, <2>4, WhoWrites
<1>3. QED
  BY <1>1, <1>2

LEMMA ExactStep ==
    ASSUME OneWorker, ShapeInv, CustodyInv, CreditInv, ExactInv, [Next]_vars
    PROVE  ExactInv'
<1>1. ShapeInv'
  BY ShapeStep
<1>2. ASSUME NEW u \in Users PROVE OpenExact(u)'
  BY OpenStep
<1>3. ASSUME NEW w \in Workers PROVE RecountExact(w)'
  <2>1. RecountExact(w)
    BY DEF ExactInv
  <2>2. CASE \E v \in Workers : WorkerStep(v) \/ Crash(v)
    <3>1. WorkerStep(w) \/ Crash(w)
      BY <2>2 DEF OneWorker
    <3>2. QED
      BY <2>1, <3>1, WorkerExact
  <2>3. CASE ~(\E v \in Workers : WorkerStep(v) \/ Crash(v))
    <3>1. \A v \in Workers : ~CommitVerdict(v) /\ ~StartJudging(v)
      BY <2>3 DEF WorkerStep
    <3>2. UNCHANGED wvars
      BY <2>3 DEF Next, Tick, vars, shared, Arrive, HandlerStep, Refuse, SyncExpired,
         SyncUnchanged, CountScore, CommitClose, Refresh, CreateAttempt, InsertAttempt,
         RejectInsert, Reload, StampFinish, Answer, Done, ResolveLink, CountCases,
         InsertSubmission, Push, Abort, AbortReload
    <3>3. SameJob(w) /\ UNCHANGED <<wloaded, wscore>>
      BY <3>2 DEF wvars, SameJob
    <3>4. QED
      BY <1>1, <2>1, <3>1, <3>3, RequestExact
  <2>4. QED
    BY <2>2, <2>3
<1>4. QED
  BY <1>2, <1>3 DEF ExactInv

-----------------------------------------------------------------------------
(* The theorems *)

\* The four layers and what every answer says hold together: this is the
\* invariant that makes the others inductive.
THEOREM Inductive == Spec => []IndInv
<1>1. Spec => [](ShapeInv /\ CustodyInv)
  BY ShapeAndCustody
<1>2. Init => CreditInv
  BY CreditInit
<1>3. ShapeInv /\ CustodyInv /\ CreditInv /\ [Next]_vars => CreditInv'
  BY CreditStep
<1>4. Spec => []CreditInv
  BY <1>1, <1>2, <1>3, PTL DEF Spec
<1>5. Spec => []LateInv
  BY LateAlways
<1>6. Spec => []AnswersTellTheTruth
  BY TruthfulAnswers
<1>7. ShapeInv /\ CustodyInv /\ CreditInv /\ LateInv /\ AnswersTellTheTruth => IndInv
  BY DEF IndInv
<1>8. QED
  BY <1>1, <1>4, <1>5, <1>6, <1>7, PTL

\* No score ever exceeds the problems solved within the attempt, for any number
\* of overlapping closes, workers, retries and crashes.
THEOREM CreditIsEarned == Spec => []NoPhantomCredit
<1>1. IndInv => NoPhantomCredit
  BY DEF IndInv, CreditInv
<1>2. QED
  BY <1>1, Inductive, PTL

\* With one worker the score of an open attempt is exact at every moment, however
\* many requests overlap and however often the worker dies: nobody but it writes
\* that score, and verdict and recount are one commit.
THEOREM OpenScoreWithOneWorker == OneWorker => (Spec => []OpenScoreExact)
<1> SUFFICES ASSUME OneWorker PROVE Spec => []OpenScoreExact
  OBVIOUS
<1>1. Init => ExactInv
  BY SMT DEF Init, ExactInv, RecountExact, OpenExact
<1>2. ShapeInv /\ CustodyInv /\ CreditInv /\ ExactInv /\ [Next]_vars => ExactInv'
  BY ExactStep
<1>3. IndInv => ShapeInv /\ CustodyInv /\ CreditInv
  BY DEF IndInv
<1>4. ExactInv => OpenScoreExact
  BY DEF ExactInv, OpenExact, OpenScoreExact
<1>5. QED
  BY <1>1, <1>2, <1>3, <1>4, Inductive, PTL DEF Spec

=============================================================================
