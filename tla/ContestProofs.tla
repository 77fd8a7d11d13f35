--------------------------- MODULE ContestProofs ---------------------------
(***************************************************************************)
(* Proofs that Contest keeps its invariants, for every number of users,    *)
(* problems, submissions, overlapping requests and workers, and with any   *)
(* number of failures.  The layers are those of ContestInvariant.  Every   *)
(* submission is in one pair of hands at a time and is found there in the  *)
(* state its holder expects; hence it is judged at most once and its       *)
(* verdict stays: Contest implements SubmissionLifecycle.                  *)
(***************************************************************************)
EXTENDS ContestInvariant, FiniteSetTheorems, SequenceTheorems, TLAPS

-----------------------------------------------------------------------------
(* Rows *)

LEMMA SetSubmitted ==
    ASSUME NEW a \in AttemptRow, NEW t \in Nat \cup {Null}
    PROVE  /\ [a EXCEPT !.submitted = t] \in AttemptRow
           /\ [a EXCEPT !.submitted = t].submitted = t
           /\ [a EXCEPT !.submitted = t].started = a.started
           /\ [a EXCEPT !.submitted = t].expires = a.expires
           /\ [a EXCEPT !.submitted = t].score = a.score
BY SMT DEF AttemptRow

LEMMA SetScore ==
    ASSUME NEW a \in AttemptRow, NEW n \in Nat
    PROVE  /\ [a EXCEPT !.score = n] \in AttemptRow
           /\ [a EXCEPT !.score = n].submitted = a.submitted
           /\ [a EXCEPT !.score = n].started = a.started
           /\ [a EXCEPT !.score = n].expires = a.expires
           /\ [a EXCEPT !.score = n].score = n
BY SMT DEF AttemptRow

LEMMA RowFields ==
    ASSUME NEW a \in AttemptRow
    PROVE  /\ a.started \in Nat /\ a.expires \in Nat
           /\ a.submitted \in Nat \cup {Null} /\ a.score \in Nat
           /\ a # Null
BY NullAssumption, SMT DEF AttemptRow

LEMMA NewAttemptRow ==
    ASSUME NEW t \in Nat
    PROVE  /\ NewAttempt(t) \in AttemptRow
           /\ NewAttempt(t).submitted = Null /\ NewAttempt(t).score = 0
BY ClockAssumption, SMT DEF NewAttempt, AttemptRow

LEMMA StoredScoreType ==
    ASSUME NEW a \in Nat, NEW b \in Nat, NEW c \in Nat
    PROVE  StoredScore(a, b, c) \in {a, c}
BY SMT DEF StoredScore

LEMMA ClosedRowFields ==
    ASSUME NEW a \in AttemptRow, NEW b \in AttemptRow, NEW n \in Nat
    PROVE  /\ ClosedRow(a, b, n) \in AttemptRow
           /\ ClosedRow(a, b, n).submitted = b.submitted
           /\ ClosedRow(a, b, n).started = a.started
           /\ ClosedRow(a, b, n).expires = a.expires
           /\ ClosedRow(a, b, n).score = StoredScore(a.score, n, b.score)
<1> DEFINE x == [a EXCEPT !.submitted = b.submitted]
           y == [x EXCEPT !.score = StoredScore(a.score, n, b.score)]
<1>1. /\ x \in AttemptRow /\ x.submitted = b.submitted /\ x.started = a.started
      /\ x.expires = a.expires /\ x.score = a.score
  BY RowFields, SetSubmitted
<1>2. ClosedRow(a, b, n) = y
  BY <1>1, SMT DEF ClosedRow, AttemptRow
<1>3. StoredScore(a.score, n, b.score) \in Nat
  BY RowFields, SMT DEF StoredScore
<1> HIDE DEF x
<1>4. /\ y \in AttemptRow /\ y.submitted = x.submitted /\ y.started = x.started
      /\ y.expires = x.expires /\ y.score = StoredScore(a.score, n, b.score)
  BY <1>1, <1>3, SetScore
<1> HIDE DEF y
<1> QED
  BY <1>1, <1>2, <1>4

LEMMA SetStatus ==
    ASSUME NEW r \in SubmissionRow, NEW v \in Statuses
    PROVE  /\ [r EXCEPT !.status = v] \in SubmissionRow
           /\ [r EXCEPT !.status = v].status = v
           /\ [r EXCEPT !.status = v].user = r.user
           /\ [r EXCEPT !.status = v].question = r.question
           /\ [r EXCEPT !.status = v].kind = r.kind
           /\ [r EXCEPT !.status = v].linked = r.linked
           /\ [r EXCEPT !.status = v] # Null
<1>1. /\ [r EXCEPT !.status = v] \in SubmissionRow
      /\ [r EXCEPT !.status = v].status = v
      /\ [r EXCEPT !.status = v].user = r.user
      /\ [r EXCEPT !.status = v].question = r.question
      /\ [r EXCEPT !.status = v].kind = r.kind
      /\ [r EXCEPT !.status = v].linked = r.linked
  BY SMT DEF SubmissionRow
<1> QED
  BY <1>1, NullAssumption

LEMMA NewSubmissionRow ==
    ASSUME NEW r \in Requests, r.op = "submit", NEW b \in BOOLEAN,
           NEW row, row = [user |-> r.user, question |-> r.question, kind |-> r.kind,
                           linked |-> b, status |-> "pending"]
    PROVE  /\ row \in SubmissionRow /\ row # Null
           /\ row.user = r.user /\ row.linked = b /\ row.status = "pending"
<1>1. r.user \in Users /\ r.question \in Questions /\ r.kind \in AllKinds
  BY InputsAssumption, SMT DEF Requests
<1>2. row \in SubmissionRow
  BY <1>1, SMT DEF SubmissionRow, Statuses
<1> QED
  BY <1>2, NullAssumption

LEMMA RequestFields ==
    ASSUME NEW r \in Requests
    PROVE  r.user \in Users /\ Owner(r) \in Users /\ r.op \in AllOps
BY InputsAssumption, SMT DEF Requests, Owner, AllOps

LEMMA ScoreIsNat ==
    ASSUME NEW rows, NEW u
    PROVE  CalculateAttemptScore(rows, u) \in Nat
BY QuestionsAssumption, FS_Subset, FS_CardinalityType, Zenon
   DEF CalculateAttemptScore, Solved

-----------------------------------------------------------------------------
(* Frames: what a step leaves as it was *)

\* No attempt is lost, given another start or deadline, or reopened.
AttemptsKept ==
    \A u \in Users : attempts[u] \in AttemptRow =>
        /\ attempts'[u] \in AttemptRow
        /\ attempts'[u].started = attempts[u].started
        /\ attempts'[u].expires = attempts[u].expires
        /\ attempts[u].submitted # Null => attempts'[u].submitted # Null

SameRequest(g) ==
    /\ hpc'[g] = hpc[g] /\ req'[g] = req[g] /\ seen'[g] = seen[g]
    /\ link'[g] = link[g] /\ sub'[g] = sub[g]

LEMMA AttemptsSame == ASSUME attempts' = attempts PROVE AttemptsKept
BY DEF AttemptsKept

\* Everything HandlersFit says of one request.
Fits(g) == IdleFits(g) /\ RequestFits(g) /\ SeenFits(g)

LEMMA FreeFits == ASSUME NEW g, hpc'[g] = "idle", ~link'[g] PROVE Fits(g)'
BY DEF Fits, IdleFits, RequestFits, SeenFits

LEMMA OthersFit ==
    ASSUME ShapeInv, AttemptsKept, NEW g \in Handlers, SameRequest(g)
    PROVE  Fits(g)'
<1> USE DEF SameRequest
<1>1. CASE hpc[g] = "idle"
  BY <1>1, FreeFits DEF ShapeInv, HandlersFit, IdleFits
<1>2. CASE hpc[g] # "idle"
  <2>1. /\ req[g] \in Requests /\ req[g].user \in Users /\ Owner(req[g]) \in Users
        /\ RequestFits(g) /\ SeenFits(g)
    BY <1>2, RequestFields DEF ShapeInv, HandlersFit, RequestFits
  <2>2. RequestFits(g)'
    BY <2>1, SMT DEF RequestFits, AttemptsKept, Owner
  <2>3. SeenFits(g)'
    <3> SUFFICES ASSUME hpc[g] \in {"sync", "count", "commit", "refresh", "resume", "reply"},
                        seen[g] # Null
                 PROVE  SeenFits(g)'
      BY DEF SeenFits
    <3> DEFINE o == Owner(req[g])
    <3>1. /\ o \in Users /\ attempts[o] \in AttemptRow
          /\ seen[g].started = attempts[o].started /\ seen[g].expires = attempts[o].expires
          /\ hpc[g] \notin {"count", "commit"} /\ seen[g].submitted # Null
               => attempts[o].submitted # Null
      BY <2>1 DEF SeenFits
    <3>2. Owner(req'[g]) = o
      OBVIOUS
    <3> HIDE DEF o
    <3>3. QED
      BY <3>1, <3>2, SMT DEF SeenFits, AttemptsKept
  <2>4. QED
    BY <1>2, <2>2, <2>3 DEF Fits, IdleFits
<1>3. QED
  BY <1>1, <1>2

LEMMA WorkersStillFit ==
    ASSUME ShapeInv, AttemptsKept, UNCHANGED <<subs, wvars>>
    PROVE  WorkersFit'
<1>1. ASSUME NEW s \in SubIds PROVE LinkFits(s)'
  <2>1. LinkFits(s) /\ (Exists(s) => subs[s].user \in Users)
    BY SMT DEF ShapeInv, WorkersFit, TypeOK, Exists, SubmissionRow
  <2>2. QED
    BY <2>1 DEF LinkFits, AttemptsKept, Exists
<1>2. ASSUME NEW w \in Workers PROVE JobFits(w)'
  BY DEF ShapeInv, WorkersFit, JobFits, Busy, Exists, wvars
<1>3. QED
  BY <1>1, <1>2 DEF WorkersFit

-----------------------------------------------------------------------------
(* The shape layer: steps of a request *)

LEMMA SyncUnchangedShape ==
    ASSUME ShapeInv, NEW h \in Handlers, SyncUnchanged(h)
    PROVE  ShapeInv'
<1> USE DEF shared, wvars, Goto
<1>0. RequestFits(h) /\ SeenFits(h)
  BY DEF ShapeInv, HandlersFit
<1>1. TypeOK'
  BY SMT DEF ShapeInv, TypeOK, HandlerPCs, SyncUnchanged
<1>2. AttemptsKept
  BY AttemptsSame DEF SyncUnchanged
<1>3. ASSUME NEW g \in Handlers, g # h
      PROVE  Fits(g)'
  <2>1. SameRequest(g)
    BY <1>3, SMT DEF ShapeInv, TypeOK, SameRequest, SyncUnchanged
  <2>2. QED
    BY <1>2, <2>1, OthersFit
<1>4. RequestFits(h)'
  BY <1>0, SMT DEF ShapeInv, TypeOK, RequestFits, SyncUnchanged, Refused, Owner
<1>5. SeenFits(h)' /\ hpc'[h] # "idle"
  BY <1>0, SMT DEF ShapeInv, TypeOK, SeenFits, SyncUnchanged
<1>6. WorkersFit'
  BY <1>2, WorkersStillFit DEF SyncUnchanged
<1>7. QED
  BY <1>1, <1>3, <1>4, <1>5, <1>6 DEF ShapeInv, HandlersFit, Fits, IdleFits

LEMMA SyncExpiredShape ==
    ASSUME ShapeInv, NEW h \in Handlers, SyncExpired(h)
    PROVE  ShapeInv'
<1> USE DEF shared, wvars, Goto
<1>0. RequestFits(h) /\ SeenFits(h)
  BY DEF ShapeInv, HandlersFit
<1>a. /\ seen[h] \in AttemptRow /\ seen[h].expires \in Nat /\ seen[h].expires # Null
      /\ req[h] \in Requests
  BY <1>0, RowFields, NullAssumption, SMT DEF ShapeInv, TypeOK, RunOut, SyncExpired, RequestFits
<1>1. TypeOK'
  BY <1>a, SetSubmitted, SMT DEF ShapeInv, TypeOK, HandlerPCs, SyncExpired
<1>2. AttemptsKept
  BY AttemptsSame DEF SyncExpired
<1>3. ASSUME NEW g \in Handlers, g # h
      PROVE  Fits(g)'
  <2>1. SameRequest(g)
    BY <1>3, SMT DEF ShapeInv, TypeOK, SameRequest, SyncExpired
  <2>2. QED
    BY <1>2, <2>1, OthersFit
<1>4. RequestFits(h)'
  BY <1>0, <1>a, SetSubmitted, RowFields, SMT DEF ShapeInv, TypeOK, RequestFits, SyncExpired, Refused, Owner, SeenFits
<1>5. SeenFits(h)' /\ hpc'[h] # "idle"
  BY <1>0, <1>a, SetSubmitted, RowFields, SMT DEF ShapeInv, TypeOK, SeenFits, SyncExpired
<1>6. WorkersFit'
  BY <1>2, WorkersStillFit DEF SyncExpired
<1>7. QED
  BY <1>1, <1>3, <1>4, <1>5, <1>6 DEF ShapeInv, HandlersFit, Fits, IdleFits

LEMMA CreateAttemptShape ==
    ASSUME ShapeInv, NEW h \in Handlers, CreateAttempt(h)
    PROVE  ShapeInv'
<1> USE DEF shared, wvars, Goto
<1>0. RequestFits(h) /\ SeenFits(h)
  BY DEF ShapeInv, HandlersFit
<1>1. TypeOK'
  BY NewAttemptRow, SMT DEF ShapeInv, TypeOK, HandlerPCs, CreateAttempt
<1>2. AttemptsKept
  BY AttemptsSame DEF CreateAttempt
<1>3. ASSUME NEW g \in Handlers, g # h
      PROVE  Fits(g)'
  <2>1. SameRequest(g)
    BY <1>3, SMT DEF ShapeInv, TypeOK, SameRequest, CreateAttempt
  <2>2. QED
    BY <1>2, <2>1, OthersFit
<1>4. RequestFits(h)'
  BY <1>0, NewAttemptRow, SMT DEF ShapeInv, TypeOK, RequestFits, CreateAttempt, Owner
<1>5. SeenFits(h)' /\ hpc'[h] # "idle"
  BY <1>0, NewAttemptRow, SMT DEF ShapeInv, TypeOK, SeenFits, CreateAttempt
<1>6. WorkersFit'
  BY <1>2, WorkersStillFit DEF CreateAttempt
<1>7. QED
  BY <1>1, <1>3, <1>4, <1>5, <1>6 DEF ShapeInv, HandlersFit, Fits, IdleFits

LEMMA RejectInsertShape ==
    ASSUME ShapeInv, NEW h \in Handlers, RejectInsert(h)
    PROVE  ShapeInv'
<1> USE DEF shared, wvars, Goto
<1>0. RequestFits(h) /\ SeenFits(h)
  BY DEF ShapeInv, HandlersFit
<1>1. TypeOK'
  BY SMT DEF ShapeInv, TypeOK, HandlerPCs, RejectInsert
<1>2. AttemptsKept
  BY AttemptsSame DEF RejectInsert
<1>3. ASSUME NEW g \in Handlers, g # h
      PROVE  Fits(g)'
  <2>1. SameRequest(g)
    BY <1>3, SMT DEF ShapeInv, TypeOK, SameRequest, RejectInsert
  <2>2. QED
    BY <1>2, <2>1, OthersFit
<1>4. RequestFits(h)'
  BY <1>0, SMT DEF ShapeInv, TypeOK, RequestFits, RejectInsert
<1>5. SeenFits(h)' /\ hpc'[h] # "idle"
  BY <1>0, SMT DEF ShapeInv, TypeOK, SeenFits, RejectInsert
<1>6. WorkersFit'
  BY <1>2, WorkersStillFit DEF RejectInsert
<1>7. QED
  BY <1>1, <1>3, <1>4, <1>5, <1>6 DEF ShapeInv, HandlersFit, Fits, IdleFits

LEMMA AnswerShape ==
    ASSUME ShapeInv, NEW h \in Handlers, Answer(h)
    PROVE  ShapeInv'
<1> USE DEF shared, wvars, Goto
<1>0. RequestFits(h) /\ SeenFits(h)
  BY DEF ShapeInv, HandlersFit
<1>1. TypeOK'
  BY SMT DEF ShapeInv, TypeOK, HandlerPCs, Answer
<1>2. AttemptsKept
  BY AttemptsSame DEF Answer
<1>3. ASSUME NEW g \in Handlers, g # h
      PROVE  Fits(g)'
  <2>1. SameRequest(g)
    BY <1>3, SMT DEF ShapeInv, TypeOK, SameRequest, Answer
  <2>2. QED
    BY <1>2, <2>1, OthersFit
<1>4. RequestFits(h)'
  BY <1>0, SMT DEF ShapeInv, TypeOK, RequestFits, Answer
<1>5. SeenFits(h)' /\ hpc'[h] # "idle"
  BY <1>0, SMT DEF ShapeInv, TypeOK, SeenFits, Answer
<1>6. WorkersFit'
  BY <1>2, WorkersStillFit DEF Answer
<1>7. QED
  BY <1>1, <1>3, <1>4, <1>5, <1>6 DEF ShapeInv, HandlersFit, Fits, IdleFits

LEMMA StampFinishShape ==
    ASSUME ShapeInv, NEW h \in Handlers, StampFinish(h)
    PROVE  ShapeInv'
<1> USE DEF shared, wvars, Goto
<1>0. RequestFits(h) /\ SeenFits(h)
  BY DEF ShapeInv, HandlersFit
<1>a. /\ seen[h] \in AttemptRow /\ now \in Nat /\ now # Null
      /\ req[h] \in Requests
  BY <1>0, NullAssumption, SMT DEF ShapeInv, TypeOK, RequestFits, StampFinish
<1>1. TypeOK'
  BY <1>a, SetSubmitted, SMT DEF ShapeInv, TypeOK, HandlerPCs, StampFinish
<1>2. AttemptsKept
  BY AttemptsSame DEF StampFinish
<1>3. ASSUME NEW g \in Handlers, g # h
      PROVE  Fits(g)'
  <2>1. SameRequest(g)
    BY <1>3, SMT DEF ShapeInv, TypeOK, SameRequest, StampFinish
  <2>2. QED
    BY <1>2, <2>1, OthersFit
<1>4. RequestFits(h)'
  BY <1>0, <1>a, SetSubmitted, RowFields, SMT DEF ShapeInv, TypeOK, RequestFits, StampFinish, SeenFits
<1>5. SeenFits(h)' /\ hpc'[h] # "idle"
  BY <1>0, <1>a, SetSubmitted, RowFields, SMT DEF ShapeInv, TypeOK, SeenFits, StampFinish
<1>6. WorkersFit'
  BY <1>2, WorkersStillFit DEF StampFinish
<1>7. QED
  BY <1>1, <1>3, <1>4, <1>5, <1>6 DEF ShapeInv, HandlersFit, Fits, IdleFits

LEMMA RefreshShape ==
    ASSUME ShapeInv, NEW h \in Handlers, Refresh(h)
    PROVE  ShapeInv'
<1> USE DEF shared, wvars, Goto
<1>0. RequestFits(h) /\ SeenFits(h)
  BY DEF ShapeInv, HandlersFit
<1>a. /\ req[h] \in Requests /\ Owner(req[h]) \in Users
      /\ attempts[Owner(req[h])] \in AttemptRow
      /\ attempts[Owner(req[h])].score \in Nat
  BY <1>0, RequestFields, RowFields, SMT DEF RequestFits, Refresh
<1>1. TypeOK'
  BY <1>a, SMT DEF ShapeInv, TypeOK, HandlerPCs, Refresh, Fetch
<1>2. AttemptsKept
  BY AttemptsSame DEF Refresh
<1>3. ASSUME NEW g \in Handlers, g # h
      PROVE  Fits(g)'
  <2>1. SameRequest(g)
    BY <1>3, SMT DEF ShapeInv, TypeOK, SameRequest, Refresh, Fetch
  <2>2. QED
    BY <1>2, <2>1, OthersFit
<1>4. RequestFits(h)'
  BY <1>0, <1>a, RowFields, SMT DEF ShapeInv, TypeOK, RequestFits, Refresh, Fetch
<1>5. SeenFits(h)' /\ hpc'[h] # "idle"
  BY <1>0, <1>a, RowFields, SMT DEF ShapeInv, TypeOK, SeenFits, Refresh, Fetch
<1>6. WorkersFit'
  BY <1>2, WorkersStillFit DEF Refresh
<1>7. QED
  BY <1>1, <1>3, <1>4, <1>5, <1>6 DEF ShapeInv, HandlersFit, Fits, IdleFits

LEMMA InsertAttemptShape ==
    ASSUME ShapeInv, NEW h \in Handlers, InsertAttempt(h)
    PROVE  ShapeInv'
<1> USE DEF shared, wvars, Goto
<1>0. RequestFits(h) /\ SeenFits(h)
  BY DEF ShapeInv, HandlersFit
<1>a. /\ req[h] \in Requests /\ req[h].user \in Users /\ Owner(req[h]) = req[h].user
      /\ seen[h] \in AttemptRow /\ attempts[req[h].user] = Null
  BY <1>0, RequestFields, SMT DEF RequestFits, InsertAttempt
<1>1. TypeOK'
  BY <1>a, SMT DEF ShapeInv, TypeOK, HandlerPCs, InsertAttempt
<1>2. AttemptsKept
  BY <1>a, RowFields, SMT DEF ShapeInv, TypeOK, InsertAttempt, AttemptsKept
<1>3. ASSUME NEW g \in Handlers, g # h
      PROVE  Fits(g)'
  <2>1. SameRequest(g)
    BY <1>3, SMT DEF ShapeInv, TypeOK, SameRequest, InsertAttempt
  <2>2. QED
    BY <1>2, <2>1, OthersFit
<1>4. RequestFits(h)'
  BY <1>0, <1>a, SMT DEF ShapeInv, TypeOK, RequestFits, InsertAttempt
<1>5. SeenFits(h)' /\ hpc'[h] # "idle"
  BY <1>0, <1>a, SMT DEF ShapeInv, TypeOK, SeenFits, InsertAttempt
<1>6. WorkersFit'
  BY <1>2, WorkersStillFit DEF InsertAttempt
<1>7. QED
  BY <1>1, <1>3, <1>4, <1>5, <1>6 DEF ShapeInv, HandlersFit, Fits, IdleFits

LEMMA CountScoreShape ==
    ASSUME ShapeInv, NEW h \in Handlers, CountScore(h)
    PROVE  ShapeInv'
<1> USE DEF shared, wvars, Goto
<1>0. RequestFits(h) /\ SeenFits(h)
  BY DEF ShapeInv, HandlersFit
<1> DEFINE n == CalculateAttemptScore(subs, Owner(req[h]))
<1>a. /\ req[h] \in Requests /\ seen[h] \in AttemptRow /\ n \in Nat
      /\ seen' = [seen EXCEPT ![h].score = n]
  BY <1>0, ScoreIsNat, SMT DEF RequestFits, CountScore
<1> HIDE DEF n
<1>1. TypeOK'
  BY <1>a, SetScore, SMT DEF ShapeInv, TypeOK, HandlerPCs, CountScore
<1>2. AttemptsKept
  BY AttemptsSame DEF CountScore
<1>3. ASSUME NEW g \in Handlers, g # h
      PROVE  Fits(g)'
  <2>1. SameRequest(g)
    BY <1>3, SMT DEF ShapeInv, TypeOK, SameRequest, CountScore
  <2>2. QED
    BY <1>2, <2>1, OthersFit
<1>4. RequestFits(h)'
  BY <1>0, <1>a, SetScore, RowFields, SMT DEF ShapeInv, TypeOK, RequestFits, CountScore
<1>5. SeenFits(h)' /\ hpc'[h] # "idle"
  BY <1>0, <1>a, SetScore, RowFields, SMT DEF ShapeInv, TypeOK, SeenFits, CountScore
<1>6. WorkersFit'
  BY <1>2, WorkersStillFit DEF CountScore
<1>7. QED
  BY <1>1, <1>3, <1>4, <1>5, <1>6 DEF ShapeInv, HandlersFit, Fits, IdleFits

LEMMA ResolveLinkShape ==
    ASSUME ShapeInv, NEW h \in Handlers, ResolveLink(h)
    PROVE  ShapeInv'
<1> USE DEF shared, wvars, Goto
<1>0. RequestFits(h) /\ SeenFits(h)
  BY DEF ShapeInv, HandlersFit
<1>1. TypeOK'
  BY SMT DEF ShapeInv, TypeOK, HandlerPCs, ResolveLink
<1>2. AttemptsKept
  BY AttemptsSame DEF ResolveLink
<1>3. ASSUME NEW g \in Handlers, g # h
      PROVE  Fits(g)'
  <2>1. SameRequest(g)
    BY <1>3, SMT DEF ShapeInv, TypeOK, SameRequest, ResolveLink
  <2>2. QED
    BY <1>2, <2>1, OthersFit
<1>4. RequestFits(h)'
  BY <1>0, SMT DEF ShapeInv, TypeOK, RequestFits, ResolveLink, Owner, AttemptStatus, SeenFits
<1>5. SeenFits(h)' /\ hpc'[h] # "idle"
  BY <1>0, SMT DEF ShapeInv, TypeOK, SeenFits, ResolveLink
<1>6. WorkersFit'
  BY <1>2, WorkersStillFit DEF ResolveLink
<1>7. QED
  BY <1>1, <1>3, <1>4, <1>5, <1>6 DEF ShapeInv, HandlersFit, Fits, IdleFits

LEMMA CommitCloseShape ==
    ASSUME ShapeInv, NEW h \in Handlers, CommitClose(h)
    PROVE  ShapeInv'
<1> USE DEF shared, wvars, Goto
<1>0. RequestFits(h) /\ SeenFits(h)
  BY DEF ShapeInv, HandlersFit
<1>a. /\ req[h] \in Requests /\ Owner(req[h]) \in Users
      /\ Owner(req[h]) = req[h].user /\ seen[h] \in AttemptRow
      /\ attempts[Owner(req[h])] \in AttemptRow /\ seen[h].submitted # Null
      /\ loaded[h] \in Nat
      /\ seen[h].started = attempts[Owner(req[h])].started
      /\ seen[h].expires = attempts[Owner(req[h])].expires
  BY <1>0, RequestFields, RowFields, SMT DEF RequestFits, SeenFits, CommitClose, ShapeInv, TypeOK
<1> DEFINE new == ClosedRow(attempts[Owner(req[h])], seen[h], loaded[h])
<1>b. /\ new \in AttemptRow /\ new.submitted = seen[h].submitted
      /\ new.started = attempts[Owner(req[h])].started
      /\ new.expires = attempts[Owner(req[h])].expires
      /\ attempts' = [attempts EXCEPT ![Owner(req[h])] = new]
  BY <1>a, ClosedRowFields DEF CommitClose
<1> HIDE DEF new
<1>1. TypeOK'
  BY <1>a, <1>b, SMT DEF ShapeInv, TypeOK, HandlerPCs, CommitClose
<1>2. AttemptsKept
  BY <1>a, <1>b, RowFields, SMT DEF ShapeInv, TypeOK, AttemptsKept
<1>3. ASSUME NEW g \in Handlers, g # h
      PROVE  Fits(g)'
  <2>1. SameRequest(g)
    BY <1>3, SMT DEF ShapeInv, TypeOK, SameRequest, CommitClose
  <2>2. QED
    BY <1>2, <2>1, OthersFit
<1>4. RequestFits(h)'
  BY <1>0, <1>a, <1>b, SMT DEF ShapeInv, TypeOK, RequestFits, CommitClose
<1>5. SeenFits(h)' /\ hpc'[h] # "idle"
  BY <1>0, <1>a, <1>b, SMT DEF ShapeInv, TypeOK, SeenFits, CommitClose
<1>6. WorkersFit'
  BY <1>2, WorkersStillFit DEF CommitClose
<1>7. QED
  BY <1>1, <1>3, <1>4, <1>5, <1>6 DEF ShapeInv, HandlersFit, Fits, IdleFits

LEMMA ArriveShape ==
    ASSUME ShapeInv, NEW h \in Handlers, NEW r \in Requests, Arrive(h, r)
    PROVE  ShapeInv'
<1> USE DEF shared, wvars, Goto
<1>0. RequestFits(h) /\ SeenFits(h)
  BY DEF ShapeInv, HandlersFit
<1>a. /\ Owner(r) \in Users /\ attempts[Owner(r)] \in AttemptRow \cup {Null}
      /\ \A a \in AttemptRow : a.score \in Nat
      /\ ~link[h]
  BY RequestFields, RowFields, SMT DEF ShapeInv, TypeOK, HandlersFit, IdleFits, Arrive
<1>1. TypeOK'
  BY <1>a, SMT DEF ShapeInv, TypeOK, HandlerPCs, Arrive, Fetch
<1>2. AttemptsKept
  BY AttemptsSame DEF Arrive
<1>3. ASSUME NEW g \in Handlers, g # h
      PROVE  Fits(g)'
  <2>1. SameRequest(g)
    BY <1>3, SMT DEF ShapeInv, TypeOK, SameRequest, Arrive, Fetch
  <2>2. QED
    BY <1>2, <2>1, OthersFit
<1>4. RequestFits(h)'
  BY <1>0, <1>a, SMT DEF ShapeInv, TypeOK, RequestFits, Arrive, Fetch
<1>5. SeenFits(h)' /\ hpc'[h] # "idle"
  BY <1>0, <1>a, SMT DEF ShapeInv, TypeOK, SeenFits, Arrive, Fetch
<1>6. WorkersFit'
  BY <1>2, WorkersStillFit DEF Arrive
<1>7. QED
  BY <1>1, <1>3, <1>4, <1>5, <1>6 DEF ShapeInv, HandlersFit, Fits, IdleFits

LEMMA InsertSubmissionShape ==
    ASSUME ShapeInv, NEW h \in Handlers, NEW s \in SubIds, InsertSubmission(h, s)
    PROVE  ShapeInv'
<1> USE DEF shared, wvars, Goto
<1>0. RequestFits(h) /\ SeenFits(h)
  BY DEF ShapeInv, HandlersFit
<1>a. /\ req[h] \in Requests /\ req[h].op = "submit" /\ ~(hpc[h] = "idle")
  BY <1>0, SMT DEF RequestFits, InsertSubmission
<1> DEFINE row == [user |-> req[h].user, question |-> req[h].question,
                   kind |-> req[h].kind, linked |-> link[h], status |-> "pending"]
<1>b. /\ row \in SubmissionRow /\ row.user = req[h].user /\ row.linked = link[h]
      /\ row # Null
      /\ subs' = [subs EXCEPT ![s] = row]
  BY <1>a, NewSubmissionRow DEF InsertSubmission, ShapeInv, TypeOK
<1> HIDE DEF row
<1>1. TypeOK'
  BY <1>b, SMT DEF ShapeInv, TypeOK, HandlerPCs, InsertSubmission
<1>2. AttemptsKept
  BY AttemptsSame DEF InsertSubmission
<1>3. ASSUME NEW g \in Handlers, g # h
      PROVE  Fits(g)'
  <2>1. SameRequest(g)
    BY <1>3, SMT DEF ShapeInv, TypeOK, SameRequest, InsertSubmission
  <2>2. QED
    BY <1>2, <2>1, OthersFit
<1>4. RequestFits(h)'
  BY <1>0, <1>a, SMT DEF ShapeInv, TypeOK, RequestFits, InsertSubmission
<1>5. SeenFits(h)' /\ hpc'[h] # "idle"
  BY <1>0, SMT DEF ShapeInv, TypeOK, SeenFits, InsertSubmission
<1>6. WorkersFit'
  <2>1. ASSUME NEW t \in SubIds PROVE LinkFits(t)'
    BY <1>0, <1>a, <1>b, SMT DEF ShapeInv, TypeOK, WorkersFit, LinkFits, Exists, RequestFits, InsertSubmission
  <2>2. ASSUME NEW w \in Workers PROVE JobFits(w)'
    BY <1>b, SMT DEF ShapeInv, TypeOK, WorkersFit, JobFits, Busy, Exists, InsertSubmission
  <2>3. QED
    BY <2>1, <2>2 DEF WorkersFit
<1>7. QED
  BY <1>1, <1>3, <1>4, <1>5, <1>6 DEF ShapeInv, HandlersFit, Fits, IdleFits

LEMMA LeaveShape ==
    ASSUME ShapeInv, NEW h \in Handlers, Leave(h),
           UNCHANGED <<now, attempts, subs, wvars>>,
           queue' \in Seq(SubIds), faults' \in Nat
    PROVE  ShapeInv'
<1> USE DEF wvars, Goto
<1>1. TypeOK'
  BY SMT DEF ShapeInv, TypeOK, HandlerPCs, Leave
<1>2. AttemptsKept
  BY AttemptsSame
<1>3. ASSUME NEW g \in Handlers, g # h
      PROVE  Fits(g)'
  <2>1. SameRequest(g)
    BY <1>3, SMT DEF ShapeInv, TypeOK, SameRequest, Leave
  <2>2. QED
    BY <1>2, <2>1, OthersFit
<1>4. Fits(h)'
  BY FreeFits, SMT DEF ShapeInv, TypeOK, Leave
<1>5. WorkersFit'
  BY <1>2, WorkersStillFit
<1>6. QED
  BY <1>1, <1>3, <1>4, <1>5 DEF ShapeInv, HandlersFit, Fits

LEMMA EndShape ==
    ASSUME ShapeInv, NEW h \in Handlers,
           Refuse(h) \/ Done(h) \/ Push(h) \/ Abort(h) \/ AbortReload(h)
    PROVE  ShapeInv'
<1>1. Leave(h) /\ UNCHANGED <<now, attempts, subs, wvars>>
  BY DEF Refuse, Done, Push, Abort, AbortReload, shared, wvars
<1>2. faults' \in Nat
  BY SMT DEF Refuse, Done, Push, Abort, AbortReload, shared, ShapeInv, TypeOK
<1>3. queue' \in Seq(SubIds)
  <2>1. CASE Push(h)
    <3>1. sub[h] \in SubIds
      BY <2>1, SMT DEF Push, ShapeInv, HandlersFit, RequestFits
    <3>2. QED
      BY <2>1, <3>1, SMT DEF Push, ShapeInv, TypeOK
  <2>2. CASE ~Push(h)
    BY <2>2 DEF Refuse, Done, Abort, AbortReload, shared, ShapeInv, TypeOK
  <2>3. QED
    BY <2>1, <2>2
<1>4. QED
  BY <1>1, <1>2, <1>3, LeaveShape

LEMMA ReloadShape ==
    ASSUME ShapeInv, NEW h \in Handlers, Reload(h)
    PROVE  ShapeInv'
<1> USE DEF shared, wvars, Goto
<1>1. CASE attempts[req[h].user] = Null
  <2>1. Leave(h) /\ UNCHANGED <<now, attempts, subs, wvars>>
    BY <1>1 DEF Reload
  <2>2. queue' \in Seq(SubIds) /\ faults' \in Nat
    BY DEF Reload, ShapeInv, TypeOK
  <2>3. QED
    BY <2>1, <2>2, LeaveShape
<1>2. CASE attempts[req[h].user] # Null
  <2>0. /\ RequestFits(h) /\ req[h] \in Requests /\ req[h].user \in Users
        /\ Owner(req[h]) = req[h].user
        /\ attempts[req[h].user] \in AttemptRow /\ attempts[req[h].user].score \in Nat
        /\ hpc[h] = "reload" /\ hpc' = [hpc EXCEPT ![h] = "sync"]
        /\ Fetch(h, req[h].user)
        /\ UNCHANGED <<req, link, sub, late, shared>>
    BY <1>2, RequestFields, RowFields, SMT
       DEF ShapeInv, TypeOK, HandlersFit, RequestFits, Reload
  <2>1. TypeOK'
    BY <2>0, SMT DEF ShapeInv, TypeOK, HandlerPCs, Fetch
  <2>2. AttemptsKept
    BY <2>0, AttemptsSame
  <2>3. ASSUME NEW g \in Handlers, g # h
        PROVE  Fits(g)'
    <3>1. SameRequest(g)
      BY <2>0, <2>3, SMT DEF ShapeInv, TypeOK, SameRequest, Fetch
    <3>2. QED
      BY <2>2, <3>1, OthersFit
  <2>4. RequestFits(h)'
    BY <2>0, SMT DEF ShapeInv, TypeOK, RequestFits
  <2>5. SeenFits(h)' /\ hpc'[h] # "idle"
    BY <2>0, SMT DEF ShapeInv, TypeOK, SeenFits, Fetch
  <2>6. WorkersFit'
    BY <2>0, <2>2, WorkersStillFit
  <2>7. QED
    BY <2>1, <2>3, <2>4, <2>5, <2>6 DEF ShapeInv, HandlersFit, Fits, IdleFits
<1>3. QED
  BY <1>1, <1>2

LEMMA CountCasesShape ==
    ASSUME ShapeInv, NEW h \in Handlers, CountCases(h)
    PROVE  ShapeInv'
<1> USE DEF shared, wvars, Goto
<1>1. CASE ~Judgeable(req[h])
  <2>1. Leave(h) /\ UNCHANGED <<now, attempts, subs, wvars>>
    BY <1>1 DEF CountCases
  <2>2. queue' \in Seq(SubIds) /\ faults' \in Nat
    BY DEF CountCases, ShapeInv, TypeOK
  <2>3. QED
    BY <2>1, <2>2, LeaveShape
<1>2. CASE Judgeable(req[h])
  <2>0. /\ RequestFits(h)
        /\ hpc[h] = "cases" /\ hpc' = [hpc EXCEPT ![h] = "add"]
        /\ UNCHANGED <<req, seen, loaded, link, sub, late, shared>>
    BY <1>2 DEF ShapeInv, HandlersFit, CountCases
  <2>1. TypeOK'
    BY <2>0, SMT DEF ShapeInv, TypeOK, HandlerPCs
  <2>2. AttemptsKept
    BY <2>0, AttemptsSame
  <2>3. ASSUME NEW g \in Handlers, g # h
        PROVE  Fits(g)'
    <3>1. SameRequest(g)
      BY <2>0, <2>3, SMT DEF ShapeInv, TypeOK, SameRequest
    <3>2. QED
      BY <2>2, <3>1, OthersFit
  <2>4. Fits(h)'
    BY <2>0, SMT DEF ShapeInv, TypeOK, Fits, IdleFits, RequestFits, SeenFits
  <2>5. WorkersFit'
    BY <2>0, <2>2, WorkersStillFit
  <2>6. QED
    BY <2>1, <2>3, <2>4, <2>5 DEF ShapeInv, HandlersFit, Fits
<1>3. QED
  BY <1>1, <1>2

-----------------------------------------------------------------------------
(* The shape layer: steps of a worker *)

LEMMA HandlersStillFit ==
    ASSUME ShapeInv, AttemptsKept, UNCHANGED hvars
    PROVE  HandlersFit'
<1>1. ASSUME NEW g \in Handlers PROVE Fits(g)'
  <2>1. SameRequest(g)
    BY DEF SameRequest, hvars
  <2>2. QED
    BY <2>1, OthersFit
<1>2. QED
  BY <1>1 DEF HandlersFit, Fits

\* No submission appears, disappears or changes anything but its status.
RowsKept ==
    \A s \in SubIds :
        /\ Exists(s) <=> Exists(s)'
        /\ Exists(s) => /\ subs'[s].user = subs[s].user
                        /\ subs'[s].question = subs[s].question
                        /\ subs'[s].kind = subs[s].kind
                        /\ subs'[s].linked = subs[s].linked

SameJob(v) == wpc'[v] = wpc[v] /\ job'[v] = job[v] /\ verdict'[v] = verdict[v]

LEMMA RowsSame == ASSUME subs' = subs PROVE RowsKept
BY DEF RowsKept, Exists

LEMMA StatusSet ==
    ASSUME TypeOK, NEW s \in SubIds, Exists(s), NEW v \in Statuses,
           subs' = [subs EXCEPT ![s].status = v]
    PROVE  subs' \in [SubIds -> SubmissionRow \cup {Null}] /\ RowsKept
<1> DEFINE row == [subs[s] EXCEPT !.status = v]
<1>1. /\ row \in SubmissionRow /\ row # Null /\ row.user = subs[s].user
      /\ row.question = subs[s].question
      /\ row.kind = subs[s].kind /\ row.linked = subs[s].linked
      /\ subs' = [subs EXCEPT ![s] = row]
  BY SetStatus DEF TypeOK, Exists
<1> HIDE DEF row
<1>0. subs \in [SubIds -> SubmissionRow \cup {Null}]
  BY DEF TypeOK
<1>2. subs' \in [SubIds -> SubmissionRow \cup {Null}]
  BY <1>0, <1>1
<1>3. subs'[s] = row /\ \A t \in SubIds \ {s} : subs'[t] = subs[t]
  BY <1>1, SMT DEF TypeOK
<1>4. RowsKept
  BY <1>1, <1>3 DEF RowsKept, Exists
<1>5. QED
  BY <1>2, <1>4

LEMMA LinksStillFit ==
    ASSUME ShapeInv, AttemptsKept, RowsKept, NEW s \in SubIds
    PROVE  LinkFits(s)'
<1>1. LinkFits(s) /\ (Exists(s) => subs[s].user \in Users)
  BY SMT DEF ShapeInv, WorkersFit, TypeOK, Exists, SubmissionRow
<1>2. QED
  BY <1>1, SMT DEF LinkFits, AttemptsKept, RowsKept

LEMMA OtherJobsFit ==
    ASSUME ShapeInv, RowsKept, NEW v \in Workers, SameJob(v)
    PROVE  JobFits(v)'
<1>1. JobFits(v) /\ (wpc[v] \in {"judge", "load", "count", "commit"} => job[v] \in SubIds)
  BY SMT DEF ShapeInv, WorkersFit, JobFits, Busy
<1>2. QED
  BY <1>1, SMT DEF JobFits, Busy, RowsKept, SameJob, Scores

LEMMA DropShape ==
    ASSUME ShapeInv, NEW w \in Workers, NEW pc \in {"pop", "down"}, Drop(w, pc),
           AttemptsKept, RowsKept, UNCHANGED <<now, queue, hvars>>, faults' \in Nat,
           attempts' \in [Users -> AttemptRow \cup {Null}],
           subs' \in [SubIds -> SubmissionRow \cup {Null}]
    PROVE  ShapeInv'
<1> USE DEF Drop, WGoto
<1>1. TypeOK'
  BY SMT DEF ShapeInv, TypeOK, WorkerPCs, hvars
<1>2. HandlersFit'
  BY HandlersStillFit
<1>3. ASSUME NEW v \in Workers, v # w PROVE JobFits(v)'
  <2>1. SameJob(v)
    BY <1>3, SMT DEF ShapeInv, TypeOK, SameJob
  <2>2. QED
    BY <2>1, OtherJobsFit
<1>4. JobFits(w)'
  BY SMT DEF ShapeInv, TypeOK, JobFits, Busy
<1>5. QED
  BY <1>1, <1>2, <1>3, <1>4, LinksStillFit DEF ShapeInv, WorkersFit

LEMMA PopJobShape ==
    ASSUME ShapeInv, NEW w \in Workers, PopJob(w)
    PROVE  ShapeInv'
<1> USE DEF WGoto
<1>1. Head(queue) \in SubIds /\ Tail(queue) \in Seq(SubIds)
  BY SMT DEF ShapeInv, TypeOK, PopJob
<1>2. TypeOK'
  BY <1>1, SMT DEF ShapeInv, TypeOK, WorkerPCs, PopJob, hvars
<1>3. AttemptsKept /\ RowsKept
  BY AttemptsSame, RowsSame DEF PopJob
<1>4. HandlersFit'
  BY <1>3, HandlersStillFit DEF PopJob
<1>5. ASSUME NEW v \in Workers, v # w PROVE JobFits(v)'
  <2>1. SameJob(v)
    BY <1>5, SMT DEF ShapeInv, TypeOK, SameJob, PopJob
  <2>2. QED
    BY <1>3, <2>1, OtherJobsFit
<1>6. JobFits(w)'
  BY <1>1, SMT DEF ShapeInv, TypeOK, JobFits, Busy, PopJob
<1>7. QED
  BY <1>2, <1>3, <1>4, <1>5, <1>6, LinksStillFit DEF ShapeInv, WorkersFit

LEMMA StartJudgingShape ==
    ASSUME ShapeInv, NEW w \in Workers, StartJudging(w)
    PROVE  ShapeInv'
<1> USE DEF WGoto
<1>1. job[w] \in SubIds
  BY SMT DEF ShapeInv, WorkersFit, JobFits, Busy, StartJudging
<1>2. AttemptsKept
  BY AttemptsSame DEF StartJudging
<1>3. CASE subs[job[w]] = Null
  <2>1. Drop(w, "pop") /\ subs' = subs
    BY <1>3 DEF StartJudging
  <2>2. /\ faults' \in Nat /\ attempts' \in [Users -> AttemptRow \cup {Null}]
        /\ subs' \in [SubIds -> SubmissionRow \cup {Null}]
    BY <2>1 DEF StartJudging, ShapeInv, TypeOK
  <2>3. QED
    BY <1>2, <2>1, <2>2, RowsSame, DropShape DEF StartJudging
<1>4. CASE subs[job[w]] # Null
  <2>1. /\ wpc[w] = "start" /\ wpc' = [wpc EXCEPT ![w] = "judge"]
        /\ subs' = [subs EXCEPT ![job[w]].status = "running"]
        /\ UNCHANGED <<job, verdict, wloaded, wscore>>
    BY <1>4 DEF StartJudging
  <2>2. subs' \in [SubIds -> SubmissionRow \cup {Null}] /\ RowsKept
    BY <1>1, <1>4, <2>1, StatusSet DEF Statuses, Exists, ShapeInv
  <2>3. TypeOK'
    BY <2>1, <2>2, SMT DEF ShapeInv, TypeOK, WorkerPCs, StartJudging, hvars
  <2>4. HandlersFit'
    BY <1>2, HandlersStillFit DEF StartJudging
  <2>5. ASSUME NEW v \in Workers, v # w PROVE JobFits(v)'
    <3>1. SameJob(v)
      BY <2>1, <2>5, SMT DEF ShapeInv, TypeOK, SameJob
    <3>2. QED
      BY <2>2, <3>1, OtherJobsFit
  <2>6. Exists(job[w]) /\ Exists(job[w])'
    BY <1>1, <1>4, <2>1, <2>2 DEF RowsKept, Exists
  <2>7. JobFits(w)'
    BY <1>1, <2>1, <2>6, SMT DEF ShapeInv, TypeOK, JobFits, Busy, Exists
  <2>8. QED
    BY <1>2, <2>2, <2>3, <2>4, <2>5, <2>7, LinksStillFit DEF ShapeInv, WorkersFit
<1>5. QED
  BY <1>3, <1>4

\* The three steps of a worker between RUNNING and the verdict.
LEMMA JudgingShape ==
    ASSUME ShapeInv, NEW w \in Workers,
           (\E v \in Verdicts : Judge(w, v)) \/ LoadForScore(w) \/ Recount(w)
    PROVE  ShapeInv'
<1> USE DEF WGoto
<1>1. /\ wpc[w] \in {"judge", "load", "count"} /\ JobFits(w)
      /\ UNCHANGED <<now, attempts, subs, queue, hvars, job, faults>>
  BY SMT DEF Judge, LoadForScore, Recount, ShapeInv, WorkersFit
<1>2. job[w] \in SubIds /\ Exists(job[w]) /\ subs[job[w]] \in SubmissionRow
  BY <1>1, SMT DEF JobFits, Busy, Exists, ShapeInv, TypeOK
<1>3. AttemptsKept /\ RowsKept
  BY <1>1, AttemptsSame, RowsSame
<1>4. HandlersFit'
  BY <1>1, <1>3, HandlersStillFit
<1>5. ASSUME NEW v \in Workers, v # w PROVE SameJob(v)
  BY <1>5, SMT DEF ShapeInv, TypeOK, SameJob, Judge, LoadForScore, Recount
<1>6. ASSUME NEW v \in Verdicts, Judge(w, v) PROVE TypeOK' /\ JobFits(w)'
  <2>1. TypeOK'
    BY <1>1, <1>6, SMT DEF ShapeInv, TypeOK, WorkerPCs, Judge, hvars
  <2>2. JobFits(w)'
    BY <1>1, <1>2, <1>6, SMT DEF ShapeInv, TypeOK, JobFits, Busy, Exists, Judge
  <2>3. QED
    BY <2>1, <2>2
<1>7. ASSUME LoadForScore(w) PROVE TypeOK' /\ JobFits(w)'
  <2>1. LinkFits(job[w]) /\ subs[job[w]].linked /\ subs[job[w]].user \in Users
    BY <1>1, <1>2, <1>7, SMT
       DEF ShapeInv, WorkersFit, JobFits, Scores, LoadForScore, SubmissionRow
  <2>2. attempts[subs[job[w]].user].score \in Nat
    BY <1>2, <2>1, RowFields DEF LinkFits
  <2>3. TypeOK'
    BY <1>1, <1>7, <2>2, SMT DEF ShapeInv, TypeOK, WorkerPCs, LoadForScore, hvars
  <2>4. JobFits(w)'
    BY <1>1, <1>2, <1>7, SMT DEF ShapeInv, TypeOK, JobFits, Busy, Exists, LoadForScore
  <2>5. QED
    BY <2>3, <2>4
<1>8. ASSUME Recount(w) PROVE TypeOK' /\ JobFits(w)'
  <2> DEFINE n == CalculateAttemptScore(Flushed(w), subs[job[w]].user)
  <2>1. n \in Nat /\ wscore' = [wscore EXCEPT ![w] = n]
    BY <1>8, ScoreIsNat DEF Recount
  <2> HIDE DEF n
  <2>2. TypeOK'
    BY <1>1, <1>8, <2>1, SMT DEF ShapeInv, TypeOK, WorkerPCs, Recount, hvars
  <2>3. JobFits(w)'
    BY <1>1, <1>2, <1>8, SMT DEF ShapeInv, TypeOK, JobFits, Busy, Exists, Recount
  <2>4. QED
    BY <2>2, <2>3
<1>9. QED
  BY <1>3, <1>4, <1>5, <1>6, <1>7, <1>8, LinksStillFit, OtherJobsFit
     DEF ShapeInv, WorkersFit

LEMMA CommitVerdictShape ==
    ASSUME ShapeInv, NEW w \in Workers, CommitVerdict(w)
    PROVE  ShapeInv'
<1> DEFINE row == subs[job[w]]
<1>0. job[w] \in SubIds /\ Exists(job[w]) /\ verdict[w] \in Verdicts
  BY SMT DEF ShapeInv, WorkersFit, JobFits, Busy, CommitVerdict
<1>1. /\ job[w] \in SubIds /\ Exists(job[w]) /\ row \in SubmissionRow
      /\ verdict[w] \in Statuses /\ row.user \in Users
  BY <1>0, InputsAssumption, SMT
     DEF ShapeInv, TypeOK, Exists, Statuses, SubmissionRow
<1>2. subs' \in [SubIds -> SubmissionRow \cup {Null}] /\ RowsKept
  BY <1>1, StatusSet DEF CommitVerdict, Flushed, ShapeInv
<1>3. attempts' \in [Users -> AttemptRow \cup {Null}] /\ AttemptsKept
  <2>1. CASE Scores(row, verdict[w])
    <3> DEFINE n == StoredScore(attempts[row.user].score, wloaded[w], wscore[w])
    <3>1. attempts[row.user] \in AttemptRow
      BY <1>1, <2>1 DEF ShapeInv, WorkersFit, LinkFits, Scores
    <3>2. n \in Nat
      BY <3>1, RowFields, SMT DEF StoredScore, ShapeInv, TypeOK
    <3>3. attempts' = [attempts EXCEPT ![row.user] = [attempts[row.user] EXCEPT !.score = n]]
      BY <2>1, SMT DEF CommitVerdict
    <3> HIDE DEF n, row
    <3>4. QED
      BY <1>1, <3>1, <3>2, <3>3, SetScore, SMT DEF ShapeInv, TypeOK, AttemptsKept
  <2>2. CASE ~Scores(row, verdict[w])
    BY <2>2, AttemptsSame DEF CommitVerdict, ShapeInv, TypeOK
  <2>3. QED
    BY <2>1, <2>2
<1>4. Drop(w, "pop") /\ UNCHANGED <<now, queue, hvars>> /\ faults' \in Nat
  BY DEF CommitVerdict, ShapeInv, TypeOK
<1>5. QED
  BY <1>2, <1>3, <1>4, DropShape

LEMMA DownShape ==
    ASSUME ShapeInv, NEW w \in Workers, Crash(w) \/ Restart(w)
    PROVE  ShapeInv'
<1>1. /\ Drop(w, "pop") \/ Drop(w, "down")
      /\ UNCHANGED <<now, attempts, subs, queue, hvars>>
  BY DEF Crash, Restart
<1>2. faults' \in Nat
  BY SMT DEF Crash, Restart, ShapeInv, TypeOK
<1>3. /\ attempts' \in [Users -> AttemptRow \cup {Null}]
      /\ subs' \in [SubIds -> SubmissionRow \cup {Null}]
  BY <1>1 DEF ShapeInv, TypeOK
<1>4. AttemptsKept /\ RowsKept
  BY <1>1, AttemptsSame, RowsSame
<1>5. QED
  BY <1>1, <1>2, <1>3, <1>4, DropShape

-----------------------------------------------------------------------------
(* The shape layer: all steps *)

LEMMA TickShape ==
    ASSUME ShapeInv, Tick
    PROVE  ShapeInv'
<1>1. TypeOK'
  BY SMT DEF ShapeInv, TypeOK, Tick, hvars, wvars
<1>2. HandlersFit'
  BY DEF ShapeInv, HandlersFit, IdleFits, RequestFits, SeenFits, Tick, hvars
<1>3. WorkersFit'
  BY DEF ShapeInv, WorkersFit, LinkFits, JobFits, Busy, Exists, Tick, wvars
<1>4. QED
  BY <1>1, <1>2, <1>3 DEF ShapeInv

LEMMA ShapeInit == Init => ShapeInv
<1> SUFFICES ASSUME Init PROVE ShapeInv
  OBVIOUS
<1>1. TypeOK
  BY SMT DEF Init, TypeOK, HandlerPCs, WorkerPCs
<1>2. HandlersFit
  BY SMT DEF Init, HandlersFit, IdleFits, RequestFits, SeenFits
<1>3. WorkersFit
  BY SMT DEF Init, WorkersFit, LinkFits, JobFits, Busy, Exists
<1>4. QED
  BY <1>1, <1>2, <1>3 DEF ShapeInv

LEMMA ShapeStep == ShapeInv /\ [Next]_vars => ShapeInv'
<1> SUFFICES ASSUME ShapeInv, [Next]_vars PROVE ShapeInv'
  OBVIOUS
<1>1. CASE UNCHANGED vars
  <2>1. TypeOK'
    BY <1>1 DEF ShapeInv, TypeOK, vars, hvars, wvars
  <2>2. HandlersFit'
    BY <1>1 DEF ShapeInv, HandlersFit, IdleFits, RequestFits, SeenFits, vars, hvars, wvars
  <2>3. WorkersFit'
    BY <1>1 DEF ShapeInv, WorkersFit, LinkFits, JobFits, Busy, Exists, vars, hvars, wvars
  <2>4. QED
    BY <2>1, <2>2, <2>3 DEF ShapeInv
<1>2. CASE Tick
  BY <1>2, TickShape
<1>3. ASSUME NEW h \in Handlers, NEW r \in Requests, Arrive(h, r) PROVE ShapeInv'
  BY <1>3, ArriveShape
<1>4. ASSUME NEW h \in Handlers, HandlerStep(h) PROVE ShapeInv'
  BY <1>4, EndShape, SyncExpiredShape, SyncUnchangedShape, CountScoreShape,
     CommitCloseShape, RefreshShape, CreateAttemptShape, InsertAttemptShape,
     RejectInsertShape, ReloadShape, StampFinishShape, AnswerShape,
     ResolveLinkShape, CountCasesShape, InsertSubmissionShape DEF HandlerStep
<1>5. ASSUME NEW h \in Handlers, Abort(h) \/ AbortReload(h) PROVE ShapeInv'
  BY <1>5, EndShape
<1>6. ASSUME NEW w \in Workers, WorkerStep(w) \/ Crash(w) PROVE ShapeInv'
  BY <1>6, PopJobShape, StartJudgingShape, JudgingShape, CommitVerdictShape, DownShape
     DEF WorkerStep
<1>7. QED
  BY <1>1, <1>2, <1>3, <1>4, <1>5, <1>6 DEF Next

\* Every variable keeps to its type, whatever interleaves with whatever.
THEOREM TypeCorrect == Spec => []TypeOK
<1>1. Spec => []ShapeInv
  BY ShapeInit, ShapeStep, PTL DEF Spec
<1>2. ShapeInv => TypeOK
  BY DEF ShapeInv
<1>3. QED
  BY <1>1, <1>2, PTL

-----------------------------------------------------------------------------
(* Custody *)

\* No request gets to its push by this step.
NoNewPush == \A g \in Handlers : \A s \in SubIds : Pushing(g, s)' => Pushing(g, s)

LEMMA BusyJob ==
    ASSUME ShapeInv, NEW w \in Workers, Busy(w)
    PROVE  job[w] \in SubIds
BY DEF ShapeInv, WorkersFit, JobFits

\* A step that touches neither queue, rows nor workers keeps custody.
LEMMA QuietCustody ==
    ASSUME ShapeInv, CustodyInv, NoNewPush, UNCHANGED <<queue, subs, wpc, job>>
    PROVE  CustodyInv'
<1>1. \A w \in Workers : Busy(w)' <=> Busy(w)
  BY DEF Busy
<1>2. \A s \in SubIds : /\ Queued(s)' <=> Queued(s)
                        /\ Exists(s)' <=> Exists(s)
  BY DEF Queued, Exists
<1>3. \A i \in 1..Len(queue) : queue[i] \in SubIds
  BY DEF ShapeInv, TypeOK
<1>4. SingleCustody'
  BY <1>1, <1>2, BusyJob DEF CustodyInv, SingleCustody, NoNewPush
<1>5. HeldAsExpected'
  BY <1>1, <1>2, <1>3, BusyJob DEF CustodyInv, HeldAsExpected, NoNewPush
<1>6. QED
  BY <1>4, <1>5 DEF CustodyInv

LEMMA RequestCustody ==
    ASSUME ShapeInv, CustodyInv, NEW h \in Handlers,
           \/ \E r \in Requests : Arrive(h, r)
           \/ Refuse(h) \/ SyncExpired(h) \/ SyncUnchanged(h) \/ CountScore(h)
           \/ CommitClose(h) \/ Refresh(h) \/ CreateAttempt(h) \/ InsertAttempt(h)
           \/ RejectInsert(h) \/ Reload(h) \/ StampFinish(h) \/ Answer(h) \/ Done(h)
           \/ ResolveLink(h) \/ CountCases(h) \/ Abort(h) \/ AbortReload(h)
    PROVE  CustodyInv'
<1> USE DEF shared, wvars, Goto
<1>1. UNCHANGED <<queue, subs, wpc, job>>
  BY DEF Arrive, Refuse, SyncExpired, SyncUnchanged, CountScore, CommitClose, Refresh,
         CreateAttempt, InsertAttempt, RejectInsert, Reload, StampFinish, Answer, Done,
         ResolveLink, CountCases, Abort, AbortReload
<1>2. \E pc \in HandlerPCs \ {"push"} : hpc' = [hpc EXCEPT ![h] = pc]
  BY DEF Arrive, Refuse, SyncExpired, SyncUnchanged, CountScore, CommitClose, Refresh,
         CreateAttempt, InsertAttempt, RejectInsert, Reload, StampFinish, Answer, Done,
         ResolveLink, CountCases, Abort, AbortReload, Leave, HandlerPCs
<1>3. \A g \in Handlers \ {h} : sub'[g] = sub[g]
  BY SMT DEF Arrive, Refuse, SyncExpired, SyncUnchanged, CountScore, CommitClose, Refresh,
         CreateAttempt, InsertAttempt, RejectInsert, Reload, StampFinish, Answer, Done,
         ResolveLink, CountCases, Abort, AbortReload, Leave, ShapeInv, TypeOK
<1>4. NoNewPush
  BY <1>2, <1>3, SMT DEF NoNewPush, Pushing, ShapeInv, TypeOK
<1>5. QED
  BY <1>1, <1>4, QuietCustody

LEMMA InsertCustody ==
    ASSUME ShapeInv, CustodyInv, NEW h \in Handlers, NEW s \in SubIds, InsertSubmission(h, s)
    PROVE  CustodyInv'
<1> USE DEF shared, wvars, Goto
<1> DEFINE row == [user |-> req[h].user, question |-> req[h].question,
                   kind |-> req[h].kind, linked |-> link[h], status |-> "pending"]
<1>1. row \in SubmissionRow /\ row # Null /\ row.status = "pending"
  <2>1. req[h] \in Requests /\ req[h].op = "submit" /\ link[h] \in BOOLEAN
    BY SMT DEF ShapeInv, TypeOK, HandlersFit, RequestFits, InsertSubmission
  <2>2. QED
    BY <2>1, NewSubmissionRow
<1>2. /\ subs[s] = Null /\ subs'[s] = row /\ \A t \in SubIds \ {s} : subs'[t] = subs[t]
      /\ UNCHANGED <<queue, wpc, job>>
  BY DEF InsertSubmission, ShapeInv, TypeOK
<1> HIDE DEF row
<1>3. \A g \in Handlers, t \in SubIds :
         Pushing(g, t)' <=> (IF g = h THEN t = s ELSE Pushing(g, t))
  BY SMT DEF InsertSubmission, Pushing, ShapeInv, TypeOK
<1>4. \A i \in 1..Len(queue) : queue[i] \in SubIds
  BY DEF ShapeInv, TypeOK
<1>5. /\ ~Queued(s)
      /\ \A g \in Handlers : ~Pushing(g, s)
      /\ \A w \in Workers : Busy(w) => job[w] # s
  BY <1>2 DEF CustodyInv, HeldAsExpected, Exists, Queued
<1>6. /\ \A w \in Workers : Busy(w)' <=> Busy(w)
      /\ \A t \in SubIds : Queued(t)' <=> Queued(t)
      /\ \A t \in SubIds \ {s} : Exists(t)' <=> Exists(t)
      /\ Exists(s)'
  BY <1>1, <1>2 DEF Busy, Queued, Exists
<1>7. SingleCustody'
  BY <1>2, <1>3, <1>5, <1>6, BusyJob, SMT DEF CustodyInv, SingleCustody
<1>8. HeldAsExpected'
  <2>1. \A i \in 1..Len(queue)' :
           Exists(queue[i])' /\ subs'[queue'[i]].status = "pending"
    BY <1>2, <1>4, <1>5, <1>6 DEF CustodyInv, HeldAsExpected, Queued
  <2>2. \A g \in Handlers : \A t \in SubIds :
           Pushing(g, t)' => Exists(t)' /\ subs'[t].status = "pending"
    BY <1>1, <1>2, <1>3, <1>5, <1>6 DEF CustodyInv, HeldAsExpected
  <2>3. \A w \in Workers : Busy(w)' =>
           /\ Exists(job[w])'
           /\ subs'[job'[w]].status = IF wpc'[w] = "start" THEN "pending" ELSE "running"
    BY <1>2, <1>5, <1>6, BusyJob DEF CustodyInv, HeldAsExpected
  <2>4. QED
    BY <2>1, <2>2, <2>3 DEF HeldAsExpected
<1>9. QED
  BY <1>7, <1>8 DEF CustodyInv

\* The id moves from its request to the end of the list.
LEMMA PushCustody ==
    ASSUME ShapeInv, CustodyInv, NEW h \in Handlers, Push(h)
    PROVE  CustodyInv'
<1> USE DEF shared, wvars, Goto
<1> DEFINE s == sub[h]
<1>1. s \in SubIds /\ queue \in Seq(SubIds) /\ Pushing(h, s)
  BY SMT DEF ShapeInv, TypeOK, HandlersFit, RequestFits, Push, Pushing
<1>2. ~Queued(s) /\ Exists(s) /\ subs[s].status = "pending"
  BY <1>1 DEF CustodyInv, SingleCustody, HeldAsExpected
<1>3. /\ Len(queue') = Len(queue) + 1 /\ queue'[Len(queue) + 1] = s
      /\ \A i \in 1..Len(queue) : queue'[i] = queue[i]
  BY <1>1, SMT DEF Push
<1>4. UNCHANGED <<subs, wpc, job>>
  BY DEF Push
<1>5. \A g \in Handlers, t \in SubIds : Pushing(g, t)' <=> g # h /\ Pushing(g, t)
  BY SMT DEF Push, Leave, Pushing, ShapeInv, TypeOK
<1> HIDE DEF s
<1>6. Len(queue) \in Nat /\ \A i \in 1..Len(queue) : queue[i] \in SubIds
  BY <1>1, LenProperties, SMT
<1>7. \A t \in SubIds : Queued(t)' <=> Queued(t) \/ t = s
  BY <1>3, <1>6, SMT DEF Queued
<1>8. /\ \A w \in Workers : Busy(w)' <=> Busy(w)
      /\ \A t \in SubIds : Exists(t)' <=> Exists(t)
  BY <1>4 DEF Busy, Exists
<1>9. SingleCustody'
  <2>1. \A i, j \in 1..Len(queue') : queue'[i] = queue'[j] => i = j
    <3> SUFFICES ASSUME NEW i \in 1..Len(queue'), NEW j \in 1..Len(queue'),
                        queue'[i] = queue'[j]
                 PROVE  i = j
      OBVIOUS
    <3>1. CASE i \in 1..Len(queue) /\ j \in 1..Len(queue)
      BY <1>3, <3>1 DEF CustodyInv, SingleCustody
    <3>2. CASE i = Len(queue) + 1 /\ j = Len(queue) + 1
      BY <3>2
    <3>3. CASE i = Len(queue) + 1 /\ j \in 1..Len(queue)
      BY <1>2, <1>3, <3>3 DEF Queued
    <3>4. CASE i \in 1..Len(queue) /\ j = Len(queue) + 1
      BY <1>2, <1>3, <3>4 DEF Queued
    <3>5. QED
      BY <1>3, <1>6, <3>1, <3>2, <3>3, <3>4, SMT
  <2>2. \A f, g \in Handlers : \A t \in SubIds :
           Pushing(f, t)' => ~Queued(t)' /\ (Pushing(g, t)' => f = g)
    BY <1>1, <1>5, <1>7 DEF CustodyInv, SingleCustody
  <2>3. ASSUME NEW w \in Workers, Busy(w)'
        PROVE  /\ ~Queued(job[w])'
               /\ \A f \in Handlers : ~Pushing(f, job[w])'
               /\ \A v \in Workers : Busy(v)' /\ job'[v] = job'[w] => v = w
    BY <1>1, <1>4, <1>5, <1>7, <1>8, <2>3, BusyJob DEF CustodyInv, SingleCustody
  <2>4. QED
    BY <2>1, <2>2, <2>3 DEF SingleCustody
<1>10. HeldAsExpected'
  <2>1. \A i \in 1..Len(queue') : Exists(queue[i])' /\ subs'[queue'[i]].status = "pending"
    <3> SUFFICES ASSUME NEW i \in 1..Len(queue')
                 PROVE  Exists(queue[i])' /\ subs'[queue'[i]].status = "pending"
      OBVIOUS
    <3>1. CASE i \in 1..Len(queue)
      BY <1>3, <1>4, <3>1 DEF CustodyInv, HeldAsExpected, Exists
    <3>2. CASE i = Len(queue) + 1
      BY <1>2, <1>3, <1>4, <3>2 DEF Exists
    <3>3. QED
      BY <1>3, <1>6, <3>1, <3>2, SMT
  <2>2. \A g \in Handlers : \A t \in SubIds :
           Pushing(g, t)' => Exists(t)' /\ subs'[t].status = "pending"
    BY <1>4, <1>5, <1>8 DEF CustodyInv, HeldAsExpected
  <2>3. \A w \in Workers : Busy(w)' =>
           /\ Exists(job[w])'
           /\ subs'[job'[w]].status = IF wpc'[w] = "start" THEN "pending" ELSE "running"
    BY <1>4, <1>8, BusyJob DEF CustodyInv, HeldAsExpected
  <2>4. QED
    BY <2>1, <2>2, <2>3 DEF HeldAsExpected
<1>11. QED
  BY <1>9, <1>10 DEF CustodyInv

\* The oldest id moves from the list to the worker that popped it.
LEMMA PopCustody ==
    ASSUME ShapeInv, CustodyInv, NEW w \in Workers, PopJob(w)
    PROVE  CustodyInv'
<1> USE DEF WGoto
<1>1. queue \in Seq(SubIds) /\ queue # <<>>
  BY DEF ShapeInv, TypeOK, PopJob
<1>0. PICK s \in SubIds : s = Head(queue)
  BY <1>1, HeadTailProperties
<1>2. /\ s \in SubIds /\ s = queue[1] /\ Len(queue) \in Nat \ {0}
      /\ Len(queue') = Len(queue) - 1
      /\ \A i \in 1..Len(queue') : queue'[i] = queue[i + 1] /\ i + 1 \in 1..Len(queue)
      /\ \A i \in 1..Len(queue) : queue[i] \in SubIds
      /\ \A i \in 2..Len(queue) : i - 1 \in 1..Len(queue') /\ queue[i] = queue'[i - 1]
  BY <1>0, <1>1, HeadTailProperties, LenProperties, EmptySeq, SMT DEF PopJob
<1>3. UNCHANGED <<subs, hpc, sub>> /\ wpc[w] = "pop"
  BY DEF PopJob, hvars
<1>4. /\ wpc' = [wpc EXCEPT ![w] = "start"] /\ job' = [job EXCEPT ![w] = s]
      /\ wpc \in [Workers -> WorkerPCs] /\ job \in [Workers -> SubIds \cup {Null}]
  BY <1>0 DEF PopJob, ShapeInv, TypeOK
<1>5. /\ wpc'[w] = "start" /\ job'[w] = s /\ Busy(w)' /\ ~Busy(w)
      /\ \A v \in Workers \ {w} : wpc'[v] = wpc[v] /\ job'[v] = job[v] /\ (Busy(v)' <=> Busy(v))
  BY <1>3, <1>4, SMT DEF Busy
<1>6. /\ \A g \in Handlers, t \in SubIds : Pushing(g, t)' <=> Pushing(g, t)
      /\ \A t \in SubIds : Exists(t)' <=> Exists(t)
  BY <1>3 DEF Pushing, Exists
<1>7. Queued(s) /\ Exists(s) /\ subs[s].status = "pending"
  BY <1>2, SMT DEF Queued, CustodyInv, HeldAsExpected
<1>8. \A t \in SubIds : Queued(t)' <=> Queued(t) /\ t # s
  <2>1. ASSUME NEW t \in SubIds, Queued(t)' PROVE Queued(t) /\ t # s
    <3>1. PICK i \in 1..Len(queue') : queue'[i] = t
      BY <2>1 DEF Queued
    <3>2. i + 1 \in 1..Len(queue) /\ queue[i + 1] = t /\ i + 1 # 1
      BY <1>2, <3>1, SMT
    <3>3. QED
      BY <1>2, <3>2, SMT DEF Queued, CustodyInv, SingleCustody
  <2>2. ASSUME NEW t \in SubIds, Queued(t), t # s PROVE Queued(t)'
    <3>1. PICK i \in 1..Len(queue) : queue[i] = t
      BY <2>2 DEF Queued
    <3>2. i \in 2..Len(queue)
      BY <1>2, <2>2, <3>1, SMT
    <3>3. QED
      BY <1>2, <3>1, <3>2 DEF Queued
  <2>3. QED
    BY <2>1, <2>2
<1>9. SingleCustody'
  <2>1. \A i, j \in 1..Len(queue') : queue'[i] = queue'[j] => i = j
    BY <1>2, SMT DEF CustodyInv, SingleCustody
  <2>2. \A f, g \in Handlers : \A t \in SubIds :
           Pushing(f, t)' => ~Queued(t)' /\ (Pushing(g, t)' => f = g)
    BY <1>6, <1>8 DEF CustodyInv, SingleCustody
  <2>3. ASSUME NEW v \in Workers, Busy(v)'
        PROVE  /\ ~Queued(job[v])'
               /\ \A f \in Handlers : ~Pushing(f, job[v])'
               /\ \A u \in Workers : Busy(u)' /\ job'[u] = job'[v] => u = v
    <3>1. CASE v = w
      <4>1. ~Queued(s)'
        BY <1>2, <1>8
      <4>2. \A f \in Handlers : ~Pushing(f, s)'
        BY <1>2, <1>6, <1>7 DEF CustodyInv, SingleCustody
      <4>3. \A u \in Workers : Busy(u) => job[u] # s
        BY <1>7 DEF CustodyInv, SingleCustody
      <4>4. ~Queued(job[v])' /\ \A f \in Handlers : ~Pushing(f, job[v])'
        BY <1>5, <3>1, <4>1, <4>2 DEF Queued, Pushing
      <4>5. QED
        BY <1>5, <3>1, <4>3, <4>4
    <3>2. CASE v # w
      <4>1. Busy(v) /\ job'[v] = job[v] /\ job[v] \in SubIds
        BY <1>5, <2>3, <3>2, BusyJob
      <4>2. ~Queued(job[v]) /\ job[v] # s
        BY <1>7, <4>1 DEF CustodyInv, SingleCustody
      <4>3. ~Queued(job[v])' /\ \A f \in Handlers : ~Pushing(f, job[v])'
        <5>1. \A i \in 1..Len(queue') : queue'[i] # job[v]
          BY <1>8, <4>1, <4>2 DEF Queued
        <5>2. \A f \in Handlers : ~(hpc'[f] = "push" /\ sub'[f] = job[v])
          BY <1>3, <4>1 DEF Pushing, CustodyInv, SingleCustody
        <5>3. QED
          BY <4>1, <5>1, <5>2 DEF Queued, Pushing
      <4>4. QED
        BY <1>5, <3>2, <4>1, <4>2, <4>3 DEF CustodyInv, SingleCustody
    <3>3. QED
      BY <3>1, <3>2
  <2>4. QED
    BY <2>1, <2>2, <2>3 DEF SingleCustody
<1>10. HeldAsExpected'
  <2>1. \A i \in 1..Len(queue') : Exists(queue[i])' /\ subs'[queue'[i]].status = "pending"
    BY <1>2, <1>3 DEF CustodyInv, HeldAsExpected, Exists
  <2>2. \A g \in Handlers : \A t \in SubIds :
           Pushing(g, t)' => Exists(t)' /\ subs'[t].status = "pending"
    BY <1>3, <1>6 DEF CustodyInv, HeldAsExpected
  <2>3. \A v \in Workers : Busy(v)' =>
           /\ Exists(job[v])'
           /\ subs'[job'[v]].status = IF wpc'[v] = "start" THEN "pending" ELSE "running"
    BY <1>3, <1>5, <1>7 DEF CustodyInv, HeldAsExpected, Exists
  <2>4. QED
    BY <2>1, <2>2, <2>3 DEF HeldAsExpected
<1>11. QED
  BY <1>9, <1>10 DEF CustodyInv

\* A worker goes on with, or lets go of, the job it has, and touches only the
\* row of that job.
LEMMA WorkerCustody ==
    ASSUME ShapeInv, CustodyInv, NEW w \in Workers, UNCHANGED <<queue, hpc, sub>>,
           \A v \in Workers \ {w} : wpc'[v] = wpc[v] /\ job'[v] = job[v],
           \A t \in SubIds : subs'[t] = subs[t] \/ (Busy(w) /\ t = job[w]),
           Busy(w)' => /\ Busy(w) /\ job'[w] = job[w]
                       /\ Exists(job[w])'
                       /\ subs'[job'[w]].status =
                             IF wpc'[w] = "start" THEN "pending" ELSE "running"
    PROVE  CustodyInv'
<1>1. /\ \A v \in Workers : Busy(v)' => Busy(v) /\ job'[v] = job[v] /\ job[v] \in SubIds
      /\ \A v \in Workers \ {w} : Busy(v)' <=> Busy(v)
  BY BusyJob DEF Busy
<1>2. /\ \A t \in SubIds : Queued(t)' <=> Queued(t)
      /\ \A g \in Handlers, t \in SubIds : Pushing(g, t)' <=> Pushing(g, t)
  BY DEF Queued, Pushing
<1>3. \A i \in 1..Len(queue) : queue[i] \in SubIds
  BY DEF ShapeInv, TypeOK
<1>4. SingleCustody'
  <2>1. \A i, j \in 1..Len(queue') : queue'[i] = queue'[j] => i = j
    BY DEF CustodyInv, SingleCustody
  <2>2. \A f, g \in Handlers : \A t \in SubIds :
           Pushing(f, t)' => ~Queued(t)' /\ (Pushing(g, t)' => f = g)
    BY <1>2 DEF CustodyInv, SingleCustody
  <2>3. ASSUME NEW v \in Workers, Busy(v)'
        PROVE  /\ ~Queued(job[v])'
               /\ \A f \in Handlers : ~Pushing(f, job[v])'
               /\ \A u \in Workers : Busy(u)' /\ job'[u] = job'[v] => u = v
    <3>1. Busy(v) /\ job'[v] = job[v] /\ job[v] \in SubIds
      BY <1>1, <2>3
    <3>2. ~Queued(job[v])' /\ \A f \in Handlers : ~Pushing(f, job[v])'
      BY <3>1 DEF CustodyInv, SingleCustody, Queued, Pushing
    <3>3. QED
      BY <1>1, <3>1, <3>2 DEF CustodyInv, SingleCustody
  <2>4. QED
    BY <2>1, <2>2, <2>3 DEF SingleCustody
<1>5. HeldAsExpected'
  <2>1. \A t \in SubIds : (Queued(t) \/ \E g \in Handlers : Pushing(g, t))
                          => subs'[t] = subs[t]
    BY DEF CustodyInv, SingleCustody
  <2>2. \A i \in 1..Len(queue') : Exists(queue[i])' /\ subs'[queue'[i]].status = "pending"
    BY <1>3, <2>1 DEF CustodyInv, HeldAsExpected, Queued, Exists
  <2>3. \A g \in Handlers : \A t \in SubIds :
           Pushing(g, t)' => Exists(t)' /\ subs'[t].status = "pending"
    BY <1>2, <2>1 DEF CustodyInv, HeldAsExpected, Exists
  <2>4. ASSUME NEW v \in Workers, Busy(v)'
        PROVE  /\ Exists(job[v])'
               /\ subs'[job'[v]].status = IF wpc'[v] = "start" THEN "pending" ELSE "running"
    <3>1. CASE v = w
      BY <2>4, <3>1 DEF Exists
    <3>2. CASE v # w
      <4>1. Busy(v) /\ job'[v] = job[v] /\ job[v] \in SubIds /\ wpc'[v] = wpc[v]
        BY <1>1, <2>4, <3>2
      <4>2. subs'[job[v]] = subs[job[v]]
        BY <3>2, <4>1 DEF CustodyInv, SingleCustody
      <4>3. QED
        BY <4>1, <4>2 DEF CustodyInv, HeldAsExpected, Exists
    <3>3. QED
      BY <3>1, <3>2
  <2>5. QED
    BY <2>2, <2>3, <2>4 DEF HeldAsExpected
<1>6. QED
  BY <1>4, <1>5 DEF CustodyInv

LEMMA StartCustody ==
    ASSUME ShapeInv, CustodyInv, NEW w \in Workers, StartJudging(w)
    PROVE  CustodyInv'
<1> USE DEF WGoto
<1>1. /\ Busy(w) /\ job[w] \in SubIds /\ subs[job[w]] # Null
      /\ UNCHANGED <<queue, hpc, sub>>
  BY BusyJob, SMT DEF Busy, StartJudging, CustodyInv, HeldAsExpected, Exists, hvars
<1>2. /\ wpc' = [wpc EXCEPT ![w] = "judge"] /\ UNCHANGED job
      /\ subs' = [subs EXCEPT ![job[w]].status = "running"]
  BY <1>1 DEF StartJudging
<1>3. /\ Exists(job[w]) /\ subs[job[w]] \in SubmissionRow
      /\ subs \in [SubIds -> SubmissionRow \cup {Null}]
  BY <1>1 DEF ShapeInv, TypeOK, Exists
<1> DEFINE row == [subs[job[w]] EXCEPT !.status = "running"]
<1>4. row.status = "running" /\ row # Null
  BY <1>3, SetStatus DEF Statuses
<1>5. subs'[job[w]] = row /\ \A t \in SubIds \ {job[w]} : subs'[t] = subs[t]
  BY <1>1, <1>2, <1>3
<1> HIDE DEF row
<1>6. /\ wpc'[w] = "judge" /\ job'[w] = job[w]
      /\ \A v \in Workers \ {w} : wpc'[v] = wpc[v] /\ job'[v] = job[v]
  BY <1>2 DEF ShapeInv, TypeOK
<1>7. Exists(job[w])'
  BY <1>4, <1>5, <1>6 DEF Exists
<1>8. subs'[job'[w]].status = IF wpc'[w] = "start" THEN "pending" ELSE "running"
  BY <1>4, <1>5, <1>6
<1>9. QED
  BY <1>1, <1>5, <1>6, <1>7, <1>8, WorkerCustody

LEMMA JudgingCustody ==
    ASSUME ShapeInv, CustodyInv, NEW w \in Workers,
           (\E v \in Verdicts : Judge(w, v)) \/ LoadForScore(w) \/ Recount(w)
    PROVE  CustodyInv'
<1> USE DEF WGoto
<1>1. /\ wpc[w] \in {"judge", "load", "count"}
      /\ UNCHANGED <<queue, hpc, sub, subs, job>>
      /\ \E pc \in {"load", "count", "commit"} : wpc' = [wpc EXCEPT ![w] = pc]
  BY DEF Judge, LoadForScore, Recount, hvars
<1>2. /\ wpc'[w] \in {"load", "count", "commit"} /\ job'[w] = job[w]
      /\ \A v \in Workers \ {w} : wpc'[v] = wpc[v] /\ job'[v] = job[v]
  BY <1>1, SMT DEF ShapeInv, TypeOK
<1>3. Busy(w)
  BY <1>1 DEF Busy
<1>4. Exists(job[w])' /\ subs'[job'[w]].status = "running"
  BY <1>1, <1>2, <1>3 DEF CustodyInv, HeldAsExpected, Exists
<1>5. QED
  BY <1>1, <1>2, <1>3, <1>4, WorkerCustody

LEMMA LetGoCustody ==
    ASSUME ShapeInv, CustodyInv, NEW w \in Workers,
           CommitVerdict(w) \/ Crash(w) \/ Restart(w)
    PROVE  CustodyInv'
<1> USE DEF WGoto, Drop
<1>1. /\ UNCHANGED <<queue, hpc, sub>>
      /\ \E pc \in {"pop", "down"} : wpc' = [wpc EXCEPT ![w] = pc]
      /\ job' = [job EXCEPT ![w] = Null]
  BY DEF CommitVerdict, Crash, Restart, hvars
<1>2. /\ wpc'[w] \in {"pop", "down"}
      /\ \A v \in Workers \ {w} : wpc'[v] = wpc[v] /\ job'[v] = job[v]
  BY <1>1, SMT DEF ShapeInv, TypeOK
<1>3. ~Busy(w)'
  BY <1>2 DEF Busy
<1>4. \A t \in SubIds : subs'[t] = subs[t] \/ (Busy(w) /\ t = job[w])
  <2>1. CASE CommitVerdict(w)
    BY <2>1, SMT DEF CommitVerdict, Flushed, Busy, ShapeInv, TypeOK
  <2>2. CASE Crash(w) \/ Restart(w)
    BY <2>2 DEF Crash, Restart
  <2>3. QED
    BY <2>1, <2>2
<1>5. QED
  BY <1>1, <1>2, <1>3, <1>4, WorkerCustody

LEMMA CustodyInit == Init => CustodyInv
BY SMT DEF Init, CustodyInv, SingleCustody, HeldAsExpected, Pushing, Busy, Queued

LEMMA CustodyStep == ShapeInv /\ CustodyInv /\ [Next]_vars => CustodyInv'
<1> SUFFICES ASSUME ShapeInv, CustodyInv, [Next]_vars PROVE CustodyInv'
  OBVIOUS
<1>1. CASE UNCHANGED vars \/ Tick
  <2>1. UNCHANGED <<queue, subs, wpc, job, hpc, sub>>
    BY <1>1 DEF vars, Tick, hvars, wvars
  <2>2. NoNewPush
    BY <2>1 DEF NoNewPush, Pushing
  <2>3. QED
    BY <2>1, <2>2, QuietCustody
<1>2. ASSUME NEW h \in Handlers, NEW r \in Requests, Arrive(h, r) PROVE CustodyInv'
  BY <1>2, RequestCustody
<1>3. ASSUME NEW h \in Handlers, HandlerStep(h) PROVE CustodyInv'
  BY <1>3, RequestCustody, InsertCustody, PushCustody DEF HandlerStep
<1>4. ASSUME NEW h \in Handlers, Abort(h) \/ AbortReload(h) PROVE CustodyInv'
  BY <1>4, RequestCustody
<1>5. ASSUME NEW w \in Workers, WorkerStep(w) \/ Crash(w) PROVE CustodyInv'
  BY <1>5, PopCustody, StartCustody, JudgingCustody, LetGoCustody DEF WorkerStep
<1>6. QED
  BY <1>1, <1>2, <1>3, <1>4, <1>5 DEF Next

\* The layers so far, together inductive.
LEMMA ShapeAndCustody == Spec => [](ShapeInv /\ CustodyInv)
<1>1. Init => ShapeInv /\ CustodyInv
  BY ShapeInit, CustodyInit
<1>2. (ShapeInv /\ CustodyInv) /\ [Next]_vars => (ShapeInv /\ CustodyInv)'
  BY ShapeStep, CustodyStep
<1>3. QED
  BY <1>1, <1>2, PTL DEF Spec

\* A submission is never in two places: not twice in the Redis list, not both
\* queued and being judged, not with two workers.
THEOREM OneHolder == Spec => []SingleCustody
<1>1. ShapeInv /\ CustodyInv => SingleCustody
  BY DEF CustodyInv
<1>2. QED
  BY <1>1, ShapeAndCustody, PTL

\* Whatever a worker pops has its row committed and still pending, and the row
\* it is judging is running (the comment at main.py:368).
THEOREM PersistedBeforeQueued == Spec => []HeldAsExpected
<1>1. ShapeInv /\ CustodyInv => HeldAsExpected
  BY DEF CustodyInv
<1>2. QED
  BY <1>1, ShapeAndCustody, PTL

-----------------------------------------------------------------------------
(* Refinement *)

\* What a client sees of a submission: the refinement mapping of Lifecycle.
Seen == [s \in SubIds |-> IF subs[s] = Null THEN "absent" ELSE subs[s].status]

\* A row whose status is set maps to a status that is set.
LEMMA SeenSet ==
    ASSUME TypeOK, NEW s \in SubIds, Exists(s), NEW v \in Statuses,
           subs' = [subs EXCEPT ![s].status = v]
    PROVE  Seen' = [Seen EXCEPT ![s] = v]
<1> DEFINE row == [subs[s] EXCEPT !.status = v]
<1>0. subs[s] \in SubmissionRow
  BY DEF TypeOK, Exists
<1>1. row # Null /\ row.status = v
  BY <1>0, SetStatus
<1>2. subs'[s] = row /\ \A t \in SubIds \ {s} : subs'[t] = subs[t]
  BY DEF TypeOK
<1> HIDE DEF row
<1>3. \A t \in SubIds : Seen'[t] = IF t = s THEN v ELSE Seen[t]
  BY <1>1, <1>2 DEF Seen
<1>4. /\ Seen \in [SubIds -> Statuses \cup {"absent"}]
      /\ Seen' \in [SubIds -> Statuses \cup {"absent"}]
  <2>1. Seen = [t \in SubIds |-> Seen[t]] /\ Seen' = [t \in SubIds |-> Seen'[t]]
    BY DEF Seen
  <2>2. \A t \in SubIds : Seen[t] \in Statuses \cup {"absent"}
    BY SMT DEF Seen, TypeOK, SubmissionRow
  <2>3. \A t \in SubIds : Seen'[t] \in Statuses \cup {"absent"}
    BY <1>3, <2>2
  <2>4. QED
    BY <2>1, <2>2, <2>3
<1>5. QED
  BY <1>3, <1>4

LEMMA LifecycleStep ==
    ShapeInv /\ CustodyInv /\ [Next]_vars => [Lifecycle!LifecycleNext]_Seen
<1> SUFFICES ASSUME ShapeInv, CustodyInv, [Next]_vars
             PROVE  [Lifecycle!LifecycleNext]_Seen
  OBVIOUS
<1> USE DEF shared, hvars, wvars
<1>1. CASE subs' = subs
  BY <1>1 DEF Seen
<1>2. ASSUME NEW h \in Handlers, NEW s \in SubIds, InsertSubmission(h, s)
      PROVE  Lifecycle!Submit(s)
  <2> DEFINE row == [user |-> req[h].user, question |-> req[h].question,
                     kind |-> req[h].kind, linked |-> link[h], status |-> "pending"]
  <2>1. req[h] \in Requests /\ req[h].op = "submit" /\ link[h] \in BOOLEAN
    BY <1>2, SMT DEF ShapeInv, TypeOK, HandlersFit, RequestFits, InsertSubmission
  <2>2. row # Null /\ row.status = "pending"
    BY <2>1, NewSubmissionRow
  <2>3. /\ subs[s] = Null /\ subs'[s] = row
        /\ \A t \in SubIds \ {s} : subs'[t] = subs[t]
    BY <1>2 DEF InsertSubmission, ShapeInv, TypeOK
  <2> HIDE DEF row
  <2>4. Seen[s] = "absent" /\ Seen' = [Seen EXCEPT ![s] = "pending"]
    BY <2>2, <2>3 DEF Seen
  <2>5. QED
    BY <2>4 DEF Seen, Lifecycle!Submit
<1>3. ASSUME NEW w \in Workers, StartJudging(w), subs' # subs
      PROVE  \E s \in SubIds : Lifecycle!TakeUp(s)
  <2>1. PICK s \in SubIds : s = job[w]
    BY <1>3, BusyJob, SMT DEF Busy, StartJudging
  <2>2. /\ Exists(s) /\ subs[s].status = "pending"
        /\ subs' = [subs EXCEPT ![s].status = "running"]
    BY <1>3, <2>1, SMT DEF Busy, StartJudging, CustodyInv, HeldAsExpected
  <2>3. Seen' = [Seen EXCEPT ![s] = "running"]
    BY <2>2, SeenSet DEF Statuses, ShapeInv
  <2>4. QED
    BY <2>2, <2>3 DEF Seen, Exists, Lifecycle!TakeUp
<1>4. ASSUME NEW w \in Workers, CommitVerdict(w)
      PROVE  \E s \in SubIds : \E v \in Verdicts : Lifecycle!Decide(s, v)
  <2>1. wpc[w] = "commit" /\ Busy(w)
    BY <1>4 DEF CommitVerdict, Busy
  <2>2. PICK s \in SubIds, v \in Verdicts : s = job[w] /\ v = verdict[w]
    BY <2>1, BusyJob, SMT DEF ShapeInv, WorkersFit, JobFits
  <2>3. /\ Exists(s) /\ subs[s].status = "running"
        /\ subs' = [subs EXCEPT ![s].status = v]
    BY <1>4, <2>1, <2>2, SMT DEF CommitVerdict, Flushed, CustodyInv, HeldAsExpected
  <2>4. v \in Statuses
    BY InputsAssumption DEF Statuses
  <2>5. Seen' = [Seen EXCEPT ![s] = v]
    BY <2>3, <2>4, SeenSet DEF ShapeInv
  <2>6. QED
    BY <2>3, <2>5 DEF Seen, Exists, Lifecycle!Decide
<1>5. ASSUME NEW h \in Handlers, \A s \in SubIds : ~InsertSubmission(h, s),
             \/ \E r \in Requests : Arrive(h, r)
             \/ HandlerStep(h) \/ Abort(h) \/ AbortReload(h)
      PROVE  subs' = subs
  BY <1>5 DEF HandlerStep, Arrive, Refuse, SyncExpired, SyncUnchanged, CountScore,
              CommitClose, Refresh, CreateAttempt, InsertAttempt, RejectInsert, Reload,
              StampFinish, Answer, Done, ResolveLink, CountCases, Push, Abort, AbortReload
<1>6. ASSUME NEW w \in Workers, WorkerStep(w) \/ Crash(w), ~StartJudging(w),
             ~CommitVerdict(w)
      PROVE  subs' = subs
  BY <1>6 DEF WorkerStep, PopJob, Judge, LoadForScore, Recount, Restart, Crash
<1>7. CASE UNCHANGED vars \/ Tick
  BY <1>1, <1>7 DEF vars, Tick
<1>8. ASSUME NEW h \in Handlers,
             \/ \E r \in Requests : Arrive(h, r)
             \/ HandlerStep(h) \/ Abort(h) \/ AbortReload(h)
      PROVE  [Lifecycle!LifecycleNext]_Seen
  BY <1>1, <1>2, <1>5, <1>8 DEF Lifecycle!LifecycleNext
<1>9. ASSUME NEW w \in Workers, WorkerStep(w) \/ Crash(w)
      PROVE  [Lifecycle!LifecycleNext]_Seen
  <2>1. CASE StartJudging(w) /\ subs' # subs
    BY <1>3, <2>1 DEF Lifecycle!LifecycleNext
  <2>2. CASE CommitVerdict(w)
    BY <1>4, <2>2 DEF Lifecycle!LifecycleNext
  <2>3. CASE ~StartJudging(w) /\ ~CommitVerdict(w)
    BY <1>1, <1>6, <1>9, <2>3
  <2>4. QED
    BY <1>1, <2>1, <2>2, <2>3
<1>10. QED
  BY <1>7, <1>8, <1>9 DEF Next

\* A submission is judged at most once and its verdict is never replaced,
\* however requests, workers, restarts and failures interleave.
THEOREM Implementation == Spec => ImplementsLifecycle
<1>1. Init => Lifecycle!LifecycleInit
  BY DEF Init, Lifecycle!LifecycleInit
<1>2. ShapeInv /\ CustodyInv /\ [Next]_vars => [Lifecycle!LifecycleNext]_Seen
  BY LifecycleStep
<1>3. QED
  BY <1>1, <1>2, ShapeAndCustody, PTL
     DEF Spec, ImplementsLifecycle, Lifecycle!LifecycleSpec, Seen

=============================================================================
