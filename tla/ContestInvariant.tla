-------------------------- MODULE ContestInvariant --------------------------
(***************************************************************************)
(* The inductive invariant of Contest, in the layers ContestProofs proves  *)
(* one after the other.  TLC checks the whole of it in MCContest.          *)
(***************************************************************************)
EXTENDS Contest

\* A free slot carries no link into its next request.
IdleFits(h) == hpc[h] = "idle" => ~link[h]

\* What a request that is under way relies on: its row exists, a row about to
\* be written is closed, and a link points to an attempt.
RequestFits(h) == hpc[h] # "idle" =>
    /\ req[h] \in Requests
    /\ hpc[h] # "sync" => Owner(req[h]) = req[h].user
    /\ hpc[h] \in {"count", "commit", "insert", "reply"} => seen[h] \in AttemptRow
    /\ hpc[h] \in {"count", "commit", "refresh"} => attempts[Owner(req[h])] \in AttemptRow
    /\ hpc[h] \in {"count", "commit"} => seen[h].submitted # Null
    /\ hpc[h] = "resume" => seen[h] \in AttemptRow \/ req[h].op = "start"
    /\ hpc[h] \in {"insert", "reload"} => req[h].op = "start"
    /\ hpc[h] \in {"cases", "add", "push"} => req[h].op = "submit"
    /\ hpc[h] = "push" => sub[h] \in SubIds
    /\ hpc[h] = "reply" /\ req[h].op = "finish" => seen[h].submitted # Null
    /\ link[h] => req[h].op = "submit" /\ attempts[req[h].user] \in AttemptRow

\* The attempt a session has seen is still the stored one, and still closed if
\* it was.
SeenFits(h) ==
    /\ hpc[h] \in {"sync", "count", "commit", "refresh", "resume", "reply"}
    /\ seen[h] # Null
    => LET a == attempts[Owner(req[h])] IN
       /\ a \in AttemptRow
       /\ seen[h].started = a.started /\ seen[h].expires = a.expires
       /\ hpc[h] \notin {"count", "commit"} /\ seen[h].submitted # Null => a.submitted # Null

\* A linked submission has an attempt to be scored in, and a worker that is
\* recounting has such a submission.
LinkFits(s) == Exists(s) /\ subs[s].linked => attempts[subs[s].user] \in AttemptRow

JobFits(w) ==
    /\ Busy(w) => job[w] \in SubIds
    /\ wpc[w] \in {"judge", "load", "count", "commit"} => Exists(job[w])
    /\ wpc[w] \in {"load", "count", "commit"} => verdict[w] \in Verdicts
    /\ wpc[w] \in {"load", "count"} => Scores(subs[job[w]], verdict[w])

HandlersFit == \A h \in Handlers : IdleFits(h) /\ RequestFits(h) /\ SeenFits(h)
WorkersFit  == (\A s \in SubIds : LinkFits(s)) /\ (\A w \in Workers : JobFits(w))

ShapeInv == TypeOK /\ HandlersFit /\ WorkersFit

\* A count about to be written is no larger than what has been earned, the
\* worker's own flushed verdict included.
CreditInFlight ==
    /\ \A h \in Handlers : hpc[h] \in {"insert", "commit"} =>
          seen[h].score <= Cardinality(Earned(subs, Owner(req[h])))
    /\ \A w \in Workers : LET row == subs[job[w]] IN
          wpc[w] = "commit" /\ Scores(row, verdict[w]) =>
          wscore[w] <= Cardinality(Earned(Flushed(w), row.user))

\* How a request that came too late stays practice at each of its awaits.
LateStaysClosed ==
    \A h \in Handlers : late[h] /\ hpc[h] # "idle" =>
        /\ hpc[h] \notin {"insert", "reload"}
        /\ hpc[h] = "sync" =>
              seen[h] # Null /\ (seen[h].submitted # Null \/ now >= seen[h].expires)
        /\ hpc[h] = "refresh" => attempts[Owner(req[h])].submitted # Null
        /\ hpc[h] = "resume" => seen[h] # Null /\ seen[h].submitted # Null

CustodyInv == SingleCustody /\ HeldAsExpected
CreditInv  == NoPhantomCredit /\ CreditInFlight
LateInv    == LateIsPractice /\ LateStaysClosed

IndInv == ShapeInv /\ CustodyInv /\ CreditInv /\ LateInv /\ AnswersTellTheTruth

=============================================================================
