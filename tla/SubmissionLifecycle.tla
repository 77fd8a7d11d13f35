------------------------ MODULE SubmissionLifecycle ------------------------
(***************************************************************************)
(* What a client is promised about one submission, whatever the queue, the *)
(* workers and the failures do: it is created once as pending, it is taken *)
(* up for judging at most once, it gets at most one verdict, and a verdict *)
(* is never replaced (backend/model.py:20-27, and the FINAL_STATUSES on    *)
(* which frontend/src/pages/QuestionDetail.tsx:65-71 stops watching).      *)
(***************************************************************************)
CONSTANTS Ids, Verdicts

VARIABLE status   \* status[s]: "absent", "pending", "running" or a verdict

LifecycleInit == status = [s \in Ids |-> "absent"]

Submit(s) == status[s] = "absent" /\ status' = [status EXCEPT ![s] = "pending"]

TakeUp(s) == status[s] = "pending" /\ status' = [status EXCEPT ![s] = "running"]

Decide(s, v) == status[s] = "running" /\ status' = [status EXCEPT ![s] = v]

LifecycleNext ==
    \E s \in Ids : Submit(s) \/ TakeUp(s) \/ \E v \in Verdicts : Decide(s, v)

LifecycleSpec == LifecycleInit /\ [][LifecycleNext]_status

=============================================================================
