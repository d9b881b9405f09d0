------------------------------ MODULE JobStore ------------------------------
(***************************************************************************)
(* The pipeline_jobs table of internal/store/store.go.  Every operation of *)
(* the store is one SQL statement, hence one atomic step on the rows.      *)
(*                                                                         *)
(* A row keeps the columns the queue protocol reads or writes.  Times are  *)
(* kept as what the queries tell apart: next_run_at is "due" or "future",  *)
(* created_at is "fresh" or older than the sweeper's StaleThreshold.       *)
(* last_error is "null" or "set".  A job that has not been inserted yet    *)
(* has status "absent"; rows are never deleted.                            *)
(***************************************************************************)
EXTENDS Pipeline

CONSTANT MaxAttempts    \* max_attempts (migration 0001: 8 in production)

ASSUME JobStoreAssumption == MaxAttempts \in Nat \ {0}

VARIABLE jobs           \* the table, by primary key

Statuses == {"absent", "queued", "running", "done", "dead"}

Job == [status    : Statuses,
        stage     : Stages,
        worker    : Workers \cup {None},
        attempts  : Nat,
        lastError : {"null", "set"},
        nextRun   : {"due", "future"},
        age       : {"fresh", "stale"}]

JobsTypeOK == jobs \in [JobIds -> Job]

NewJob(stage) ==
  [status |-> "absent", stage |-> stage, worker |-> None, attempts |-> 0,
   lastError |-> "null", nextRun |-> "due", age |-> "fresh"]

Terminal(j) == jobs[j].status \in {"done", "dead"}
RunningBy(j, w) == jobs[j].status = "running" /\ jobs[j].worker = w

-----------------------------------------------------------------------------
(* Statements that write.                                                  *)

UpdateRow(j, row) == jobs' = [jobs EXCEPT ![j] = row]

EnqueueJob(j) ==
  /\ jobs[j].status = "absent"
  /\ UpdateRow(j, [jobs[j] EXCEPT !.status = "queued"])

(* Slips in that clause: a running row, or a done one, can be claimed.     *)
ClaimableWhileRunning(j) == jobs[j].status \in {"queued", "running"}
ClaimableWhenDone(j) == jobs[j].status \in {"queued", "done"}

(* The WHERE clause of ClaimJob: the id and the status, nothing else.      *)
Claimable(j) == jobs[j].status = "queued"

ClaimJob(j, w) ==
  /\ Claimable(j)
  /\ UpdateRow(j, [jobs[j] EXCEPT !.status = "running", !.worker = w])

MarkDone(j) == UpdateRow(j, [jobs[j] EXCEPT !.status = "done"])

(* Slips in that expression: an attempt too many, a status of no meaning.  *)
FailedStatusOffByOne(r) == IF r.attempts >= MaxAttempts THEN "dead" ELSE "queued"
FailedStatusUnknown(r) == IF r.attempts + 1 >= MaxAttempts THEN "dead" ELSE "failed"

(* The CASE expression of MarkFailed.                                      *)
FailedStatus(r) == IF r.attempts + 1 >= MaxAttempts THEN "dead" ELSE "queued"

(* Unconditional in the row's status and owner.                            *)
MarkFailed(j, nextRun) ==
  UpdateRow(j, [jobs[j] EXCEPT !.attempts = jobs[j].attempts + 1,
                               !.status = FailedStatus(jobs[j]),
                               !.worker = None,
                               !.lastError = "set",
                               !.nextRun = nextRun])

(* The WHERE clause of AdvanceJob: the status, not the owner.              *)
Advanceable(j) == jobs[j].status = "running"

AdvanceJob(j, nextStage) ==
  /\ Advanceable(j)
  /\ UpdateRow(j, [jobs[j] EXCEPT !.stage = nextStage,
                                  !.status = "queued",
                                  !.worker = None])

-----------------------------------------------------------------------------
(* Statements that read.                                                   *)

ListRunningJobs == {j \in JobIds : jobs[j].status = "running"}

ListReadyRetryJobs ==
  {j \in JobIds : /\ jobs[j].status = "queued"
                  /\ jobs[j].lastError = "set"
                  /\ jobs[j].nextRun = "due"}

(* Slip: only jobs that have failed before are found.                      *)
ListStaleFailedJobs ==
  {j \in JobIds : /\ jobs[j].status = "queued"
                  /\ jobs[j].lastError = "set"
                  /\ jobs[j].age = "stale"}

ListStaleQueuedJobs ==
  {j \in JobIds : /\ jobs[j].status = "queued"
                  /\ jobs[j].lastError = "null"
                  /\ jobs[j].age = "stale"}

-----------------------------------------------------------------------------
(* The clock: what now() makes true of a row without any statement.        *)

BackoffElapses(j) ==
  /\ jobs[j].nextRun = "future"
  /\ UpdateRow(j, [jobs[j] EXCEPT !.nextRun = "due"])

AgeOut(j) ==
  /\ jobs[j].status # "absent"
  /\ jobs[j].age = "fresh"
  /\ UpdateRow(j, [jobs[j] EXCEPT !.age = "stale"])
=============================================================================
