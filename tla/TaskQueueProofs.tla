-------------------------- MODULE TaskQueueProofs ---------------------------
(***************************************************************************)
(* Proofs about TaskQueue, for any number of jobs, workers, attempts,      *)
(* faults and copies of an id.                                             *)
(*                                                                         *)
(* The first section says what each statement of the store does to a row,  *)
(* the second that list operations keep the lists well formed; the later   *)
(* ones prove one invariant each, with one case per action, and the last   *)
(* one that the queue implements JobLifecycle.                             *)
(***************************************************************************)
EXTENDS TaskQueue, SequenceTheorems, WellFoundedInduction, TLAPS

(* Every row but that of j is left as it is.                               *)
OnlyRow(j) == \A k \in JobIds \ {j} : jobs'[k] = jobs[k]

-----------------------------------------------------------------------------
(* EnqueueJob makes an absent row queued.                                  *)
LEMMA EnqueueJobEffect ==
  ASSUME JobsTypeOK, NEW j \in JobIds,
         EnqueueJob(j)
  PROVE  /\ JobsTypeOK' /\ OnlyRow(j)
         /\ jobs[j].status = "absent"
         /\ jobs'[j].status = "queued"
         /\ jobs'[j].attempts = jobs[j].attempts
         /\ jobs'[j].lastError = jobs[j].lastError
<1> DEFINE row == [jobs[j] EXCEPT !.status = "queued"]
<1>1. jobs[j] \in Job
  BY DEF JobsTypeOK
<1>4. /\ row \in Job
      /\ row.status = "queued"
      /\ row.attempts = jobs[j].attempts
      /\ row.lastError = jobs[j].lastError
  BY <1>1 DEF Job, Statuses
<1> HIDE DEF row
<1>5. jobs' = [jobs EXCEPT ![j] = row]
  BY DEF EnqueueJob, UpdateRow, row
<1>. QED
  BY <1>4, <1>5 DEF JobsTypeOK, OnlyRow, EnqueueJob

(* ClaimJob makes a queued row running, owned by w.                        *)
LEMMA ClaimJobEffect ==
  ASSUME JobsTypeOK, NEW j \in JobIds,
         NEW w \in Workers,
         ClaimJob(j, w)
  PROVE  /\ JobsTypeOK' /\ OnlyRow(j)
         /\ jobs[j].status = "queued"
         /\ jobs'[j].status = "running"
         /\ jobs'[j].worker = w
         /\ jobs'[j].attempts = jobs[j].attempts
         /\ jobs'[j].lastError = jobs[j].lastError
<1> DEFINE row == [jobs[j] EXCEPT !.status = "running", !.worker = w]
<1>1. jobs[j] \in Job
  BY DEF JobsTypeOK
<1>4. /\ row \in Job
      /\ row.status = "running"
      /\ row.worker = w
      /\ row.attempts = jobs[j].attempts
      /\ row.lastError = jobs[j].lastError
  BY <1>1 DEF Job, Statuses
<1> HIDE DEF row
<1>5. jobs' = [jobs EXCEPT ![j] = row]
  BY DEF ClaimJob, UpdateRow, row
<1>. QED
  BY <1>4, <1>5 DEF JobsTypeOK, OnlyRow, ClaimJob, Claimable

(* MarkDone makes any row done.                                            *)
LEMMA MarkDoneEffect ==
  ASSUME JobsTypeOK, NEW j \in JobIds,
         MarkDone(j)
  PROVE  /\ JobsTypeOK' /\ OnlyRow(j)
         /\ jobs'[j].status = "done"
         /\ jobs'[j].attempts = jobs[j].attempts
         /\ jobs'[j].lastError = jobs[j].lastError
<1> DEFINE row == [jobs[j] EXCEPT !.status = "done"]
<1>1. jobs[j] \in Job
  BY DEF JobsTypeOK
<1>4. /\ row \in Job
      /\ row.status = "done"
      /\ row.attempts = jobs[j].attempts
      /\ row.lastError = jobs[j].lastError
  BY <1>1 DEF Job, Statuses
<1> HIDE DEF row
<1>5. jobs' = [jobs EXCEPT ![j] = row]
  BY DEF MarkDone, UpdateRow, row
<1>. QED
  BY <1>4, <1>5 DEF JobsTypeOK, OnlyRow

(* MarkFailed uses an attempt of any row.                                  *)
LEMMA MarkFailedEffect ==
  ASSUME JobsTypeOK, NEW j \in JobIds,
         NEW n \in {"due", "future"},
         MarkFailed(j, n)
  PROVE  /\ JobsTypeOK' /\ OnlyRow(j)
         /\ jobs'[j].attempts = jobs[j].attempts + 1
         /\ jobs'[j].status = FailedStatus(jobs[j])
         /\ jobs'[j].lastError = "set"
<1> DEFINE row == [jobs[j] EXCEPT !.attempts = jobs[j].attempts + 1,
                                  !.status = FailedStatus(jobs[j]),
                                  !.worker = None,
                                  !.lastError = "set",
                                  !.nextRun = n]
<1>1. jobs[j] \in Job
  BY DEF JobsTypeOK
<1>2. jobs[j].attempts + 1 \in Nat
  BY <1>1 DEF Job
<1>3. FailedStatus(jobs[j]) \in Statuses
  BY DEF FailedStatus, Statuses
<1>4. /\ row \in Job
      /\ row.attempts = jobs[j].attempts + 1
      /\ row.status = FailedStatus(jobs[j])
      /\ row.lastError = "set"
  BY <1>1, <1>2, <1>3 DEF Job
<1> HIDE DEF row
<1>5. jobs' = [jobs EXCEPT ![j] = row]
  BY DEF MarkFailed, UpdateRow, row
<1>. QED
  BY <1>4, <1>5 DEF JobsTypeOK, OnlyRow

(* AdvanceJob puts a running row back in the queue, at another stage.      *)
LEMMA AdvanceJobEffect ==
  ASSUME JobsTypeOK, NEW j \in JobIds,
         NEW s \in Stages,
         AdvanceJob(j, s)
  PROVE  /\ JobsTypeOK' /\ OnlyRow(j)
         /\ jobs[j].status = "running"
         /\ jobs'[j].status = "queued"
         /\ jobs'[j].attempts = jobs[j].attempts
         /\ jobs'[j].lastError = jobs[j].lastError
<1> DEFINE row == [jobs[j] EXCEPT !.stage = s,
                                  !.status = "queued",
                                  !.worker = None]
<1>1. jobs[j] \in Job
  BY DEF JobsTypeOK
<1>4. /\ row \in Job
      /\ row.status = "queued"
      /\ row.attempts = jobs[j].attempts
      /\ row.lastError = jobs[j].lastError
  BY <1>1 DEF Job, Statuses
<1> HIDE DEF row
<1>5. jobs' = [jobs EXCEPT ![j] = row]
  BY DEF AdvanceJob, UpdateRow, row
<1>. QED
  BY <1>4, <1>5 DEF JobsTypeOK, OnlyRow, AdvanceJob, Advanceable

(* Time changes neither status nor owner nor attempts nor the error.       *)
LEMMA ClockEffect ==
  ASSUME JobsTypeOK, NEW j \in JobIds, BackoffElapses(j) \/ AgeOut(j)
  PROVE  /\ JobsTypeOK'
         /\ \A k \in JobIds : /\ jobs'[k].status = jobs[k].status
                              /\ jobs'[k].worker = jobs[k].worker
                              /\ jobs'[k].attempts = jobs[k].attempts
                              /\ jobs'[k].lastError = jobs[k].lastError
<1> DEFINE due == [jobs[j] EXCEPT !.nextRun = "due"]
           old == [jobs[j] EXCEPT !.age = "stale"]
<1>1. jobs[j] \in Job
  BY DEF JobsTypeOK
<1>2. /\ due \in Job
      /\ due.status = jobs[j].status
      /\ due.worker = jobs[j].worker
      /\ due.attempts = jobs[j].attempts
      /\ due.lastError = jobs[j].lastError
  BY <1>1 DEF Job
<1>3. /\ old \in Job
      /\ old.status = jobs[j].status
      /\ old.worker = jobs[j].worker
      /\ old.attempts = jobs[j].attempts
      /\ old.lastError = jobs[j].lastError
  BY <1>1 DEF Job
<1> HIDE DEF due, old
<1>4. jobs' = [jobs EXCEPT ![j] = due] \/ jobs' = [jobs EXCEPT ![j] = old]
  BY DEF BackoffElapses, AgeOut, UpdateRow, due, old
<1>. QED
  BY <1>2, <1>3, <1>4 DEF JobsTypeOK

-----------------------------------------------------------------------------
(* A non-empty set of naturals contains its minimum.                       *)
LEMMA MinExists ==
  ASSUME NEW T \in SUBSET Nat, T # {}
  PROVE  Min(T) \in T
<1>1. PICK x \in T : \A y \in T : ~(<<y, x>> \in OpToRel(<, Nat))
  BY WFMin, NatLessThanWellFounded, Zenon
<1>2. ASSUME NEW y \in T PROVE x =< y
  <2>1. x \in Nat /\ y \in Nat
    OBVIOUS
  <2>2. y < x => <<y, x>> \in OpToRel(<, Nat)
    BY <2>1, Zenon DEF OpToRel
  <2>3. ~(y < x)
    BY <1>1, <2>2, Zenon
  <2>. QED
    BY <2>1, <2>3
<1>. QED
  BY <1>2 DEF Min

(* LREM leaves a list of the same elements.                                *)
LEMMA RemoveFirstType ==
  ASSUME NEW S, NEW s \in Seq(S), NEW e
  PROVE  RemoveFirst(s, e) \in Seq(S)
<1>1. CASE ~ \E i \in 1 .. Len(s) : s[i] = e
  BY <1>1 DEF RemoveFirst
<1>2. CASE \E i \in 1 .. Len(s) : s[i] = e
  <2> DEFINE I == {i \in 1 .. Len(s) : s[i] = e}
             m == Min(I)
  <2>1. I \in SUBSET Nat /\ I # {}
    BY <1>2
  <2>2. m \in 1 .. Len(s)
    BY <2>1, MinExists
  <2>3. RemoveFirst(s, e) = RemoveAt(s, m)
    BY <1>2, <2>1 DEF RemoveFirst, SelectInSeq
  <2> HIDE DEF m
  <2>4. SubSeq(s, 1, m - 1) \in Seq(S) /\ SubSeq(s, m + 1, Len(s)) \in Seq(S)
    BY <2>2
  <2>. QED
    BY <2>3, <2>4 DEF RemoveAt
<1>. QED
  BY <1>1, <1>2

(* LPUSH keeps the queues lists of job ids.                                *)
LEMMA PushType ==
  ASSUME RedisTypeOK, NEW s, NEW j \in JobIds, Push(s, j)
  PROVE  queue' \in [Stages -> Seq(JobIds)]
<1> DEFINE new == IF Room(s, j) THEN Cons(j, queue[s]) ELSE queue[s]
<1>1. queue \in [Stages -> Seq(JobIds)] /\ queue' = [queue EXCEPT ![s] = new]
  BY DEF RedisTypeOK, Push
<1>2. ASSUME s \in Stages PROVE new \in Seq(JobIds)
  <2>1. queue[s] \in Seq(JobIds)
    BY <1>1, <1>2
  <2>2. Cons(j, queue[s]) \in Seq(JobIds)
    BY <2>1 DEF Cons
  <2>. QED
    BY <2>1, <2>2
<1> HIDE DEF new
<1>. QED
  BY <1>1, <1>2

(* BLMOVE moves one job id between lists of job ids.                       *)
LEMMA BlockingPopType ==
  ASSUME RedisTypeOK, NEW w \in Workers, BlockingPop(w)
  PROVE  /\ queue' \in [Stages -> Seq(JobIds)]
         /\ processing' \in [Workers -> Seq(JobIds)]
         /\ Last(queue[StageOf[w]]) \in JobIds
<1>1. queue[StageOf[w]] \in Seq(JobIds) /\ queue[StageOf[w]] # <<>>
  BY PipelineAssumption DEF RedisTypeOK, BlockingPop
<1>2. /\ Front(queue[StageOf[w]]) \in Seq(JobIds)
      /\ Last(queue[StageOf[w]]) \in JobIds
  BY <1>1 DEF Front, Last
<1>3. Cons(Last(queue[StageOf[w]]), processing[w]) \in Seq(JobIds)
  BY <1>2 DEF RedisTypeOK, Cons
<1>. QED
  BY <1>2, <1>3 DEF RedisTypeOK, BlockingPop

(* LREM keeps the processing lists lists of job ids.                       *)
LEMMA AckType ==
  ASSUME RedisTypeOK, NEW w \in Workers, NEW j, Ack(w, j)
  PROVE  processing' \in [Workers -> Seq(JobIds)]
<1>1. RemoveFirst(processing[w], j) \in Seq(JobIds)
  BY RemoveFirstType DEF RedisTypeOK
<1>. QED
  BY <1>1 DEF RedisTypeOK, Ack

(* So does one LMOVE of a reclaim.                                         *)
LEMMA ReclaimMoveType ==
  ASSUME RedisTypeOK, NEW w \in Workers, ReclaimMove(w)
  PROVE  /\ queue' \in [Stages -> Seq(JobIds)]
         /\ processing' \in [Workers -> Seq(JobIds)]
<1>1. processing[w] \in Seq(JobIds) /\ processing[w] # <<>>
  BY DEF RedisTypeOK, ReclaimMove
<1>2. Front(processing[w]) \in Seq(JobIds) /\ Last(processing[w]) \in JobIds
  BY <1>1 DEF Front, Last
<1> DEFINE st == StageOf[w]
           new == IF Room(st, Last(processing[w]))
                  THEN Append(queue[st], Last(processing[w])) ELSE queue[st]
<1>3. queue[st] \in Seq(JobIds)
  BY PipelineAssumption DEF RedisTypeOK
<1>4. Append(queue[st], Last(processing[w])) \in Seq(JobIds)
  BY <1>2, <1>3
<1>5. new \in Seq(JobIds)
  BY <1>3, <1>4
<1>6. /\ queue' = [queue EXCEPT ![st] = new]
      /\ processing' = [processing EXCEPT ![w] = Front(processing[w])]
  BY DEF ReclaimMove
<1> HIDE DEF new
<1>. QED
  BY <1>2, <1>5, <1>6 DEF RedisTypeOK

-----------------------------------------------------------------------------
(* Type correctness.                                                       *)

(* A step of a worker keeps all variables typed.                           *)
LEMMA WorkerTypeStep ==
  ASSUME TypeOK, NEW w \in Workers, WorkerNext(w)
  PROVE  TypeOK'
<1> DEFINE HoldsJob == \A x \in Workers :
                         wpc[x] \notin {"down", "idle"} => wjob[x] \in JobIds
           Goal == JobsTypeOK' /\ RedisTypeOK' /\ FaultsTypeOK' /\ WorkerTypeOK'
                   /\ HoldsJob'
<1>1. /\ JobsTypeOK /\ RedisTypeOK /\ WorkerTypeOK /\ SweeperTypeOK
      /\ FaultsTypeOK /\ unpushed \subseteq JobIds /\ HoldsJob
  BY DEF TypeOK
<1>2. SweeperTypeOK' /\ unpushed' \subseteq JobIds
  BY <1>1 DEF WorkerNext, SweeperTypeOK, sweeperVars
<1>3. ASSUME NEW kind, Fault(kind) PROVE FaultsTypeOK'
  BY <1>1, <1>3 DEF Fault, FaultsTypeOK
<1>4. ASSUME NEW pc \in WorkerPcs, GoTo(w, pc),
             wpc[w] = "idle" => pc = "down", wpc[w] # "down"
      PROVE  WorkerTypeOK' /\ HoldsJob'
  BY <1>1, <1>4 DEF GoTo, WorkerTypeOK
<1>5. ASSUME NEW pc \in {"down", "idle"}, Rest(w, pc)
      PROVE  WorkerTypeOK' /\ HoldsJob'
  BY <1>1, <1>5 DEF Rest, WorkerTypeOK, WorkerPcs
<1>6. ASSUME UNCHANGED workerVars
      PROVE  WorkerTypeOK' /\ HoldsJob'
  BY <1>1, <1>6 DEF workerVars, WorkerTypeOK
<1>7. wpc[w] \notin {"down", "idle"} => wjob[w] \in JobIds
  BY <1>1
<1>8. NextStage(StageOf[w]) # NoStage => NextStage(StageOf[w]) \in Stages
  BY DEF NextStage, Stages
<1>9. /\ UNCHANGED jobs => JobsTypeOK'
      /\ UNCHANGED faults => FaultsTypeOK'
      /\ UNCHANGED <<queue, processing, heartbeat>> => RedisTypeOK'
      /\ UNCHANGED <<queue, processing>> /\ heartbeat' \subseteq Workers
           => RedisTypeOK'
  BY <1>1 DEF JobsTypeOK, FaultsTypeOK, RedisTypeOK
<1> HIDE DEF HoldsJob
<1>10. ASSUME StartFresh(w) PROVE Goal
  <2>1. WorkerTypeOK' /\ HoldsJob'
    BY <1>10, <1>5 DEF StartFresh, Start
  <2>2. RedisTypeOK'
    BY <1>10, <1>1 DEF StartFresh, Start, Heartbeat, RedisTypeOK
  <2>3. JobsTypeOK' /\ FaultsTypeOK'
    BY <1>10, <1>9 DEF StartFresh, Start
  <2>. QED
    BY <2>1, <2>2, <2>3
<1>11. ASSUME HeartbeatTick(w) PROVE Goal
  <2>1. WorkerTypeOK' /\ HoldsJob'
    BY <1>11, <1>6 DEF HeartbeatTick
  <2>2. RedisTypeOK'
    BY <1>11, <1>1 DEF HeartbeatTick, Heartbeat, RedisTypeOK
  <2>3. JobsTypeOK' /\ FaultsTypeOK'
    BY <1>11, <1>9 DEF HeartbeatTick
  <2>. QED
    BY <2>1, <2>2, <2>3
<1>12. ASSUME Pop(w) PROVE Goal
  <2>1. Last(queue[StageOf[w]]) \in JobIds
    BY <1>12, <1>1, BlockingPopType DEF Pop
  <2>2. WorkerTypeOK' /\ HoldsJob'
    BY <1>12, <1>1, <2>1 DEF Pop, WorkerTypeOK, WorkerPcs, HoldsJob
  <2>3. RedisTypeOK'
    BY <1>12, <1>1, BlockingPopType DEF Pop, RedisTypeOK
  <2>4. JobsTypeOK' /\ FaultsTypeOK'
    BY <1>12, <1>9 DEF Pop
  <2>. QED
    BY <2>1, <2>2, <2>3, <2>4
<1>13. ASSUME PopReplyLost(w) PROVE Goal
  <2>1. WorkerTypeOK' /\ HoldsJob'
    BY <1>13, <1>6 DEF PopReplyLost
  <2>2. RedisTypeOK'
    BY <1>13, <1>1, BlockingPopType DEF PopReplyLost, RedisTypeOK
  <2>3. JobsTypeOK'
    BY <1>13, <1>9 DEF PopReplyLost
  <2>4. FaultsTypeOK'
    BY <1>13, <1>3 DEF PopReplyLost
  <2>. QED
    BY <2>1, <2>2, <2>3, <2>4
<1>14. ASSUME Claim(w) PROVE Goal
  <2>1. WorkerTypeOK' /\ HoldsJob'
    BY <1>14, <1>4 DEF Claim, WorkerPcs
  <2>2. JobsTypeOK'
    BY <1>14, <1>1, <1>7, ClaimJobEffect DEF Claim
  <2>3. RedisTypeOK' /\ FaultsTypeOK'
    BY <1>14, <1>9 DEF Claim
  <2>. QED
    BY <2>1, <2>2, <2>3
<1>15. ASSUME ClaimRaceLost(w) PROVE Goal
  <2>1. WorkerTypeOK' /\ HoldsJob'
    BY <1>15, <1>4 DEF ClaimRaceLost, WorkerPcs
  <2>2. JobsTypeOK' /\ RedisTypeOK' /\ FaultsTypeOK'
    BY <1>15, <1>9 DEF ClaimRaceLost
  <2>. QED
    BY <2>1, <2>2
<1>16. ASSUME ClaimError(w) PROVE Goal
  <2>1. WorkerTypeOK' /\ HoldsJob'
    BY <1>16, <1>4 DEF ClaimError, WorkerPcs
  <2>2. JobsTypeOK' /\ RedisTypeOK'
    BY <1>16, <1>9 DEF ClaimError
  <2>3. FaultsTypeOK'
    BY <1>16, <1>3 DEF ClaimError
  <2>. QED
    BY <2>1, <2>2, <2>3
<1>17. ASSUME ClaimReplyLost(w) PROVE Goal
  <2>1. WorkerTypeOK' /\ HoldsJob'
    BY <1>17, <1>4 DEF ClaimReplyLost, WorkerPcs
  <2>2. JobsTypeOK'
    BY <1>17, <1>1, <1>7, ClaimJobEffect DEF ClaimReplyLost
  <2>3. RedisTypeOK'
    BY <1>17, <1>9 DEF ClaimReplyLost
  <2>4. FaultsTypeOK'
    BY <1>17, <1>3 DEF ClaimReplyLost
  <2>. QED
    BY <2>1, <2>2, <2>3, <2>4
<1>18. ASSUME Complete(w) PROVE Goal
  <2>1. WorkerTypeOK' /\ HoldsJob'
    BY <1>18, <1>4 DEF Complete, WorkerPcs
  <2>2. JobsTypeOK'
    BY <1>18, <1>1, <1>7, MarkDoneEffect DEF Complete
  <2>3. RedisTypeOK' /\ FaultsTypeOK'
    BY <1>18, <1>9 DEF Complete
  <2>. QED
    BY <2>1, <2>2, <2>3
<1>19. ASSUME Fail(w) PROVE Goal
  <2>1. WorkerTypeOK' /\ HoldsJob'
    BY <1>19, <1>4 DEF Fail, WorkerPcs
  <2>2. JobsTypeOK'
    BY <1>19, <1>1, <1>7, MarkFailedEffect DEF Fail
  <2>3. RedisTypeOK' /\ FaultsTypeOK'
    BY <1>19, <1>9 DEF Fail
  <2>. QED
    BY <2>1, <2>2, <2>3
<1>20. ASSUME Advance(w) PROVE Goal
  <2>1. WorkerTypeOK' /\ HoldsJob'
    BY <1>20, <1>4 DEF Advance, WorkerPcs
  <2>2. JobsTypeOK'
    BY <1>20, <1>1, <1>7, <1>8, AdvanceJobEffect DEF Advance
  <2>3. RedisTypeOK' /\ FaultsTypeOK'
    BY <1>20, <1>9 DEF Advance
  <2>. QED
    BY <2>1, <2>2, <2>3
<1>21. ASSUME AdvanceFindsNoRow(w) PROVE Goal
  <2>1. WorkerTypeOK' /\ HoldsJob'
    BY <1>21, <1>4 DEF AdvanceFindsNoRow, WorkerPcs
  <2>2. JobsTypeOK' /\ RedisTypeOK' /\ FaultsTypeOK'
    BY <1>21, <1>9 DEF AdvanceFindsNoRow
  <2>. QED
    BY <2>1, <2>2
<1>22. ASSUME SettleError(w) PROVE Goal
  <2>1. WorkerTypeOK' /\ HoldsJob'
    BY <1>22, <1>4 DEF SettleError, WorkerPcs
  <2>2. JobsTypeOK'
    BY <1>22, <1>1, <1>7, <1>8, <1>9, MarkDoneEffect, MarkFailedEffect, AdvanceJobEffect DEF SettleError
  <2>3. RedisTypeOK'
    BY <1>22, <1>9 DEF SettleError
  <2>4. FaultsTypeOK'
    BY <1>22, <1>3 DEF SettleError
  <2>. QED
    BY <2>1, <2>2, <2>3, <2>4
<1>23. ASSUME PushNext(w) PROVE Goal
  <2>1. WorkerTypeOK' /\ HoldsJob'
    BY <1>23, <1>4 DEF PushNext, WorkerPcs
  <2>2. RedisTypeOK'
    BY <1>23, <1>1, <1>7, PushType DEF PushNext, RedisTypeOK
  <2>3. JobsTypeOK' /\ FaultsTypeOK'
    BY <1>23, <1>9 DEF PushNext
  <2>. QED
    BY <2>1, <2>2, <2>3
<1>24. ASSUME PushNextError(w) PROVE Goal
  <2>1. WorkerTypeOK' /\ HoldsJob'
    BY <1>24, <1>4 DEF PushNextError, WorkerPcs
  <2>2. JobsTypeOK' /\ RedisTypeOK'
    BY <1>24, <1>9 DEF PushNextError
  <2>3. FaultsTypeOK'
    BY <1>24, <1>3 DEF PushNextError
  <2>. QED
    BY <2>1, <2>2, <2>3
<1>25. ASSUME Acknowledge(w) PROVE Goal
  <2>1. WorkerTypeOK' /\ HoldsJob'
    BY <1>25, <1>5 DEF Acknowledge, AfterAck
  <2>2. RedisTypeOK'
    BY <1>25, <1>1, AckType DEF Acknowledge, RedisTypeOK
  <2>3. JobsTypeOK' /\ FaultsTypeOK'
    BY <1>25, <1>9 DEF Acknowledge
  <2>. QED
    BY <2>1, <2>2, <2>3
<1>26. ASSUME AckError(w) PROVE Goal
  <2>1. WorkerTypeOK' /\ HoldsJob'
    BY <1>26, <1>5 DEF AckError, AfterAck
  <2>2. JobsTypeOK' /\ RedisTypeOK'
    BY <1>26, <1>9 DEF AckError
  <2>3. FaultsTypeOK'
    BY <1>26, <1>3 DEF AckError
  <2>. QED
    BY <2>1, <2>2, <2>3
<1>27. ASSUME Shutdown(w) PROVE Goal
  <2>1. WorkerTypeOK' /\ HoldsJob'
    BY <1>27, <1>4 DEF Shutdown, WorkerPcs
  <2>2. JobsTypeOK' /\ RedisTypeOK'
    BY <1>27, <1>9 DEF Shutdown
  <2>3. FaultsTypeOK'
    BY <1>27, <1>3 DEF Shutdown
  <2>. QED
    BY <2>1, <2>2, <2>3
<1>28. ASSUME Crash(w) PROVE Goal
  <2>1. WorkerTypeOK' /\ HoldsJob'
    BY <1>28, <1>5 DEF Crash
  <2>2. JobsTypeOK' /\ RedisTypeOK'
    BY <1>28, <1>9 DEF Crash
  <2>3. FaultsTypeOK'
    BY <1>28, <1>3 DEF Crash
  <2>. QED
    BY <2>1, <2>2, <2>3
<1>29. ASSUME FalseExpiry(w) PROVE Goal
  <2>1. WorkerTypeOK' /\ HoldsJob'
    BY <1>29, <1>6 DEF FalseExpiry
  <2>2. RedisTypeOK'
    BY <1>29, <1>1 DEF FalseExpiry, KeyExpires, RedisTypeOK
  <2>3. JobsTypeOK'
    BY <1>29, <1>9 DEF FalseExpiry
  <2>4. FaultsTypeOK'
    BY <1>29, <1>3 DEF FalseExpiry
  <2>. QED
    BY <2>1, <2>2, <2>3, <2>4
<1>. QED
  BY <1>2, <1>10, <1>11, <1>12, <1>13, <1>14, <1>15, <1>16, <1>17, <1>18, <1>19, <1>20, <1>21, <1>22, <1>23, <1>24, <1>25, <1>26, <1>27, <1>28, <1>29
     DEF TypeOK, HoldsJob, WorkerNext, WorkerStep, WorkerFault

(* A step of the sweeper keeps all variables typed.                        *)
LEMMA SweeperTypeStep ==
  ASSUME TypeOK, SweeperNext
  PROVE  TypeOK'
<1> DEFINE Goal == JobsTypeOK' /\ RedisTypeOK' /\ FaultsTypeOK' /\ SweeperTypeOK'
<1>1. JobsTypeOK /\ RedisTypeOK /\ FaultsTypeOK /\ SweeperTypeOK
  BY DEF TypeOK
<1>2. /\ WorkerTypeOK' /\ unpushed' \subseteq JobIds
      /\ \A w \in Workers : wpc'[w] \notin {"down", "idle"} => wjob'[w] \in JobIds
  BY DEF TypeOK, SweeperNext, workerVars, WorkerTypeOK
<1>3. ASSUME NEW kind, Fault(kind) PROVE FaultsTypeOK'
  BY <1>1, <1>3 DEF Fault, FaultsTypeOK
<1>4. /\ UNCHANGED jobs => JobsTypeOK'
      /\ UNCHANGED faults => FaultsTypeOK'
      /\ UNCHANGED <<queue, processing, heartbeat>> => RedisTypeOK'
  BY <1>1 DEF JobsTypeOK, FaultsTypeOK, RedisTypeOK
<1>5. ASSUME NEW js \in SUBSET JobIds PROVE WithStage(js) \subseteq Pushable
  BY <1>1 DEF WithStage, Pushable, JobsTypeOK, Job
<1>6. ASSUME BeginSweep PROVE Goal
  <2>1. SweeperTypeOK'
    BY <1>6, <1>1 DEF BeginSweep, ListProcessing, SweeperTypeOK, Passes
  <2>2. JobsTypeOK' /\ RedisTypeOK' /\ FaultsTypeOK'
    BY <1>6, <1>4 DEF BeginSweep
  <2>. QED
    BY <2>1, <2>2
<1>7. ASSUME NEW w \in refs, CheckRef(w) PROVE Goal
  <2>1. SweeperTypeOK'
    BY <1>7, <1>1 DEF CheckRef, SweeperTypeOK, Passes
  <2>2. JobsTypeOK' /\ RedisTypeOK' /\ FaultsTypeOK'
    BY <1>7, <1>4 DEF CheckRef
  <2>. QED
    BY <2>1, <2>2
<1>8. ASSUME ReclaimOne PROVE Goal
  <2>1. reclaiming \in Workers
    BY <1>8, <1>1 DEF ReclaimOne, SweeperTypeOK
  <2>2. RedisTypeOK'
    BY <1>8, <1>1, <2>1, ReclaimMoveType DEF ReclaimOne, RedisTypeOK
  <2>3. SweeperTypeOK'
    BY <1>8, <1>1 DEF ReclaimOne, sweeperVars, SweeperTypeOK
  <2>4. JobsTypeOK' /\ FaultsTypeOK'
    BY <1>8, <1>4 DEF ReclaimOne
  <2>. QED
    BY <2>1, <2>2, <2>3, <2>4
<1>9. ASSUME ReclaimDone PROVE Goal
  <2>1. SweeperTypeOK'
    BY <1>9, <1>1 DEF ReclaimDone, SweeperTypeOK, Passes
  <2>2. JobsTypeOK' /\ RedisTypeOK' /\ FaultsTypeOK'
    BY <1>9, <1>4 DEF ReclaimDone
  <2>. QED
    BY <2>1, <2>2
<1>10. ASSUME BeginRevive PROVE Goal
  <2>1. SweeperTypeOK'
    BY <1>10, <1>1 DEF BeginRevive, SweeperTypeOK, Passes
  <2>2. JobsTypeOK' /\ RedisTypeOK' /\ FaultsTypeOK'
    BY <1>10, <1>4 DEF BeginRevive
  <2>. QED
    BY <2>1, <2>2
<1>11. ASSUME NEW o \in orphans, CheckOrphan(o) PROVE Goal
  <2>1. SweeperTypeOK'
    BY <1>11, <1>1 DEF CheckOrphan, SweeperTypeOK, Passes
  <2>2. JobsTypeOK' /\ RedisTypeOK' /\ FaultsTypeOK'
    BY <1>11, <1>4 DEF CheckOrphan
  <2>. QED
    BY <2>1, <2>2
<1>12. ASSUME NEW o \in victim, Revive(o) PROVE Goal
  <2>1. o.job \in JobIds
    BY <1>12, <1>1 DEF SweeperTypeOK, Claimed
  <2>2. JobsTypeOK'
    BY <1>12, <1>1, <2>1, MarkFailedEffect DEF Revive
  <2>3. SweeperTypeOK'
    BY <1>12, <1>1 DEF Revive, SweeperTypeOK, Passes
  <2>4. RedisTypeOK' /\ FaultsTypeOK'
    BY <1>12, <1>4 DEF Revive
  <2>. QED
    BY <2>1, <2>2, <2>3, <2>4
<1>13. ASSUME BeginPromote PROVE Goal
  <2>1. ListReadyRetryJobs \subseteq JobIds
    BY <1>13, <1>1 DEF ListReadyRetryJobs
  <2>2. SweeperTypeOK'
    BY <1>13, <1>1, <1>5, <2>1 DEF BeginPromote, SweeperTypeOK, Passes
  <2>3. JobsTypeOK' /\ RedisTypeOK' /\ FaultsTypeOK'
    BY <1>13, <1>4 DEF BeginPromote
  <2>. QED
    BY <2>1, <2>2, <2>3
<1>14. ASSUME BeginRepush PROVE Goal
  <2>1. ListStaleQueuedJobs \subseteq JobIds
    BY <1>14, <1>1 DEF ListStaleQueuedJobs
  <2>2. SweeperTypeOK'
    BY <1>14, <1>1, <1>5, <2>1 DEF BeginRepush, SweeperTypeOK, Passes
  <2>3. JobsTypeOK' /\ RedisTypeOK' /\ FaultsTypeOK'
    BY <1>14, <1>4 DEF BeginRepush
  <2>. QED
    BY <2>1, <2>2, <2>3
<1>15. ASSUME EndSweep PROVE Goal
  <2>1. SweeperTypeOK'
    BY <1>15, <1>1 DEF EndSweep, SweeperTypeOK, Passes
  <2>2. JobsTypeOK' /\ RedisTypeOK' /\ FaultsTypeOK'
    BY <1>15, <1>4 DEF EndSweep
  <2>. QED
    BY <2>1, <2>2
<1>16. ASSUME NEW p \in pushes, SweepPush(p) PROVE Goal
  <2>1. p.job \in JobIds
    BY <1>16, <1>1 DEF SweeperTypeOK, Pushable
  <2>2. RedisTypeOK'
    BY <1>16, <1>1, <2>1, PushType DEF SweepPush, RedisTypeOK
  <2>3. SweeperTypeOK'
    BY <1>16, <1>1 DEF SweepPush, SweeperTypeOK, Passes
  <2>4. JobsTypeOK' /\ FaultsTypeOK'
    BY <1>16, <1>4 DEF SweepPush
  <2>. QED
    BY <2>1, <2>2, <2>3, <2>4
<1>17. ASSUME SkipItem PROVE Goal
  <2>1. SweeperTypeOK'
    BY <1>17, <1>1 DEF SkipItem, SweeperTypeOK, Passes
  <2>2. FaultsTypeOK'
    BY <1>17, <1>3 DEF SkipItem
  <2>3. JobsTypeOK' /\ RedisTypeOK'
    BY <1>17, <1>4 DEF SkipItem
  <2>. QED
    BY <2>1, <2>2, <2>3
<1>18. ASSUME ListError PROVE Goal
  <2>1. SweeperTypeOK'
    BY <1>18, <1>1 DEF ListError, SweeperTypeOK, Passes
  <2>2. FaultsTypeOK'
    BY <1>18, <1>3 DEF ListError
  <2>3. JobsTypeOK' /\ RedisTypeOK'
    BY <1>18, <1>4 DEF ListError
  <2>. QED
    BY <2>1, <2>2, <2>3
<1>19. ASSUME SweeperCrash PROVE Goal
  <2>1. SweeperTypeOK'
    BY <1>19, <1>1 DEF SweeperCrash, SweeperTypeOK, Passes
  <2>2. FaultsTypeOK'
    BY <1>19, <1>3 DEF SweeperCrash
  <2>3. JobsTypeOK' /\ RedisTypeOK'
    BY <1>19, <1>4 DEF SweeperCrash
  <2>. QED
    BY <2>1, <2>2, <2>3
<1>. QED
  BY <1>2, <1>6, <1>7, <1>8, <1>9, <1>10, <1>11, <1>12, <1>13, <1>14, <1>15, <1>16, <1>17, <1>18, <1>19
     DEF TypeOK, SweeperNext, SweeperStep, SweeperFault

(* A step of a producer or of the clock keeps all variables typed.         *)
LEMMA OtherTypeStep ==
  ASSUME TypeOK,
         \/ \E j \in JobIds : Produce(j) \/ ProducerPush(j) \/ ProducerPushLost(j)
         \/ \E w \in Workers : DeadKeyExpires(w)
         \/ \E j \in JobIds : Clock(j)
  PROVE  TypeOK'
<1> USE DEF TypeOK
<1>1. ASSUME UNCHANGED <<workerVars, sweeperVars>>
      PROVE  /\ WorkerTypeOK' /\ SweeperTypeOK'
             /\ \A w \in Workers :
                  wpc'[w] \notin {"down", "idle"} => wjob'[w] \in JobIds
  BY <1>1 DEF workerVars, sweeperVars, WorkerTypeOK, SweeperTypeOK
<1>2. ASSUME NEW j \in JobIds, Produce(j) PROVE TypeOK'
  <2>1. JobsTypeOK'
    BY <1>2, EnqueueJobEffect DEF Produce
  <2>. QED
    BY <1>1, <1>2, <2>1 DEF Produce, RedisTypeOK, FaultsTypeOK
<1>3. ASSUME NEW j \in JobIds, ProducerPush(j) PROVE TypeOK'
  <2>1. RedisTypeOK'
    BY <1>3, PushType DEF ProducerPush, RedisTypeOK
  <2>. QED
    BY <1>1, <1>3, <2>1 DEF ProducerPush, JobsTypeOK, FaultsTypeOK
<1>4. ASSUME NEW j \in JobIds, ProducerPushLost(j) PROVE TypeOK'
  BY <1>1, <1>4
     DEF ProducerPushLost, Fault, JobsTypeOK, RedisTypeOK, FaultsTypeOK
<1>5. ASSUME NEW w \in Workers, DeadKeyExpires(w) PROVE TypeOK'
  BY <1>1, <1>5
     DEF DeadKeyExpires, KeyExpires, JobsTypeOK, RedisTypeOK, FaultsTypeOK
<1>6. ASSUME NEW j \in JobIds, Clock(j) PROVE TypeOK'
  <2>1. JobsTypeOK'
    BY <1>6, ClockEffect DEF Clock
  <2>. QED
    BY <1>1, <1>6, <2>1 DEF Clock, RedisTypeOK, FaultsTypeOK
<1>. QED
  BY <1>2, <1>3, <1>4, <1>5, <1>6

(* The initial state is typed.                                             *)
LEMMA TypeInit == Init => TypeOK
<1> SUFFICES ASSUME Init PROVE TypeOK
  OBVIOUS
<1>1. JobsTypeOK
  BY TaskQueueAssumption DEF Init, JobsTypeOK, NewJob, Job, Statuses, Stages
<1>2. RedisTypeOK
  BY DEF Init, RedisInit, RedisTypeOK
<1>3. SweeperTypeOK
  BY DEF Init, SweeperInit, SweeperTypeOK, Passes
<1>4. /\ WorkerTypeOK
      /\ \A w \in Workers : wpc[w] \notin {"down", "idle"} => wjob[w] \in JobIds
  BY DEF Init, WorkerInit, WorkerTypeOK, WorkerPcs
<1>. QED
  BY <1>1, <1>2, <1>3, <1>4 DEF Init, TypeOK, FaultsTypeOK

(* Every step keeps all variables typed.                                   *)
LEMMA TypeStep == TypeOK /\ [Next]_vars => TypeOK'
<1>1. ASSUME TypeOK, Next PROVE TypeOK'
  BY <1>1, WorkerTypeStep, SweeperTypeStep, OtherTypeStep DEF Next
<1>2. ASSUME TypeOK, UNCHANGED vars PROVE TypeOK'
  BY <1>2 DEF vars, TypeOK, JobsTypeOK, RedisTypeOK, FaultsTypeOK,
              WorkerTypeOK, SweeperTypeOK
<1>. QED
  BY <1>1, <1>2

(* The queue of internal/store, internal/queue, internal/worker and        *)
(* internal/sweeper keeps its types, and a worker inside ProcessOne holds  *)
(* a job.                                                                  *)
THEOREM TypeCorrect == Spec => []TypeOK
  BY TypeInit, TypeStep, PTL DEF Spec

-----------------------------------------------------------------------------
(* What a step of a worker is, as far as rows, claims and heartbeats go.   *)

(* No row changes.  The worker does not come to work on a job; if it       *)
(* worked on one, it goes on or goes away; if it was down, its id is new.  *)
Quiet(w) ==
  /\ jobs' = jobs
  /\ wpc'[w] = "working" => wpc[w] = "working" /\ wjob'[w] = wjob[w]
  /\ wpc[w] = "working" => wpc'[w] \in {"working", "exiting", "down"}
  /\ wpc[w] = "exiting" => wpc'[w] \in {"exiting", "down"}
  /\ wpc[w] = "down" => wpc'[w] = "down" \/ FreshId(w)

Claims(w) ==
  /\ wpc[w] = "popped" /\ ClaimJob(wjob[w], w) /\ wjob' = wjob
  /\ wpc'[w] = "working" \/ (wpc'[w] = "acking" /\ "claim_reply" \in Faults)

Settles(w) ==
  /\ wpc[w] = "working" /\ wjob' = wjob
  /\ wpc'[w] \in {"acking", "advanced", "exiting"}
  /\ \/ MarkDone(wjob[w])
     \/ MarkFailed(wjob[w], "future")
     \/ \E s \in Stages : AdvanceJob(wjob[w], s)

(* Only w itself gains a key, and loses it only by a false expiry.         *)
KeyStep(w) ==
  \/ heartbeat' = heartbeat /\ (wpc'[w] # "down" => wpc[w] # "down")
  \/ /\ heartbeat' = heartbeat \cup {w}
     /\ ~Remembered(w) \/ (wpc[w] # "down" /\ w \notin heartbeat)
  \/ "expiry" \in Faults

OnlyWorker(w) ==
  \A x \in Workers \ {w} : wpc'[x] = wpc[x] /\ wjob'[x] = wjob[x]

(* Every step of a worker is of one of the three kinds.                    *)
LEMMA WorkerCases ==
  ASSUME TypeOK, NEW w \in Workers, WorkerNext(w)
  PROVE  /\ Quiet(w) \/ Claims(w) \/ Settles(w)
         /\ KeyStep(w) /\ OnlyWorker(w)
         /\ UNCHANGED <<orphans, victim>>
<1> DEFINE Goal == /\ Quiet(w) \/ Claims(w) \/ Settles(w)
                   /\ KeyStep(w) /\ OnlyWorker(w)
<1>1. wpc \in [Workers -> WorkerPcs] /\ wjob \in [Workers -> JobIds \cup {None}]
  BY DEF TypeOK, WorkerTypeOK
<1>2. UNCHANGED <<orphans, victim>>
  BY DEF WorkerNext, sweeperVars
<1>3. ASSUME NEW pc \in WorkerPcs, GoTo(w, pc) \/ Rest(w, pc)
      PROVE  OnlyWorker(w) /\ wpc'[w] = pc /\ (GoTo(w, pc) => wjob' = wjob)
  BY <1>1, <1>3 DEF GoTo, Rest, OnlyWorker
<1>4. ASSUME UNCHANGED workerVars PROVE OnlyWorker(w) /\ wpc' = wpc /\ wjob' = wjob
  BY <1>4 DEF workerVars, OnlyWorker
<1>5. NextStage(StageOf[w]) # NoStage => NextStage(StageOf[w]) \in Stages
  BY DEF NextStage, Stages
<1> USE DEF WorkerPcs, KeyStep
<1>6. ASSUME StartFresh(w) PROVE Goal
  BY <1>6, <1>3 DEF StartFresh, Start, Heartbeat, Quiet
<1>7. ASSUME HeartbeatTick(w) PROVE Goal
  BY <1>7, <1>4 DEF HeartbeatTick, Up, Heartbeat, Quiet
<1>8. ASSUME Pop(w) PROVE Goal
  BY <1>8, <1>1 DEF Pop, Quiet, OnlyWorker
<1>9. ASSUME PopReplyLost(w) PROVE Goal
  BY <1>9, <1>4 DEF PopReplyLost, Quiet
<1>10. ASSUME Claim(w) PROVE Goal
  BY <1>10, <1>3 DEF Claim, Claims
<1>11. ASSUME ClaimRaceLost(w) PROVE Goal
  BY <1>11, <1>3 DEF ClaimRaceLost, Quiet
<1>12. ASSUME ClaimError(w) PROVE Goal
  BY <1>12, <1>3 DEF ClaimError, Quiet
<1>13. ASSUME ClaimReplyLost(w) PROVE Goal
  BY <1>13, <1>3 DEF ClaimReplyLost, Claims, Fault
<1>14. ASSUME Complete(w) PROVE Goal
  BY <1>14, <1>3 DEF Complete, Settles
<1>15. ASSUME Fail(w) PROVE Goal
  BY <1>15, <1>3 DEF Fail, Settles
<1>16. ASSUME Advance(w) PROVE Goal
  BY <1>16, <1>3, <1>5 DEF Advance, Settles
<1>17. ASSUME AdvanceFindsNoRow(w) PROVE Goal
  BY <1>17, <1>3 DEF AdvanceFindsNoRow, Quiet
<1>18. ASSUME SettleError(w) PROVE Goal
  BY <1>18, <1>3, <1>5 DEF SettleError, Settles, Quiet
<1>19. ASSUME PushNext(w) \/ PushNextError(w) PROVE Goal
  BY <1>19, <1>3 DEF PushNext, PushNextError, Quiet
<1>20. ASSUME Acknowledge(w) \/ AckError(w) PROVE Goal
  BY <1>20, <1>3 DEF Acknowledge, AckError, AfterAck, Quiet
<1>21. ASSUME Shutdown(w) PROVE Goal
  BY <1>21, <1>3 DEF Shutdown, Quiet
<1>22. ASSUME Crash(w) PROVE Goal
  BY <1>22, <1>3 DEF Crash, Up, Quiet
<1>23. ASSUME FalseExpiry(w) PROVE Goal
  BY <1>23, <1>4 DEF FalseExpiry, Fault, Quiet
<1>. QED
  BY <1>2, <1>6, <1>7, <1>8, <1>9, <1>10, <1>11, <1>12, <1>13, <1>14, <1>15, <1>16, <1>17, <1>18, <1>19, <1>20, <1>21, <1>22, <1>23
     DEF WorkerNext, WorkerStep, WorkerFault

(* A step of the sweeper changes no row but to fail the one it has found   *)
(* orphaned, and touches neither workers nor heartbeats.                   *)
LEMMA SweeperCases ==
  ASSUME SweeperNext
  PROVE  /\ UNCHANGED <<wpc, wjob, heartbeat>>
         /\ \/ jobs' = jobs
            \/ \E v \in victim : /\ MarkFailed(v.job, "due")
                                 /\ victim' = {} /\ orphans' = orphans
<1>1. UNCHANGED <<wpc, wjob>>
  BY DEF SweeperNext, workerVars
<1>2. heartbeat' = heartbeat
  BY DEF SweeperNext, SweeperStep, SweeperFault, BeginSweep, CheckRef,
         ReclaimOne, ReclaimDone, BeginRevive, CheckOrphan, Revive,
         BeginPromote, BeginRepush, EndSweep, SweepPush, SkipItem, ListError,
         SweeperCrash
<1>3. ASSUME NEW v \in victim, Revive(v)
      PROVE  MarkFailed(v.job, "due") /\ victim' = {} /\ orphans' = orphans
  BY <1>3 DEF Revive
<1>4. jobs' = jobs \/ \E v \in victim : Revive(v)
  BY DEF SweeperNext, SweeperStep, SweeperFault, BeginSweep, CheckRef,
         ReclaimOne, ReclaimDone, BeginRevive, CheckOrphan,
         BeginPromote, BeginRepush, EndSweep, SweepPush, SkipItem, ListError,
         SweeperCrash
<1>. QED
  BY <1>1, <1>2, <1>3, <1>4

(* What the sweeper does to the rows it has listed.                        *)
LEMMA SweeperLists ==
  ASSUME SweeperNext
  PROVE  \/ UNCHANGED <<orphans, victim>>
         \/ victim' = {} /\ orphans' \subseteq orphans
         \/ victim' = victim /\ orphans' \subseteq orphans
         \/ /\ orphans' = {o \in Claimed : RunningBy(o.job, o.worker)}
            /\ victim' = victim /\ pass = "reclaim"
         \/ \E o \in orphans : /\ orphans' = orphans \ {o} /\ victim' = {o}
                               /\ o.worker \notin heartbeat
  BY DEF SweeperNext, SweeperStep, SweeperFault, BeginSweep, CheckRef,
         ReclaimOne, ReclaimDone, BeginRevive, CheckOrphan, Revive,
         BeginPromote, BeginRepush, EndSweep, SweepPush, SkipItem, ListError,
         SweeperCrash, IsWorkerAlive, sweeperVars

-----------------------------------------------------------------------------
(* The retry budget.                                                       *)

(* Every statement of the store keeps the budget of the row it writes, and *)
(* touches no other row.                                                   *)
LEMMA StatementsKeepBudget ==
  ASSUME JobsTypeOK, RetryBudget, NEW j \in JobIds,
         \/ EnqueueJob(j)
         \/ \E w \in Workers : ClaimJob(j, w)
         \/ MarkDone(j)
         \/ \E n \in {"due", "future"} : MarkFailed(j, n)
         \/ \E s \in Stages : AdvanceJob(j, s)
         \/ BackoffElapses(j) \/ AgeOut(j)
  PROVE  RetryBudget'
<1> USE DEF RetryBudget, Terminal
<1>1. jobs \in [JobIds -> Job] /\ \A k \in JobIds : jobs[k].attempts \in Nat
  BY DEF JobsTypeOK, Job
<1>2. CASE EnqueueJob(j)
  BY <1>2, EnqueueJobEffect DEF OnlyRow
<1>3. ASSUME NEW w \in Workers, ClaimJob(j, w) PROVE RetryBudget'
  BY <1>3, ClaimJobEffect DEF OnlyRow
<1>4. CASE MarkDone(j)
  BY <1>4, MarkDoneEffect DEF OnlyRow
<1>5. ASSUME NEW n \in {"due", "future"}, MarkFailed(j, n) PROVE RetryBudget'
  <2>1. /\ jobs'[j].attempts = jobs[j].attempts + 1
        /\ jobs'[j].status = FailedStatus(jobs[j]) /\ OnlyRow(j)
    BY <1>5, MarkFailedEffect
  <2>. QED
    BY <1>1, <2>1, JobStoreAssumption DEF OnlyRow, FailedStatus
<1>6. ASSUME NEW s \in Stages, AdvanceJob(j, s) PROVE RetryBudget'
  BY <1>6, AdvanceJobEffect DEF OnlyRow
<1>7. CASE BackoffElapses(j) \/ AgeOut(j)
  BY <1>7, ClockEffect
<1>. QED
  BY <1>2, <1>3, <1>4, <1>5, <1>6, <1>7

(* Every step of the system writes at most one row, by one statement.      *)
LEMMA OneStatement ==
  ASSUME TypeOK, Next
  PROVE  \/ jobs' = jobs
         \/ \E j \in JobIds :
              \/ EnqueueJob(j)
              \/ \E w \in Workers : ClaimJob(j, w)
              \/ MarkDone(j)
              \/ \E n \in {"due", "future"} : MarkFailed(j, n)
              \/ \E s \in Stages : AdvanceJob(j, s)
              \/ BackoffElapses(j) \/ AgeOut(j)
<1> DEFINE Goal == \/ jobs' = jobs
                   \/ \E j \in JobIds :
                        \/ EnqueueJob(j)
                        \/ \E w \in Workers : ClaimJob(j, w)
                        \/ MarkDone(j)
                        \/ \E n \in {"due", "future"} : MarkFailed(j, n)
                        \/ \E s \in Stages : AdvanceJob(j, s)
                        \/ BackoffElapses(j) \/ AgeOut(j)
<1>1. ASSUME NEW w \in Workers, WorkerNext(w) PROVE Goal
  <2>1. Quiet(w) \/ Claims(w) \/ Settles(w)
    BY <1>1, WorkerCases
  <2>2. wpc[w] \in {"popped", "working"} => wjob[w] \in JobIds
    BY DEF TypeOK
  <2>. QED
    BY <2>1, <2>2 DEF Quiet, Claims, Settles
<1>2. CASE SweeperNext
  <2>1. \A v \in victim : v.job \in JobIds
    BY DEF TypeOK, SweeperTypeOK, Claimed
  <2>. QED
    BY <1>2, <2>1, SweeperCases
<1>3. ASSUME NEW j \in JobIds, Produce(j) \/ ProducerPush(j) \/ ProducerPushLost(j)
      PROVE  Goal
  BY <1>3 DEF Produce, ProducerPush, ProducerPushLost
<1>4. ASSUME NEW w \in Workers, DeadKeyExpires(w) PROVE Goal
  BY <1>4 DEF DeadKeyExpires
<1>5. ASSUME NEW j \in JobIds, Clock(j) PROVE Goal
  BY <1>5 DEF Clock
<1>. QED
  BY <1>1, <1>2, <1>3, <1>4, <1>5 DEF Next

(* Whatever fails, and however late a worker or the sweeper calls          *)
(* MarkFailed (store.go:91), a job that may still run has attempts left    *)
(* and a dead one has none.                                                *)
THEOREM BudgetKept == Spec => []RetryBudget
<1>1. Init => RetryBudget
  <2>1. ASSUME Init, NEW j \in JobIds PROVE jobs[j] = NewJob(StartStage[j])
    BY <2>1 DEF Init
  <2>2. ASSUME NEW s PROVE NewJob(s).status = "absent" /\ NewJob(s).attempts = 0
    BY DEF NewJob
  <2>3. 0 < MaxAttempts
    BY JobStoreAssumption
  <2>. QED
    BY <2>1, <2>2, <2>3 DEF RetryBudget, Terminal
<1>2. TypeOK /\ RetryBudget /\ [Next]_vars => RetryBudget'
  <2>1. ASSUME TypeOK, RetryBudget, Next PROVE RetryBudget'
    <3>1. JobsTypeOK
      BY <2>1 DEF TypeOK
    <3>2. CASE jobs' = jobs
      BY <2>1, <3>2 DEF RetryBudget, Terminal
    <3>. QED
      BY <2>1, <3>1, <3>2, OneStatement, StatementsKeepBudget
  <2>2. ASSUME RetryBudget, UNCHANGED vars PROVE RetryBudget'
    BY <2>2 DEF vars, RetryBudget, Terminal
  <2>. QED
    BY <2>1, <2>2
<1>. QED
  BY <1>1, <1>2, TypeCorrect, PTL DEF Spec

-----------------------------------------------------------------------------
(* Claims under a live heartbeat.                                          *)

(* Unless the reply to a claim is lost, no worker that goes on leaves a    *)
(* claim behind: the fail-stop of Run (worker.go:54) is enough.            *)
THEOREM OwnersWork ==
  ASSUME "claim_reply" \notin Faults
  PROVE  Spec => []OwnerWorks
<1>1. Init => OwnerWorks
  BY DEF Init, NewJob, OwnerWorks, RunningBy
<1>2. TypeOK /\ OwnerWorks /\ [Next]_vars => OwnerWorks'
  <2> SUFFICES ASSUME TypeOK, OwnerWorks, Next PROVE OwnerWorks'
    BY DEF vars, OwnerWorks, RunningBy, Working
  <2> USE DEF OwnerWorks, RunningBy, Working
  <2>1. JobsTypeOK /\ WorkerTypeOK
    BY DEF TypeOK
  <2>2. ASSUME NEW w \in Workers, WorkerNext(w) PROVE OwnerWorks'
    <3>1. /\ Quiet(w) \/ Claims(w) \/ Settles(w)
          /\ OnlyWorker(w)
      BY <2>2, WorkerCases
    <3>2. wpc[w] \in {"popped", "working"} => wjob[w] \in JobIds
      BY DEF TypeOK
    <3>3. CASE Quiet(w)
      BY <3>1, <3>3 DEF Quiet, OnlyWorker, FreshId
    <3>4. CASE Claims(w)
      <4>1. /\ OnlyRow(wjob[w]) /\ jobs'[wjob[w]].status = "running"
            /\ jobs'[wjob[w]].worker = w /\ wpc[w] = "popped"
            /\ wjob' = wjob /\ wpc'[w] = "working" /\ wjob[w] \in JobIds
        BY <2>1, <3>2, <3>4, ClaimJobEffect DEF Claims
      <4>. QED
        BY <3>1, <4>1 DEF OnlyRow, OnlyWorker
    <3>5. CASE Settles(w)
      <4>1. /\ OnlyRow(wjob[w]) /\ jobs'[wjob[w]].status # "running"
            /\ wjob[w] \in JobIds
        BY <2>1, <3>2, <3>5, MarkDoneEffect, MarkFailedEffect, AdvanceJobEffect
           DEF Settles, FailedStatus
      <4>. QED
        BY <3>1, <3>5, <4>1 DEF OnlyRow, OnlyWorker, Settles
    <3>. QED
      BY <3>1, <3>3, <3>4, <3>5
  <2>3. CASE SweeperNext
    <3>1. \A v \in victim : v.job \in JobIds
      BY DEF TypeOK, SweeperTypeOK, Claimed
    <3>2. ASSUME NEW v \in victim, MarkFailed(v.job, "due")
          PROVE  OnlyRow(v.job) /\ jobs'[v.job].status # "running"
      BY <2>1, <3>1, <3>2, MarkFailedEffect DEF FailedStatus
    <3>3. wpc' = wpc /\ wjob' = wjob
      BY <2>3, SweeperCases
    <3>. QED
      BY <2>3, <3>1, <3>2, <3>3, SweeperCases DEF OnlyRow
  <2>4. ASSUME NEW j \in JobIds, Produce(j) PROVE OwnerWorks'
    BY <2>1, <2>4, EnqueueJobEffect DEF Produce, OnlyRow, workerVars
  <2>5. ASSUME NEW j \in JobIds, ProducerPush(j) \/ ProducerPushLost(j)
        PROVE  OwnerWorks'
    BY <2>5 DEF ProducerPush, ProducerPushLost, workerVars
  <2>6. ASSUME NEW w \in Workers, DeadKeyExpires(w) PROVE OwnerWorks'
    BY <2>6 DEF DeadKeyExpires, workerVars
  <2>7. ASSUME NEW j \in JobIds, Clock(j) PROVE OwnerWorks'
    BY <2>1, <2>7, ClockEffect DEF Clock, workerVars
  <2>. QED
    BY <2>2, <2>3, <2>4, <2>5, <2>6, <2>7 DEF Next
<1>. QED
  BY <1>1, <1>2, TypeCorrect, PTL DEF Spec

-----------------------------------------------------------------------------
(* One worker at a time.                                                   *)

(* ExclusiveProcessing is not inductive alone: that the sweeper never      *)
(* fails a job under its worker rests on what it has listed and checked.   *)
LeaseInv == TypeOK /\ ExclusiveProcessing /\ SweepSound

(* The heartbeats tell the truth, and a sweep is faster than their TTL.    *)
TruthfulHeartbeats == "expiry" \notin Faults /\ "slow_sweep" \notin Faults

(* A settling worker owns the row it settles, which then runs no more.     *)
LEMMA SettleEffect ==
  ASSUME LeaseInv, NEW w \in Workers, Settles(w)
  PROVE  /\ wjob[w] \in JobIds /\ OnlyRow(wjob[w])
         /\ RunningBy(wjob[w], w) /\ w \in heartbeat
         /\ jobs'[wjob[w]].status # "running"
<1>1. JobsTypeOK /\ wpc[w] = "working" /\ wjob[w] \in JobIds
  BY DEF LeaseInv, TypeOK, Settles
<1>2. RunningBy(wjob[w], w)
  BY <1>1 DEF LeaseInv, ExclusiveProcessing, Working
<1>3. w \in heartbeat
  BY <1>1 DEF LeaseInv, SweepSound, UpHasKey, Up
<1>4. OnlyRow(wjob[w]) /\ jobs'[wjob[w]].status # "running"
  BY <1>1, MarkDoneEffect, MarkFailedEffect, AdvanceJobEffect
     DEF Settles, FailedStatus
<1>. QED
  BY <1>1, <1>2, <1>3, <1>4

(* The sweeper fails a row only while it runs under a worker that is gone. *)
LEMMA ReviveEffect ==
  ASSUME LeaseInv, NEW v \in victim, MarkFailed(v.job, "due")
  PROVE  /\ v.job \in JobIds /\ v.worker \in Workers /\ OnlyRow(v.job)
         /\ RunningBy(v.job, v.worker) /\ wpc[v.worker] = "down"
         /\ jobs'[v.job].status # "running"
<1>1. JobsTypeOK /\ v.job \in JobIds /\ v.worker \in Workers
  BY DEF LeaseInv, TypeOK, SweeperTypeOK, Claimed
<1>2. RunningBy(v.job, v.worker) /\ v.worker \notin heartbeat
  BY DEF LeaseInv, SweepSound, VictimSound
<1>3. wpc[v.worker] = "down"
  BY <1>1, <1>2 DEF LeaseInv, SweepSound, UpHasKey, Up
<1>4. OnlyRow(v.job) /\ jobs'[v.job].status # "running"
  BY <1>1, MarkFailedEffect DEF FailedStatus
<1>. QED
  BY <1>1, <1>2, <1>3, <1>4

(* A step of a worker keeps the lease invariant.                           *)
LEMMA WorkerLeaseStep ==
  ASSUME TruthfulHeartbeats, LeaseInv, NEW w \in Workers, WorkerNext(w)
  PROVE  ExclusiveProcessing' /\ SweepSound'
<1>1. TypeOK /\ ExclusiveProcessing /\ UpHasKey /\ OrphansSound /\ VictimSound
      /\ ListedOnce
  BY DEF LeaseInv, SweepSound
<1>2. /\ Quiet(w) \/ Claims(w) \/ Settles(w)
      /\ OnlyWorker(w) /\ orphans' = orphans /\ victim' = victim
  BY <1>1, WorkerCases
<1>3. \/ heartbeat' = heartbeat /\ (wpc'[w] # "down" => wpc[w] # "down")
      \/ heartbeat' = heartbeat \cup {w} /\ ~Remembered(w)
  BY <1>1, WorkerCases DEF KeyStep, TruthfulHeartbeats, UpHasKey, Up
<1>4. \A o \in orphans \cup victim : o.job \in JobIds /\ o.worker \in Workers
  BY <1>1 DEF TypeOK, SweeperTypeOK, Claimed
<1>5. ListedOnce'
  <2>1. pass' = pass
    BY DEF WorkerNext, sweeperVars
  <2>. QED
    BY <1>1, <1>2, <2>1 DEF ListedOnce
<1>6. UpHasKey'
  BY <1>1, <1>2, <1>3 DEF UpHasKey, Up, OnlyWorker
<1>7. ASSUME Quiet(w) PROVE ExclusiveProcessing' /\ OrphansSound' /\ VictimSound'
  <2>1. ExclusiveProcessing'
    BY <1>1, <1>2, <1>7
       DEF Quiet, OnlyWorker, ExclusiveProcessing, Working, RunningBy
  <2>2. OrphansSound'
    BY <1>1, <1>2, <1>3, <1>7 DEF Quiet, OrphansSound, RunningBy
  <2>3. VictimSound'
    BY <1>1, <1>2, <1>3, <1>7 DEF Quiet, VictimSound, RunningBy, Remembered
  <2>. QED
    BY <2>1, <2>2, <2>3
<1>8. ASSUME Claims(w) PROVE ExclusiveProcessing' /\ OrphansSound' /\ VictimSound'
  <2>1. /\ wjob[w] \in JobIds /\ OnlyRow(wjob[w])
        /\ jobs[wjob[w]].status = "queued" /\ RunningBy(wjob[w], w)'
        /\ wjob' = wjob
    BY <1>1, <1>8, ClaimJobEffect DEF Claims, TypeOK, RunningBy
  <2>2. ExclusiveProcessing'
    BY <1>1, <1>2, <2>1
       DEF OnlyRow, OnlyWorker, ExclusiveProcessing, Working, RunningBy
  <2>3. OrphansSound'
    BY <1>1, <1>2, <1>3, <1>4, <2>1 DEF OnlyRow, OrphansSound, RunningBy
  <2>4. VictimSound'
    BY <1>1, <1>2, <1>3, <1>4, <2>1
       DEF OnlyRow, VictimSound, RunningBy, Remembered
  <2>. QED
    BY <2>2, <2>3, <2>4
<1>9. ASSUME Settles(w) PROVE ExclusiveProcessing' /\ OrphansSound' /\ VictimSound'
  <2>1. /\ wjob[w] \in JobIds /\ OnlyRow(wjob[w])
        /\ RunningBy(wjob[w], w) /\ w \in heartbeat
    BY <1>9, SettleEffect
  <2>2. wpc'[w] # "working"
    BY <1>9 DEF Settles
  <2>3. ExclusiveProcessing'
    BY <1>1, <1>2, <2>1, <2>2
       DEF OnlyRow, OnlyWorker, ExclusiveProcessing, Working, RunningBy
  <2>4. OrphansSound'
    BY <1>1, <1>2, <1>3, <1>4, <2>1 DEF OnlyRow, OrphansSound, RunningBy
  <2>5. VictimSound'
    BY <1>1, <1>2, <1>3, <1>4, <2>1
       DEF OnlyRow, VictimSound, RunningBy, Remembered
  <2>. QED
    BY <2>3, <2>4, <2>5
<1>. QED
  BY <1>2, <1>5, <1>6, <1>7, <1>8, <1>9 DEF SweepSound

(* A step of the sweeper keeps the lease invariant.                        *)
LEMMA SweeperLeaseStep ==
  ASSUME LeaseInv, SweeperNext
  PROVE  ExclusiveProcessing' /\ SweepSound'
<1>1. TypeOK /\ ExclusiveProcessing /\ UpHasKey /\ OrphansSound /\ VictimSound
      /\ ListedOnce
  BY DEF LeaseInv, SweepSound
<1>2. wpc' = wpc /\ wjob' = wjob /\ heartbeat' = heartbeat
  BY SweeperCases
<1>3. \A o \in orphans \cup victim : o.job \in JobIds /\ o.worker \in Workers
  BY <1>1 DEF TypeOK, SweeperTypeOK, Claimed
<1>4. UpHasKey'
  BY <1>1, <1>2 DEF UpHasKey, Up
<1>5. ListedOnce'
  <2>1. pass' # "revive" => orphans' = {} /\ victim' = {}
    BY <1>1
       DEF ListedOnce, SweeperNext, SweeperStep, SweeperFault, BeginSweep,
           CheckRef, ReclaimOne, ReclaimDone, BeginRevive, CheckOrphan, Revive,
           BeginPromote, BeginRepush, EndSweep, SweepPush, SkipItem, ListError,
           SweeperCrash, sweeperVars
  <2>2. \A o, p \in {c \in Claimed : RunningBy(c.job, c.worker)} :
          o.job = p.job => o = p
    BY DEF Claimed, RunningBy
  <2>. QED
    BY <1>1, <2>1, <2>2, SweeperLists DEF ListedOnce
<1>6. CASE jobs' = jobs
  <2>1. ExclusiveProcessing'
    BY <1>1, <1>2, <1>6 DEF ExclusiveProcessing, Working, RunningBy
  <2>2. OrphansSound'
    BY <1>1, <1>2, <1>6, SweeperLists DEF OrphansSound, RunningBy
  <2>3. VictimSound'
    BY <1>1, <1>2, <1>6, SweeperLists DEF OrphansSound, VictimSound, RunningBy
  <2>. QED
    BY <1>4, <1>5, <2>1, <2>2, <2>3 DEF SweepSound
<1>7. ASSUME NEW v \in victim, MarkFailed(v.job, "due"), victim' = {},
             orphans' = orphans
      PROVE  ExclusiveProcessing' /\ OrphansSound' /\ VictimSound'
  <2>1. /\ v.job \in JobIds /\ v.worker \in Workers /\ OnlyRow(v.job)
        /\ RunningBy(v.job, v.worker) /\ wpc[v.worker] = "down"
    BY <1>7, ReviveEffect
  <2>2. ExclusiveProcessing'
    BY <1>1, <1>2, <2>1 DEF OnlyRow, ExclusiveProcessing, Working, RunningBy
  <2>3. \A o \in orphans : o.job # v.job
    BY <1>1 DEF ListedOnce
  <2>4. OrphansSound'
    BY <1>1, <1>2, <1>3, <1>7, <2>1, <2>3 DEF OnlyRow, OrphansSound, RunningBy
  <2>. QED
    BY <1>7, <2>2, <2>4 DEF VictimSound
<1>. QED
  BY <1>4, <1>5, <1>6, <1>7, SweeperCases DEF SweepSound

(* A step of a producer or of the clock keeps the lease invariant.         *)
LEMMA OtherLeaseStep ==
  ASSUME TruthfulHeartbeats, LeaseInv,
         \/ \E j \in JobIds : Produce(j) \/ ProducerPush(j) \/ ProducerPushLost(j)
         \/ \E w \in Workers : DeadKeyExpires(w)
         \/ \E j \in JobIds : Clock(j)
  PROVE  ExclusiveProcessing' /\ SweepSound'
<1>1. TypeOK /\ ExclusiveProcessing /\ UpHasKey /\ OrphansSound /\ VictimSound
      /\ ListedOnce /\ JobsTypeOK
  BY DEF LeaseInv, SweepSound, TypeOK
<1>2. \A o \in orphans \cup victim : o.job \in JobIds /\ o.worker \in Workers
  BY <1>1 DEF TypeOK, SweeperTypeOK, Claimed
<1>3. /\ wpc' = wpc /\ wjob' = wjob
      /\ pass' = pass /\ orphans' = orphans /\ victim' = victim
  BY DEF Produce, ProducerPush, ProducerPushLost, DeadKeyExpires, Clock,
         workerVars, sweeperVars
<1>4. ListedOnce'
  BY <1>1, <1>3 DEF ListedOnce
<1>5. ASSUME heartbeat' = heartbeat,
             \A k \in JobIds : \A w \in Workers :
                RunningBy(k, w) => RunningBy(k, w)'
      PROVE  ExclusiveProcessing' /\ SweepSound'
  <2>1. UpHasKey'
    BY <1>1, <1>3, <1>5 DEF UpHasKey, Up
  <2>2. ExclusiveProcessing'
    BY <1>1, <1>3, <1>5 DEF ExclusiveProcessing, Working
  <2>3. OrphansSound' /\ VictimSound'
    BY <1>1, <1>2, <1>3, <1>5 DEF OrphansSound, VictimSound
  <2>. QED
    BY <1>4, <2>1, <2>2, <2>3 DEF SweepSound
<1>6. ASSUME NEW j \in JobIds, Produce(j) PROVE ExclusiveProcessing' /\ SweepSound'
  <2>1. \A k \in JobIds : \A w \in Workers : RunningBy(k, w) => RunningBy(k, w)'
    BY <1>1, <1>6, EnqueueJobEffect DEF Produce, OnlyRow, RunningBy
  <2>. QED
    BY <1>5, <1>6, <2>1 DEF Produce
<1>7. ASSUME NEW j \in JobIds, ProducerPush(j) \/ ProducerPushLost(j)
      PROVE  ExclusiveProcessing' /\ SweepSound'
  BY <1>5, <1>7 DEF ProducerPush, ProducerPushLost, RunningBy
<1>8. ASSUME NEW j \in JobIds, Clock(j) PROVE ExclusiveProcessing' /\ SweepSound'
  <2>1. \A k \in JobIds : \A w \in Workers : RunningBy(k, w) => RunningBy(k, w)'
    BY <1>1, <1>8, ClockEffect DEF Clock, RunningBy
  <2>. QED
    BY <1>5, <1>8, <2>1 DEF Clock
<1>9. ASSUME NEW w \in Workers, DeadKeyExpires(w)
      PROVE  ExclusiveProcessing' /\ SweepSound'
  <2>1. /\ jobs' = jobs /\ heartbeat' = heartbeat \ {w} /\ wpc[w] = "down"
        /\ \A o \in orphans : o.worker # w
    BY <1>9 DEF DeadKeyExpires, KeyExpires, Up, SweepIsTimely, TruthfulHeartbeats
  <2>2. UpHasKey'
    BY <1>1, <1>3, <2>1 DEF UpHasKey, Up
  <2>3. ExclusiveProcessing'
    BY <1>1, <1>3, <2>1 DEF ExclusiveProcessing, Working, RunningBy
  <2>4. OrphansSound' /\ VictimSound'
    BY <1>1, <1>3, <2>1 DEF OrphansSound, VictimSound, RunningBy
  <2>. QED
    BY <1>4, <2>2, <2>3, <2>4 DEF SweepSound
<1>. QED
  BY <1>6, <1>7, <1>8, <1>9

(* The initial state satisfies the lease invariant.                        *)
LEMMA LeaseInit == Init => LeaseInv
<1>1. Init => ExclusiveProcessing
  BY DEF Init, WorkerInit, ExclusiveProcessing, Working
<1>2. Init => SweepSound
  BY DEF Init, WorkerInit, SweeperInit, SweepSound, UpHasKey, Up, OrphansSound,
         VictimSound, ListedOnce
<1>. QED
  BY <1>1, <1>2, TypeInit DEF LeaseInv

(* Every step keeps it, while heartbeats tell the truth.                   *)
LEMMA LeaseStep ==
  ASSUME TruthfulHeartbeats
  PROVE  LeaseInv /\ [Next]_vars => LeaseInv'
<1>1. ASSUME LeaseInv, Next PROVE LeaseInv'
  <2>1. TypeOK'
    BY <1>1, TypeStep DEF LeaseInv
  <2>2. ExclusiveProcessing' /\ SweepSound'
    BY <1>1, WorkerLeaseStep, SweeperLeaseStep, OtherLeaseStep DEF Next
  <2>. QED
    BY <2>1, <2>2 DEF LeaseInv
<1>2. ASSUME LeaseInv, UNCHANGED vars PROVE LeaseInv'
  <2>1. TypeOK'
    BY <1>2, TypeStep DEF LeaseInv
  <2>2. ExclusiveProcessing' /\ SweepSound'
    BY <1>2 DEF LeaseInv, vars, ExclusiveProcessing, Working, RunningBy,
                SweepSound, UpHasKey, Up, OrphansSound, VictimSound, ListedOnce
  <2>. QED
    BY <2>1, <2>2 DEF LeaseInv
<1>. QED
  BY <1>1, <1>2

(* While heartbeats tell the truth, a worker that executes a handler       *)
(* (worker.go:95) owns the row: two workers never execute one job, through *)
(* any crashes, shutdowns, lost pushes, lost replies and failed calls, and *)
(* however many duplicates of an id the sweeper has put into Redis.        *)
THEOREM OneWorkerAtATime ==
  ASSUME TruthfulHeartbeats
  PROVE  Spec => []ExclusiveProcessing
<1>1. LeaseInv => ExclusiveProcessing
  BY DEF LeaseInv
<1>. QED
  BY <1>1, LeaseInit, LeaseStep, PTL DEF Spec

(* Under the same assumption, what reviveOrphans (sweeper.go:92) acts on   *)
(* is still true when it acts.                                             *)
THEOREM SweepsAreSound ==
  ASSUME TruthfulHeartbeats
  PROVE  Spec => []SweepSound
<1>1. LeaseInv => SweepSound
  BY DEF LeaseInv
<1>. QED
  BY <1>1, LeaseInit, LeaseStep, PTL DEF Spec

(* Under the same assumption, a job that is done or dead stays so, though  *)
(* MarkDone and MarkFailed (store.go:75, 91) would overwrite any status.   *)
THEOREM TerminalStays ==
  ASSUME TruthfulHeartbeats
  PROVE  Spec => TerminalStable
<1> DEFINE Stable == \A j \in JobIds : Terminal(j) => jobs'[j].status = jobs[j].status
<1>1. LeaseInv /\ [Next]_vars => [Stable]_vars
  <2> SUFFICES ASSUME LeaseInv, Next PROVE Stable
    OBVIOUS
  <2> USE DEF Terminal
  <2>1. TypeOK /\ JobsTypeOK
    BY DEF LeaseInv, TypeOK
  <2>2. ASSUME NEW w \in Workers, WorkerNext(w) PROVE Stable
    <3>1. CASE Quiet(w)
      BY <3>1 DEF Quiet
    <3>2. CASE Claims(w)
      BY <2>1, <3>2, ClaimJobEffect DEF Claims, TypeOK, OnlyRow
    <3>3. CASE Settles(w)
      BY <3>3, SettleEffect DEF OnlyRow, RunningBy
    <3>. QED
      BY <2>1, <2>2, <3>1, <3>2, <3>3, WorkerCases
  <2>3. CASE SweeperNext
    <3>1. ASSUME NEW v \in victim, MarkFailed(v.job, "due") PROVE Stable
      BY <3>1, ReviveEffect DEF OnlyRow, RunningBy
    <3>. QED
      BY <2>3, <3>1, SweeperCases
  <2>4. ASSUME NEW j \in JobIds, Produce(j) PROVE Stable
    BY <2>1, <2>4, EnqueueJobEffect DEF Produce, OnlyRow
  <2>5. ASSUME NEW j \in JobIds, ProducerPush(j) \/ ProducerPushLost(j) PROVE Stable
    BY <2>5 DEF ProducerPush, ProducerPushLost
  <2>6. ASSUME NEW w \in Workers, DeadKeyExpires(w) PROVE Stable
    BY <2>6 DEF DeadKeyExpires
  <2>7. ASSUME NEW j \in JobIds, Clock(j) PROVE Stable
    BY <2>1, <2>7, ClockEffect DEF Clock
  <2>. QED
    BY <2>2, <2>3, <2>4, <2>5, <2>6, <2>7 DEF Next
<1>. QED
  BY <1>1, LeaseInit, LeaseStep, PTL DEF Spec, TerminalStable

-----------------------------------------------------------------------------
(* What is left of exclusion when heartbeats may lie.                      *)

(* A worker executing a job that has never failed owns its row.            *)
NeverFailedOwned ==
  \A w \in Workers : \A j \in JobIds :
    Working(w, j) /\ jobs[j].lastError = "null" => RunningBy(j, w)

(* A worker comes to execute a job by claiming it, and a settled job is    *)
(* executed by others only if it had been failed under them.               *)
LEMMA WorkerKeepsOwned ==
  ASSUME TypeOK, NeverFailedOwned, NEW w \in Workers, WorkerNext(w)
  PROVE  NeverFailedOwned'
<1>1. JobsTypeOK
  BY DEF TypeOK
<1>2. /\ Quiet(w) \/ Claims(w) \/ Settles(w)
      /\ OnlyWorker(w)
  BY WorkerCases
<1>3. wpc[w] \in {"popped", "working"} => wjob[w] \in JobIds
  BY DEF TypeOK
<1> USE DEF NeverFailedOwned, Working, RunningBy
<1>4. CASE Quiet(w)
  BY <1>2, <1>4 DEF Quiet, OnlyWorker
<1>5. CASE Claims(w)
  <2>1. /\ wjob[w] \in JobIds /\ OnlyRow(wjob[w]) /\ wjob' = wjob
        /\ jobs[wjob[w]].status = "queued" /\ jobs'[wjob[w]].status = "running"
        /\ jobs'[wjob[w]].worker = w
        /\ jobs'[wjob[w]].lastError = jobs[wjob[w]].lastError
    BY <1>1, <1>3, <1>5, ClaimJobEffect DEF Claims
  <2>. QED
    BY <1>2, <2>1 DEF OnlyRow, OnlyWorker
<1>6. CASE Settles(w)
  <2>1. wjob[w] \in JobIds /\ wpc[w] = "working" /\ wpc'[w] # "working"
    BY <1>3, <1>6 DEF Settles
  <2>2. OnlyRow(wjob[w])
    BY <1>1, <1>6, <2>1, MarkDoneEffect, MarkFailedEffect, AdvanceJobEffect
       DEF Settles
  <2>3. jobs[wjob[w]].lastError = "set" => jobs'[wjob[w]].lastError = "set"
    BY <1>1, <1>6, <2>1, MarkDoneEffect, MarkFailedEffect, AdvanceJobEffect
       DEF Settles
  <2>4. jobs[wjob[w]].lastError \in {"null", "set"}
    BY <1>1, <2>1 DEF JobsTypeOK, Job
  <2>5. ASSUME NEW x \in Workers \ {w}, wpc[x] = "working", wjob[x] = wjob[w]
        PROVE  jobs[wjob[w]].lastError = "set"
    BY <2>1, <2>4, <2>5
  <2>. QED
    BY <1>2, <2>1, <2>2, <2>3, <2>5 DEF OnlyRow, OnlyWorker
<1>. QED
  BY <1>2, <1>4, <1>5, <1>6

(* Whatever fails, false expiry and stalled sweeps included, no two workers*)
(* execute a job that has never failed: the only way to take a job from a  *)
(* worker that executes it is MarkFailed (store.go:91), which leaves its   *)
(* mark, and no statement takes the mark away.  So the first execution of  *)
(* a stage overlaps with no other.                                         *)
THEOREM UnfailedIsExclusive == Spec => []NeverFailedOwned
<1>1. Init => NeverFailedOwned
  BY DEF Init, WorkerInit, NeverFailedOwned, Working
<1>2. TypeOK /\ NeverFailedOwned /\ [Next]_vars => NeverFailedOwned'
  <2> SUFFICES ASSUME TypeOK, NeverFailedOwned, [Next]_vars
               PROVE  NeverFailedOwned'
    OBVIOUS
  <2>1. JobsTypeOK
    BY DEF TypeOK
  <2> USE DEF NeverFailedOwned, Working, RunningBy
  <2>2. ASSUME NEW w \in Workers, WorkerNext(w) PROVE NeverFailedOwned'
    BY <2>2, WorkerKeepsOwned
  <2>3. CASE SweeperNext
    <3>1. wpc' = wpc /\ wjob' = wjob
      BY <2>3, SweeperCases
    <3>2. ASSUME NEW v \in victim, MarkFailed(v.job, "due")
          PROVE  \A j \in JobIds : jobs'[j] = jobs[j] \/ jobs'[j].lastError = "set"
      <4>1. v.job \in JobIds
        BY DEF TypeOK, SweeperTypeOK, Claimed
      <4>. QED
        BY <2>1, <3>2, <4>1, MarkFailedEffect DEF OnlyRow
    <3>3. \A j \in JobIds : jobs'[j] = jobs[j] \/ jobs'[j].lastError = "set"
      BY <2>3, <3>2, SweeperCases
    <3>. QED
      BY <3>1, <3>3
  <2>4. ASSUME NEW j \in JobIds, Produce(j) PROVE NeverFailedOwned'
    <3>1. /\ OnlyRow(j) /\ jobs[j].status = "absent"
          /\ jobs'[j].lastError = jobs[j].lastError
          /\ wpc' = wpc /\ wjob' = wjob
      BY <2>1, <2>4, EnqueueJobEffect DEF Produce, workerVars
    <3>. QED
      BY <3>1 DEF OnlyRow
  <2>5. ASSUME NEW j \in JobIds, ProducerPush(j) \/ ProducerPushLost(j)
        PROVE  NeverFailedOwned'
    BY <2>5 DEF ProducerPush, ProducerPushLost, workerVars
  <2>6. ASSUME NEW w \in Workers, DeadKeyExpires(w) PROVE NeverFailedOwned'
    BY <2>6 DEF DeadKeyExpires, workerVars
  <2>7. ASSUME NEW j \in JobIds, Clock(j) PROVE NeverFailedOwned'
    <3>1. \A k \in JobIds : /\ jobs'[k].status = jobs[k].status
                            /\ jobs'[k].worker = jobs[k].worker
                            /\ jobs'[k].lastError = jobs[k].lastError
      BY <2>1, <2>7, ClockEffect DEF Clock
    <3>2. wpc' = wpc /\ wjob' = wjob
      BY <2>7 DEF Clock, workerVars
    <3>. QED
      BY <3>1, <3>2
  <2>8. CASE UNCHANGED vars
    BY <2>8 DEF vars, workerVars
  <2>. QED
    BY <2>2, <2>3, <2>4, <2>5, <2>6, <2>7, <2>8 DEF Next
<1>. QED
  BY <1>1, <1>2, TypeInit, TypeStep, PTL DEF Spec

-----------------------------------------------------------------------------
(* The task queue implements JobLifecycle: every step of a worker, of the  *)
(* sweeper, of a producer or of the clock is a step of one job's life      *)
(* cycle, or none.                                                         *)

(* The refinement mapping of TaskQueue, by name.                           *)
StateOf     == [j \in JobIds |-> jobs[j].status]
AttemptsOf  == [j \in JobIds |-> jobs[j].attempts]
ExecutingOf == [j \in JobIds |-> Executors(j)]

(* Only a running row has executors, and at most one: its owner.           *)
LEMMA ExecutorsOwn ==
  ASSUME ExclusiveProcessing, NEW j \in JobIds
  PROVE  /\ jobs[j].status # "running" => Executors(j) = {}
         /\ \A w \in Workers : Working(w, j) => Executors(j) = {w}
         /\ \A w \in Workers : RunningBy(j, w) /\ ~Working(w, j)
                                 => Executors(j) = {}
<1>1. ASSUME NEW x \in Executors(j)
      PROVE  x \in Workers /\ jobs[j].status = "running" /\ x = jobs[j].worker
             /\ Working(x, j)
  BY <1>1 DEF Executors, ExclusiveProcessing, RunningBy
<1>2. ASSUME NEW w \in Workers, Working(w, j)
      PROVE  Executors(j) = {w}
  <2>1. w \in Executors(j)
    BY <1>2 DEF Executors
  <2>. QED
    BY <1>1, <2>1
<1>3. jobs[j].status # "running" => Executors(j) = {}
  BY <1>1
<1>4. ASSUME NEW w \in Workers, RunningBy(j, w), ~Working(w, j)
      PROVE  Executors(j) = {}
  BY <1>1, <1>4 DEF RunningBy
<1>. QED
  BY <1>2, <1>3, <1>4

(* A worker that neither begins nor ends to execute a job changes no       *)
(* executors of it.                                                        *)
LEMMA ExecutorsKept ==
  ASSUME NEW w \in Workers, OnlyWorker(w), NEW k,
         Working(w, k)' <=> Working(w, k)
  PROVE  Executors(k)' = Executors(k)
  BY DEF OnlyWorker, Executors, Working

(* The images of a step under the mapping, from what it does to one row.   *)
LEMMA MappedRow ==
  ASSUME NEW j \in JobIds, OnlyRow(j)
  PROVE  /\ StateOf' = [StateOf EXCEPT ![j] = jobs'[j].status]
         /\ AttemptsOf' = [AttemptsOf EXCEPT ![j] = jobs'[j].attempts]
         /\ jobs'[j].attempts = jobs[j].attempts => AttemptsOf' = AttemptsOf
  BY DEF OnlyRow, StateOf, AttemptsOf

(* The executors of one job change, those of the others do not.            *)
LEMMA MappedExecutors ==
  ASSUME NEW j \in JobIds,
         \A k \in JobIds \ {j} : Executors(k)' = Executors(k)
  PROVE  ExecutingOf' = [ExecutingOf EXCEPT ![j] = Executors(j)']
  BY DEF ExecutingOf

(* MarkFailed on a running row is UseAttempt, once its executor is gone.   *)
LEMMA FailedIsUseAttempt ==
  ASSUME JobsTypeOK, RetryBudget, NEW j \in JobIds,
         NEW n \in {"due", "future"}, MarkFailed(j, n),
         jobs[j].status = "running",
         ExecutingOf' = [ExecutingOf EXCEPT ![j] = {}]
  PROVE  Lifecycle!UseAttempt(j)
<1>1. /\ jobs'[j].attempts = jobs[j].attempts + 1
      /\ jobs'[j].status = FailedStatus(jobs[j]) /\ OnlyRow(j)
  BY MarkFailedEffect
<1>2. jobs[j].attempts \in Nat /\ jobs[j].attempts < MaxAttempts
  BY DEF JobsTypeOK, Job, RetryBudget, Terminal
<1>3. FailedStatus(jobs[j])
        = IF jobs[j].attempts + 1 = MaxAttempts THEN "dead" ELSE "queued"
  BY <1>2, JobStoreAssumption DEF FailedStatus
<1>4. /\ StateOf' = [StateOf EXCEPT ![j] = FailedStatus(jobs[j])]
      /\ AttemptsOf' = [AttemptsOf EXCEPT ![j] = jobs[j].attempts + 1]
  BY <1>1, MappedRow
<1>5. StateOf[j] = "running" /\ AttemptsOf[j] = jobs[j].attempts
  BY DEF StateOf, AttemptsOf
<1>. QED
  BY <1>2, <1>3, <1>4, <1>5
     DEF Lifecycle!UseAttempt, Lifecycle!SetState, StateOf, AttemptsOf, ExecutingOf

(* A step of a worker is Begin, Abandon, Succeed, UseAttempt or nothing.   *)
LEMMA WorkerRefines ==
  ASSUME LeaseInv, RetryBudget, "claim_reply" \notin Faults,
         NEW w \in Workers, WorkerNext(w)
  PROVE  \/ UNCHANGED <<StateOf, AttemptsOf, ExecutingOf>>
         \/ \E j \in JobIds :
              \/ Lifecycle!UseAttempt(j)
              \/ Lifecycle!Begin(j, w)
              \/ Lifecycle!Abandon(j, w)
              \/ Lifecycle!Succeed(j, w)
<1>1. TypeOK /\ JobsTypeOK /\ ExclusiveProcessing
  BY DEF LeaseInv, TypeOK
<1>2. /\ Quiet(w) \/ Claims(w) \/ Settles(w)
      /\ OnlyWorker(w)
  BY <1>1, WorkerCases
<1>3. wpc[w] \in {"popped", "working"} => wjob[w] \in JobIds
  BY <1>1 DEF TypeOK
<1>0. PICK j : j = wjob[w]
  OBVIOUS
<1>4. CASE Quiet(w) /\ (wpc[w] = "working" => wpc'[w] = "working")
  <2>1. \A k : Working(w, k)' <=> Working(w, k)
    BY <1>4 DEF Quiet, Working
  <2>2. \A k \in JobIds : Executors(k)' = Executors(k)
    BY <1>2, <2>1, ExecutorsKept
  <2>. QED
    BY <1>4, <2>2 DEF Quiet, StateOf, AttemptsOf, ExecutingOf
<1>5. CASE Quiet(w) /\ wpc[w] = "working" /\ wpc'[w] # "working"
  <2>1. Working(w, j) /\ j \in JobIds
    BY <1>0, <1>3, <1>5 DEF Working
  <2>2. Executors(j) = {w} /\ jobs[j].status = "running"
    BY <1>1, <2>1, ExecutorsOwn DEF ExclusiveProcessing, RunningBy
  <2>3. Executors(j)' = {}
    BY <1>0, <1>2, <1>5, <2>2 DEF Executors, OnlyWorker, Working
  <2>4. \A k \in JobIds \ {j} : Executors(k)' = Executors(k)
    BY <1>0, <1>2, <1>5, ExecutorsKept DEF Quiet, Working
  <2>5. ExecutingOf' = [ExecutingOf EXCEPT ![j] = {}]
    BY <2>1, <2>3, <2>4, MappedExecutors
  <2>6. StateOf' = StateOf /\ AttemptsOf' = AttemptsOf
    BY <1>5 DEF Quiet, StateOf, AttemptsOf
  <2>7. Lifecycle!Abandon(j, w)
    BY <2>1, <2>2, <2>5, <2>6
       DEF Lifecycle!Abandon, StateOf, AttemptsOf, ExecutingOf
  <2>. QED
    BY <2>1, <2>7
<1>6. CASE Claims(w)
  <2>1. /\ j \in JobIds /\ wpc[w] = "popped" /\ wpc'[w] = "working"
        /\ ClaimJob(j, w) /\ wjob' = wjob
    BY <1>0, <1>3, <1>6 DEF Claims
  <2>2. /\ OnlyRow(j) /\ jobs[j].status = "queued"
        /\ jobs'[j].status = "running" /\ jobs'[j].attempts = jobs[j].attempts
    BY <1>1, <2>1, ClaimJobEffect
  <2>3. Executors(j) = {}
    BY <1>1, <2>1, <2>2, ExecutorsOwn
  <2>4. wpc \in [Workers -> WorkerPcs] /\ wpc'[w] = "working" /\ wjob'[w] = j
    BY <1>0, <1>1, <2>1 DEF TypeOK, WorkerTypeOK
  <2>5. Executors(j)' = {w}
    BY <1>2, <2>3, <2>4 DEF Executors, OnlyWorker, Working
  <2>6. \A k \in JobIds \ {j} : Executors(k)' = Executors(k)
    BY <1>0, <1>2, <2>1, ExecutorsKept DEF Working
  <2>7. ExecutingOf' = [ExecutingOf EXCEPT ![j] = {w}]
    BY <2>1, <2>5, <2>6, MappedExecutors
  <2>8. StateOf' = [StateOf EXCEPT ![j] = "running"] /\ AttemptsOf' = AttemptsOf
    BY <2>1, <2>2, MappedRow
  <2>9. Lifecycle!Begin(j, w)
    BY <2>1, <2>2, <2>3, <2>7, <2>8
       DEF Lifecycle!Begin, Lifecycle!SetState, StateOf, AttemptsOf, ExecutingOf
  <2>. QED
    BY <2>1, <2>9
<1>7. CASE Settles(w)
  <2>1. Working(w, j) /\ j \in JobIds /\ wpc'[w] # "working"
    BY <1>0, <1>3, <1>7 DEF Settles, Working
  <2>2. Executors(j) = {w} /\ jobs[j].status = "running"
    BY <1>1, <2>1, ExecutorsOwn DEF ExclusiveProcessing, RunningBy
  <2>3. Executors(j)' = {}
    BY <1>2, <2>1, <2>2 DEF Executors, OnlyWorker, Working
  <2>4. \A k \in JobIds \ {j} : Executors(k)' = Executors(k)
    BY <1>0, <1>2, <2>1, ExecutorsKept DEF Working
  <2>5. ExecutingOf' = [ExecutingOf EXCEPT ![j] = {}]
    BY <2>1, <2>3, <2>4, MappedExecutors
  <2>6. CASE MarkFailed(j, "future")
    BY <1>1, <2>1, <2>2, <2>5, <2>6, FailedIsUseAttempt
  <2>7. ASSUME OnlyRow(j), jobs'[j].attempts = jobs[j].attempts,
               jobs'[j].status \in {"done", "queued"}
        PROVE  Lifecycle!Succeed(j, w)
    <3>1. /\ StateOf' = [StateOf EXCEPT ![j] = jobs'[j].status]
          /\ AttemptsOf' = AttemptsOf
      BY <2>1, <2>7, MappedRow
    <3>. QED
      BY <2>1, <2>2, <2>5, <2>7, <3>1
         DEF Lifecycle!Succeed, Lifecycle!SetState, StateOf, AttemptsOf, ExecutingOf
  <2>8. CASE MarkDone(j)
    BY <1>1, <2>1, <2>7, <2>8, MarkDoneEffect
  <2>9. ASSUME NEW s \in Stages, AdvanceJob(j, s) PROVE Lifecycle!Succeed(j, w)
    BY <1>1, <2>1, <2>7, <2>9, AdvanceJobEffect
  <2>. QED
    BY <1>0, <1>7, <2>1, <2>6, <2>8, <2>9 DEF Settles
<1>. QED
  BY <1>2, <1>4, <1>5, <1>6, <1>7

(* A step of the sweeper is the reaping of a dead worker's claim or none.  *)
LEMMA SweeperRefines ==
  ASSUME LeaseInv, RetryBudget, SweeperNext
  PROVE  \/ UNCHANGED <<StateOf, AttemptsOf, ExecutingOf>>
         \/ \E j \in JobIds : Lifecycle!UseAttempt(j)
<1>1. JobsTypeOK /\ ExclusiveProcessing
  BY DEF LeaseInv, TypeOK
<1>2. wpc' = wpc /\ wjob' = wjob
  BY SweeperCases
<1>3. \A k \in JobIds : Executors(k)' = Executors(k)
  BY <1>2 DEF Executors, Working
<1>4. CASE jobs' = jobs
  BY <1>3, <1>4 DEF StateOf, AttemptsOf, ExecutingOf
<1>5. ASSUME NEW v \in victim, MarkFailed(v.job, "due")
      PROVE  v.job \in JobIds /\ Lifecycle!UseAttempt(v.job)
  <2>1. /\ v.job \in JobIds /\ v.worker \in Workers
        /\ RunningBy(v.job, v.worker) /\ wpc[v.worker] = "down"
    BY <1>5, ReviveEffect
  <2>2. Executors(v.job) = {}
    BY <1>1, <2>1, ExecutorsOwn DEF Working
  <2>3. ExecutingOf' = [ExecutingOf EXCEPT ![v.job] = {}]
    BY <1>3, <2>1, <2>2, MappedExecutors
  <2>. QED
    BY <1>1, <1>5, <2>1, <2>3, FailedIsUseAttempt DEF RunningBy
<1>. QED
  BY <1>4, <1>5, SweeperCases

(* A producer submits; its push, the clock and Redis change no life cycle. *)
LEMMA OtherRefines ==
  ASSUME TypeOK,
         \/ \E j \in JobIds : Produce(j) \/ ProducerPush(j) \/ ProducerPushLost(j)
         \/ \E w \in Workers : DeadKeyExpires(w)
         \/ \E j \in JobIds : Clock(j)
  PROVE  \/ UNCHANGED <<StateOf, AttemptsOf, ExecutingOf>>
         \/ \E j \in JobIds : Lifecycle!Submit(j)
<1>1. JobsTypeOK
  BY DEF TypeOK
<1>2. wpc' = wpc /\ wjob' = wjob
  BY DEF Produce, ProducerPush, ProducerPushLost, DeadKeyExpires, Clock, workerVars
<1>3. ExecutingOf' = ExecutingOf
  BY <1>2 DEF ExecutingOf, Executors, Working
<1>4. ASSUME NEW j \in JobIds, Produce(j) PROVE Lifecycle!Submit(j)
  <2>1. /\ OnlyRow(j) /\ jobs[j].status = "absent" /\ jobs'[j].status = "queued"
        /\ jobs'[j].attempts = jobs[j].attempts
    BY <1>1, <1>4, EnqueueJobEffect DEF Produce
  <2>2. StateOf' = [StateOf EXCEPT ![j] = "queued"] /\ AttemptsOf' = AttemptsOf
    BY <2>1, MappedRow
  <2>. QED
    BY <1>3, <2>1, <2>2
       DEF Lifecycle!Submit, Lifecycle!SetState, StateOf, AttemptsOf, ExecutingOf
<1>5. ASSUME jobs' = jobs PROVE UNCHANGED <<StateOf, AttemptsOf, ExecutingOf>>
  BY <1>3, <1>5 DEF StateOf, AttemptsOf
<1>6. ASSUME NEW j \in JobIds, Clock(j)
      PROVE  UNCHANGED <<StateOf, AttemptsOf, ExecutingOf>>
  BY <1>1, <1>3, <1>6, ClockEffect DEF Clock, StateOf, AttemptsOf
<1>. QED
  BY <1>4, <1>5, <1>6 DEF ProducerPush, ProducerPushLost, DeadKeyExpires

(* The queue keeps the promise of JobLifecycle as long as heartbeats tell  *)
(* the truth and no reply to a claim is lost: a job is executed by one     *)
(* worker at a time, an ending that is no success costs exactly one of     *)
(* max_attempts (store.go:91), and done and dead are final, through        *)
(* crashes, shutdowns, lost pushes and failed calls (store.go:57-172).     *)
THEOREM QueueImplementsLifecycle ==
  ASSUME TruthfulHeartbeats, "claim_reply" \notin Faults
  PROVE  Spec => LifecycleKept
<1>1. Init => Lifecycle!LifecycleInit
  <2> SUFFICES ASSUME Init PROVE Lifecycle!LifecycleInit
    OBVIOUS
  <2>1. \A j \in JobIds : jobs[j].status = "absent" /\ jobs[j].attempts = 0
    BY DEF Init, NewJob
  <2>2. \A j \in JobIds : Executors(j) = {}
    BY DEF Init, WorkerInit, Executors, Working
  <2>. QED
    BY <2>1, <2>2 DEF Lifecycle!LifecycleInit
<1>2. LeaseInv /\ RetryBudget /\ [Next]_vars
        => [Lifecycle!LifecycleNext]_(Lifecycle!lifecycleVars)
  <2> SUFFICES ASSUME LeaseInv, RetryBudget, [Next]_vars
               PROVE  \/ Lifecycle!LifecycleNext
                      \/ UNCHANGED <<StateOf, AttemptsOf, ExecutingOf>>
    BY DEF Lifecycle!lifecycleVars, StateOf, AttemptsOf, ExecutingOf
  <2>1. TypeOK
    BY DEF LeaseInv
  <2>2. ASSUME NEW w \in Workers, WorkerNext(w)
        PROVE  \/ Lifecycle!LifecycleNext
               \/ UNCHANGED <<StateOf, AttemptsOf, ExecutingOf>>
    BY <2>2, WorkerRefines DEF Lifecycle!LifecycleNext
  <2>3. CASE SweeperNext
    BY <2>3, SweeperRefines DEF Lifecycle!LifecycleNext
  <2>4. CASE \/ \E j \in JobIds : Produce(j) \/ ProducerPush(j) \/ ProducerPushLost(j)
             \/ \E w \in Workers : DeadKeyExpires(w)
             \/ \E j \in JobIds : Clock(j)
    BY <2>1, <2>4, OtherRefines DEF Lifecycle!LifecycleNext
  <2>5. CASE UNCHANGED vars
    BY <2>5 DEF vars, StateOf, AttemptsOf, ExecutingOf, Executors, Working
  <2>. QED
    BY <2>2, <2>3, <2>4, <2>5 DEF Next
<1>. QED
  BY <1>1, <1>2, LeaseInit, LeaseStep, BudgetKept, PTL
     DEF Spec, LifecycleKept, Lifecycle!LifecycleSpec
=============================================================================
