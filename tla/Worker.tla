------------------------------- MODULE Worker -------------------------------
(***************************************************************************)
(* A worker process, internal/worker/worker.go.  Run loops over ProcessOne *)
(* and a second goroutine refreshes the heartbeat.  ProcessOne is cut at   *)
(* every call that another process can observe:                            *)
(*                                                                         *)
(*    idle --Pop--> popped --Claim--> working --Advance--> advanced        *)
(*     ^              |                  |                    |            *)
(*     +----Ack---- acking <--Complete,Fail-- <---PushNext----+            *)
(*                                                                         *)
(* The deferred Ack runs on every return path.  A failure after the claim  *)
(* makes Run return ("exiting": Ack, then the process ends); any other     *)
(* error is only logged.  NewWorkerID draws a random id, so a worker name  *)
(* of the model is reused only when nothing refers to it any more.         *)
(***************************************************************************)
EXTENDS JobStore, RedisQueue, Faults

VARIABLES wpc,          \* where each worker is in ProcessOne
          wjob          \* the job id it holds

workerVars == <<wpc, wjob>>

WorkerPcs == {"down", "idle", "popped", "working", "advanced", "acking",
              "exiting"}

WorkerTypeOK ==
  /\ wpc \in [Workers -> WorkerPcs]
  /\ wjob \in [Workers -> JobIds \cup {None}]

WorkerInit ==
  /\ wpc = [w \in Workers |-> "down"]
  /\ wjob = [w \in Workers |-> None]

(* The process runs.                                                       *)
Up(w) == wpc[w] # "down"

(* The worker is between a successful claim and the call that settles it.  *)
Working(w, j) == wpc[w] = "working" /\ wjob[w] = j

GoTo(w, pc) == wpc' = [wpc EXCEPT ![w] = pc] /\ wjob' = wjob
Rest(w, pc) == /\ wpc' = [wpc EXCEPT ![w] = pc]
               /\ wjob' = [wjob EXCEPT ![w] = None]

-----------------------------------------------------------------------------
(* The id is unused: no key, no list, no claimed row names it.             *)
FreshId(w) ==
  /\ w \notin heartbeat
  /\ processing[w] = <<>>
  /\ \A j \in JobIds : ~RunningBy(j, w)

(* A new process: the first heartbeat is written before the loop starts.   *)
Start(w) ==
  /\ wpc[w] = "down"
  /\ FreshId(w)
  /\ Heartbeat(w)
  /\ Rest(w, "idle")
  /\ UNCHANGED <<jobs, queue, processing, faults>>

(* A tick of heartbeatLoop that finds the key gone; otherwise it only      *)
(* renews the TTL.                                                         *)
HeartbeatTick(w) ==
  /\ Up(w)
  /\ w \notin heartbeat
  /\ Heartbeat(w)
  /\ UNCHANGED <<jobs, queue, processing, workerVars, faults>>

Pop(w) ==
  /\ wpc[w] = "idle"
  /\ BlockingPop(w)
  /\ wpc' = [wpc EXCEPT ![w] = "popped"]
  /\ wjob' = [wjob EXCEPT ![w] = Last(queue[StageOf[w]])]
  /\ UNCHANGED <<jobs, heartbeat, faults>>

(* The BLMOVE is executed but its reply is lost: the id stays in the       *)
(* processing list of a worker that does not know of it.                   *)
PopReplyLost(w) ==
  /\ wpc[w] = "idle"
  /\ Fault("redis_error")
  /\ BlockingPop(w)
  /\ UNCHANGED <<jobs, heartbeat, workerVars>>

Claim(w) ==
  /\ wpc[w] = "popped"
  /\ ClaimJob(wjob[w], w)
  /\ GoTo(w, "working")
  /\ UNCHANGED <<queue, processing, heartbeat, faults>>

(* ErrJobNotClaimable: the race is lost, the id is acknowledged.           *)
ClaimRaceLost(w) ==
  /\ wpc[w] = "popped"
  /\ ~Claimable(wjob[w])
  /\ GoTo(w, "acking")
  /\ UNCHANGED <<jobs, queue, processing, heartbeat, faults>>

(* Any other error of ClaimJob is not errPostClaim: Run carries on.        *)
ClaimError(w) ==
  /\ wpc[w] = "popped"
  /\ Fault("db_error")
  /\ GoTo(w, "acking")
  /\ UNCHANGED <<jobs, queue, processing, heartbeat>>

ClaimReplyLost(w) ==
  /\ wpc[w] = "popped"
  /\ Fault("claim_reply")
  /\ ClaimJob(wjob[w], w)
  /\ GoTo(w, "acking")
  /\ UNCHANGED <<queue, processing, heartbeat>>

-----------------------------------------------------------------------------
(* The handler has run; one action per way of settling its outcome.        *)

Complete(w) ==
  /\ wpc[w] = "working"
  /\ NextStage(StageOf[w]) = NoStage
  /\ MarkDone(wjob[w])
  /\ GoTo(w, "acking")
  /\ UNCHANGED <<queue, processing, heartbeat, faults>>

(* The handler fails; backoff.Compute puts next_run_at in the future.      *)
Fail(w) ==
  /\ wpc[w] = "working"
  /\ MarkFailed(wjob[w], "future")
  /\ GoTo(w, "acking")
  /\ UNCHANGED <<queue, processing, heartbeat, faults>>

Advance(w) ==
  /\ wpc[w] = "working"
  /\ NextStage(StageOf[w]) # NoStage
  /\ AdvanceJob(wjob[w], NextStage(StageOf[w]))
  /\ GoTo(w, "advanced")
  /\ UNCHANGED <<queue, processing, heartbeat, faults>>

(* AdvanceJob matches no row: somebody else settled the job meanwhile.     *)
AdvanceFindsNoRow(w) ==
  /\ wpc[w] = "working"
  /\ NextStage(StageOf[w]) # NoStage
  /\ ~Advanceable(wjob[w])
  /\ GoTo(w, "exiting")
  /\ UNCHANGED <<jobs, queue, processing, heartbeat, faults>>

(* Slip: a failed settle call is only logged, as any other error.          *)
SettleErrorIgnored(w) ==
  /\ wpc[w] = "working"
  /\ Fault("db_error")
  /\ jobs' = jobs
  /\ GoTo(w, "acking")
  /\ UNCHANGED <<queue, processing, heartbeat>>

(* GetJob or the settling statement fails, before or after it took effect. *)
SettleError(w) ==
  /\ wpc[w] = "working"
  /\ Fault("db_error")
  /\ \/ jobs' = jobs
     \/ MarkFailed(wjob[w], "future")
     \/ NextStage(StageOf[w]) = NoStage /\ MarkDone(wjob[w])
     \/ /\ NextStage(StageOf[w]) # NoStage
        /\ AdvanceJob(wjob[w], NextStage(StageOf[w]))
  /\ GoTo(w, "exiting")
  /\ UNCHANGED <<queue, processing, heartbeat>>

PushNext(w) ==
  /\ wpc[w] = "advanced"
  /\ Push(NextStage(StageOf[w]), wjob[w])
  /\ GoTo(w, "acking")
  /\ UNCHANGED <<jobs, processing, heartbeat, faults>>

(* The row has advanced but its id is not in the next queue; not fatal.    *)
PushNextError(w) ==
  /\ wpc[w] = "advanced"
  /\ Fault("redis_error")
  /\ GoTo(w, "acking")
  /\ UNCHANGED <<jobs, queue, processing, heartbeat>>

-----------------------------------------------------------------------------
(* The deferred acknowledgement, and the two ways it may end.              *)

AfterAck(w) == IF wpc[w] = "exiting" THEN "down" ELSE "idle"

Acknowledge(w) ==
  /\ wpc[w] \in {"acking", "exiting"}
  /\ Ack(w, wjob[w])
  /\ Rest(w, AfterAck(w))
  /\ UNCHANGED <<jobs, queue, heartbeat, faults>>

AckError(w) ==
  /\ wpc[w] \in {"acking", "exiting"}
  /\ Fault("redis_error")
  /\ Rest(w, AfterAck(w))
  /\ UNCHANGED <<jobs, queue, processing, heartbeat>>

(* SIGTERM: the calls that follow fail with the cancelled context, the     *)
(* deferred Ack still runs (context.WithoutCancel).                        *)
Shutdown(w) ==
  /\ wpc[w] \notin {"down", "exiting"}
  /\ Fault("shutdown")
  /\ GoTo(w, IF wpc[w] = "idle" THEN "down" ELSE "exiting")
  /\ UNCHANGED <<jobs, queue, processing, heartbeat>>

Crash(w) ==
  /\ Up(w)
  /\ Fault("crash")
  /\ Rest(w, "down")
  /\ UNCHANGED <<jobs, queue, processing, heartbeat>>

(* Failed writes in heartbeatLoop are only logged: the key runs out.       *)
FalseExpiry(w) ==
  /\ Up(w)
  /\ Fault("expiry")
  /\ KeyExpires(w)
  /\ UNCHANGED <<jobs, queue, processing, workerVars>>

(* What a live worker does next without any fault.                         *)
WorkerStep(w) ==
  \/ Pop(w)      \/ Claim(w)   \/ ClaimRaceLost(w)
  \/ Complete(w) \/ Fail(w)    \/ Advance(w) \/ AdvanceFindsNoRow(w)
  \/ PushNext(w) \/ Acknowledge(w)

WorkerFault(w) ==
  \/ PopReplyLost(w) \/ ClaimError(w)    \/ ClaimReplyLost(w)
  \/ SettleError(w)  \/ PushNextError(w) \/ AckError(w)
  \/ Shutdown(w)     \/ Crash(w)         \/ FalseExpiry(w)
=============================================================================
