----------------------------- MODULE TaskQueue ------------------------------
(***************************************************************************)
(* The task queue as it runs: producers, workers, the sweeper, PostgreSQL, *)
(* Redis and the clock.                                                    *)
(***************************************************************************)
EXTENDS Worker, Sweeper

CONSTANT StartStage     \* the stage each job is enqueued at

ASSUME TaskQueueAssumption == StartStage \in [JobIds -> {"fetch", "test"}]

VARIABLE unpushed       \* rows a producer has inserted and not yet pushed

vars == <<jobs, queue, processing, heartbeat, faults, wpc, wjob, pass, refs,
          reclaiming, orphans, victim, pushes, unpushed>>

Init ==
  /\ jobs = [j \in JobIds |-> NewJob(StartStage[j])]
  /\ RedisInit
  /\ WorkerInit
  /\ SweeperInit
  /\ faults = 0
  /\ unpushed = {}

-----------------------------------------------------------------------------
(* Producers (scheduler, backfill, demo API): insert the row, then push    *)
(* its id.  The two stores share no transaction.                           *)

Produce(j) ==
  /\ EnqueueJob(j)
  /\ unpushed' = unpushed \cup {j}
  /\ UNCHANGED <<queue, processing, heartbeat, faults, workerVars, sweeperVars>>

ProducerPush(j) ==
  /\ j \in unpushed
  /\ Push(StartStage[j], j)
  /\ unpushed' = unpushed \ {j}
  /\ UNCHANGED <<jobs, processing, heartbeat, faults, workerVars, sweeperVars>>

(* The push fails (a logged warning) or the producer dies before it.       *)
ProducerPushLost(j) ==
  /\ j \in unpushed
  /\ Fault("lost_push")
  /\ unpushed' = unpushed \ {j}
  /\ UNCHANGED <<jobs, queue, processing, heartbeat, workerVars, sweeperVars>>

-----------------------------------------------------------------------------
(* The clock.  A dead worker's key outlives it by up to the heartbeat TTL. *)
(* Without "slow_sweep" a sweep gets from listing the running rows to      *)
(* checking their owners within that time: no key of an owner it listed    *)
(* runs out in between.                                                    *)

SweepIsTimely(w) == \A o \in orphans : o.worker # w

DeadKeyExpires(w) ==
  /\ ~Up(w)
  /\ "slow_sweep" \in Faults \/ SweepIsTimely(w)
  /\ KeyExpires(w)
  /\ UNCHANGED <<jobs, queue, processing, faults, workerVars, sweeperVars,
                 unpushed>>

Clock(j) ==
  /\ BackoffElapses(j) \/ AgeOut(j)
  /\ UNCHANGED <<queue, processing, heartbeat, faults, workerVars, sweeperVars,
                 unpushed>>

-----------------------------------------------------------------------------
StartFresh(w) == ~Remembered(w) /\ Start(w)

WorkerNext(w) ==
  /\ \/ StartFresh(w) \/ HeartbeatTick(w) \/ WorkerStep(w) \/ WorkerFault(w)
  /\ UNCHANGED <<sweeperVars, unpushed>>

SweeperNext ==
  /\ SweeperStep \/ SweeperFault
  /\ UNCHANGED <<workerVars, unpushed>>

Next ==
  \/ \E j \in JobIds : Produce(j) \/ ProducerPush(j) \/ ProducerPushLost(j)
  \/ \E w \in Workers : WorkerNext(w)
  \/ SweeperNext
  \/ \E w \in Workers : DeadKeyExpires(w)
  \/ \E j \in JobIds : Clock(j)

Spec == Init /\ [][Next]_vars

(* Every process that is up goes on, Kubernetes restarts what is down,     *)
(* the sweeper's ticker ticks, and time passes.  Nothing is assumed of     *)
(* faults, and nothing of how often a handler succeeds.                    *)
Fairness ==
  /\ \A w \in Workers :
       /\ WF_vars(WorkerStep(w) /\ UNCHANGED <<sweeperVars, unpushed>>)
       /\ WF_vars(StartFresh(w) /\ UNCHANGED <<sweeperVars, unpushed>>)
       /\ WF_vars(HeartbeatTick(w) /\ UNCHANGED <<sweeperVars, unpushed>>)
       /\ WF_vars(DeadKeyExpires(w))
  /\ WF_vars(SweeperStep /\ UNCHANGED <<workerVars, unpushed>>)
  /\ \A j \in JobIds : WF_vars(ProducerPush(j)) /\ WF_vars(Clock(j))

FairSpec == Spec /\ Fairness

-----------------------------------------------------------------------------
(***************************************************************************)
(* Properties.                                                             *)
(***************************************************************************)

(* The types of all variables of the queue, Redis, the workers and the     *)
(* sweeper; a worker that is inside ProcessOne (worker.go:62) holds a job. *)
TypeOK ==
  /\ JobsTypeOK /\ RedisTypeOK /\ FaultsTypeOK
  /\ WorkerTypeOK /\ SweeperTypeOK
  /\ unpushed \subseteq JobIds
  /\ \A w \in Workers : wpc[w] \notin {"down", "idle"} => wjob[w] \in JobIds

(* A job that may still run has attempts left, and only one that has used  *)
(* them all is dead, although MarkFailed (store.go:91) may hit a row at    *)
(* any moment, from a late worker and from the sweeper at once.            *)
RetryBudget ==
  \A j \in JobIds :
    /\ ~Terminal(j) => jobs[j].attempts < MaxAttempts
    /\ jobs[j].status = "dead" => jobs[j].attempts >= MaxAttempts

(* A running row whose owner is up is being worked on by that owner: the   *)
(* fail-stop of Run (worker.go:54) leaves no claim behind under a live     *)
(* heartbeat, where no sweep would ever find it.                           *)
OwnerWorks ==
  \A w \in Workers : \A j \in JobIds :
    RunningBy(j, w) /\ wpc[w] \notin {"down", "exiting"} => Working(w, j)

(* A worker that executes a handler (worker.go:95) owns the row: no two    *)
(* workers execute one job, and no sweep fails a job under its worker.     *)
ExclusiveProcessing ==
  \A w \in Workers : \A j \in JobIds : Working(w, j) => RunningBy(j, w)

(* The invariant behind it, which holds while heartbeats tell the truth.   *)
(* A process that is up has its key, so a sweep passes over it;            *)
(* a listed row still runs under the owner that was listed, or that owner  *)
(* still has its key and the sweep will pass over the row;                 *)
(* a row about to be failed still runs under its owner, who is gone;       *)
(* and the sweep holds on to each job at most once, in its second pass.    *)
UpHasKey == \A w \in Workers : Up(w) => w \in heartbeat

OrphansSound ==
  \A o \in orphans : RunningBy(o.job, o.worker) \/ o.worker \in heartbeat

VictimSound ==
  \A v \in victim : RunningBy(v.job, v.worker) /\ v.worker \notin heartbeat

ListedOnce ==
  /\ pass # "revive" => orphans = {} /\ victim = {}
  /\ \A o, p \in orphans : o.job = p.job => o = p
  /\ \A v \in victim : \A o \in orphans : v.job # o.job
  /\ \A v, u \in victim : v = u

(* The heartbeat of a worker (worker.go:123) stands for its claim: what    *)
(* reviveOrphans (sweeper.go:92) has listed and checked is still true when *)
(* it calls MarkFailed.                                                    *)
SweepSound == UpHasKey /\ OrphansSound /\ VictimSound /\ ListedOnce

(* A job that is done or dead stays so: no late MarkDone or MarkFailed     *)
(* (store.go:75, 91), and no duplicate id in Redis, brings it back.        *)
TerminalStable ==
  [][\A j \in JobIds : Terminal(j) => jobs'[j].status = jobs[j].status]_vars

(* An id is never lost between Redis calls: a queued row that has not      *)
(* failed is in a stage queue or a processing list (queue.go:39, 111) from *)
(* the moment its producer has pushed it, through crashes and restarts.    *)
NoStranding ==
  \A j \in JobIds \ unpushed :
    jobs[j].status = "queued" /\ jobs[j].lastError = "null"
      => Queued(j) \/ InFlight(j)

(* Every job ends done or dead, and stays there: with finitely many faults *)
(* the sweeper (sweeper.go:50) recovers whatever a fault has left behind.  *)
EventuallySettled ==
  <>[](\A j \in JobIds : jobs[j].status # "absent" => Terminal(j))

(* The promise of JobLifecycle, kept by the queue as long as heartbeats    *)
(* tell the truth: a claim, its settling (store.go:57-172) and the sweep   *)
(* of a dead worker's claim are steps of one job's life cycle.             *)
Executors(j) == {w \in Workers : Working(w, j)}

Lifecycle == INSTANCE JobLifecycle
  WITH state     <- [j \in JobIds |-> jobs[j].status],
       attempts  <- [j \in JobIds |-> jobs[j].attempts],
       executing <- [j \in JobIds |-> Executors(j)]

LifecycleKept == Lifecycle!LifecycleSpec
=============================================================================
