------------------------------ MODULE Sweeper -------------------------------
(***************************************************************************)
(* The sweeper, internal/sweeper/sweeper.go.  SweepOnce makes four passes  *)
(* in order; each lists first and then works through that snapshot with    *)
(* one call per step, so workers move between the listing and its use:     *)
(*                                                                         *)
(*   reclaim  processing lists of workers without heartbeat go back        *)
(*   revive   running rows whose worker has no heartbeat are MarkFailed    *)
(*   promote  failed rows whose backoff is over are pushed                 *)
(*   repush   old rows that never failed are pushed, again and again       *)
(*                                                                         *)
(* The deployment runs one sweeper.  A failed listing, or a crash, ends    *)
(* the sweep; a failed call on one item skips the item.                    *)
(***************************************************************************)
EXTENDS JobStore, RedisQueue, Faults

VARIABLES pass,         \* which pass of SweepOnce is running
          refs,         \* reclaim: processing lists still to look at
          reclaiming,   \* reclaim: the list being drained, or None
          orphans,      \* revive: running rows still to look at, with owner
          victim,       \* revive: the row found orphaned, {} or a singleton
          pushes        \* promote, repush: rows still to push, with stage

sweeperVars == <<pass, refs, reclaiming, orphans, victim, pushes>>

Passes == {"idle", "reclaim", "revive", "promote", "repush"}

Claimed == [job : JobIds, worker : Workers]
Pushable == [job : JobIds, stage : Stages]

SweeperTypeOK ==
  /\ pass \in Passes
  /\ refs \subseteq Workers
  /\ reclaiming \in Workers \cup {None}
  /\ orphans \subseteq Claimed
  /\ victim \subseteq Claimed
  /\ pushes \subseteq Pushable

SweeperInit ==
  /\ pass = "idle"
  /\ refs = {}
  /\ reclaiming = None
  /\ orphans = {}
  /\ victim = {}
  /\ pushes = {}

(* Worker ids the current sweep still holds on to.                         *)
Remembered(w) == \/ w \in refs \/ reclaiming = w
                 \/ \E o \in orphans \cup victim : o.worker = w

-----------------------------------------------------------------------------
(* Pass 1: reclaimProcessing.                                              *)

BeginSweep ==
  /\ pass = "idle"
  /\ pass' = "reclaim"
  /\ refs' = ListProcessing
  /\ UNCHANGED <<reclaiming, orphans, victim, pushes>>
  /\ UNCHANGED <<jobs, queue, processing, heartbeat, faults>>

(* The heartbeat check of one list.                                        *)
CheckRef(w) ==
  /\ pass = "reclaim" /\ reclaiming = None /\ w \in refs
  /\ refs' = refs \ {w}
  /\ reclaiming' = IF IsWorkerAlive(w) THEN None ELSE w
  /\ UNCHANGED <<pass, orphans, victim, pushes>>
  /\ UNCHANGED <<jobs, queue, processing, heartbeat, faults>>

(* One turn of the LMOVE loop, and its end on an empty list.               *)
ReclaimOne ==
  /\ pass = "reclaim" /\ reclaiming # None
  /\ ReclaimMove(reclaiming)
  /\ UNCHANGED <<sweeperVars, jobs, heartbeat, faults>>

ReclaimDone ==
  /\ pass = "reclaim" /\ reclaiming # None
  /\ processing[reclaiming] = <<>>
  /\ reclaiming' = None
  /\ UNCHANGED <<pass, refs, orphans, victim, pushes>>
  /\ UNCHANGED <<jobs, queue, processing, heartbeat, faults>>

-----------------------------------------------------------------------------
(* Pass 2: reviveOrphans.  The row is listed, then its owner's heartbeat   *)
(* is checked, then the row is failed; MarkFailed does not look at it.     *)

BeginRevive ==
  /\ pass = "reclaim" /\ refs = {} /\ reclaiming = None
  /\ pass' = "revive"
  /\ orphans' = {o \in Claimed : RunningBy(o.job, o.worker)}
  /\ UNCHANGED <<refs, reclaiming, victim, pushes>>
  /\ UNCHANGED <<jobs, queue, processing, heartbeat, faults>>

(* Slip: the owner's heartbeat is not looked at.                           *)
CheckOrphanNever(o) ==
  /\ pass = "revive" /\ victim = {} /\ o \in orphans
  /\ orphans' = orphans \ {o}
  /\ victim' = {o}
  /\ UNCHANGED <<pass, refs, reclaiming, pushes>>
  /\ UNCHANGED <<jobs, queue, processing, heartbeat, faults>>

CheckOrphan(o) ==
  /\ pass = "revive" /\ victim = {} /\ o \in orphans
  /\ orphans' = orphans \ {o}
  /\ victim' = IF IsWorkerAlive(o.worker) THEN {} ELSE {o}
  /\ UNCHANGED <<pass, refs, reclaiming, pushes>>
  /\ UNCHANGED <<jobs, queue, processing, heartbeat, faults>>

(* Slip: the orphan is put back without counting the attempt.              *)
ReviveForgiven(o) ==
  /\ pass = "revive" /\ o \in victim
  /\ jobs' = [jobs EXCEPT ![o.job].status = "queued", ![o.job].worker = None]
  /\ victim' = {}
  /\ UNCHANGED <<pass, refs, reclaiming, orphans, pushes>>
  /\ UNCHANGED <<queue, processing, heartbeat, faults>>

(* MarkFailed "worker died", runnable at once.                             *)
Revive(o) ==
  /\ pass = "revive" /\ o \in victim
  /\ MarkFailed(o.job, "due")
  /\ victim' = {}
  /\ UNCHANGED <<pass, refs, reclaiming, orphans, pushes>>
  /\ UNCHANGED <<queue, processing, heartbeat, faults>>

-----------------------------------------------------------------------------
(* Passes 3 and 4: promoteDelayed and repushStale.                         *)

WithStage(js) == {[job |-> j, stage |-> jobs[j].stage] : j \in js}

BeginPromote ==
  /\ pass = "revive" /\ orphans = {} /\ victim = {}
  /\ pass' = "promote"
  /\ pushes' = WithStage(ListReadyRetryJobs)
  /\ UNCHANGED <<refs, reclaiming, orphans, victim>>
  /\ UNCHANGED <<jobs, queue, processing, heartbeat, faults>>

BeginRepush ==
  /\ pass = "promote" /\ pushes = {}
  /\ pass' = "repush"
  /\ pushes' = WithStage(ListStaleQueuedJobs)
  /\ UNCHANGED <<refs, reclaiming, orphans, victim>>
  /\ UNCHANGED <<jobs, queue, processing, heartbeat, faults>>

EndSweep ==
  /\ pass = "repush" /\ pushes = {}
  /\ pass' = "idle"
  /\ UNCHANGED <<refs, reclaiming, orphans, victim, pushes>>
  /\ UNCHANGED <<jobs, queue, processing, heartbeat, faults>>

(* The push of one row, to the stage the snapshot saw.                     *)
SweepPush(p) ==
  /\ pass \in {"promote", "repush"} /\ p \in pushes
  /\ pushes' = pushes \ {p}
  /\ Push(p.stage, p.job)
  /\ UNCHANGED <<pass, refs, reclaiming, orphans, victim>>
  /\ UNCHANGED <<jobs, processing, heartbeat, faults>>

-----------------------------------------------------------------------------
(* A call on one item fails: the item is passed over.  An IsWorkerAlive    *)
(* error is the same as finding the worker alive, a failed LMOVE ends the  *)
(* loop early.                                                             *)
SkipItem ==
  /\ pass # "idle"
  /\ \/ /\ Fault("redis_error")
        /\ \/ /\ \E w \in refs : refs' = refs \ {w}
              /\ UNCHANGED <<reclaiming, orphans, pushes>>
           \/ /\ reclaiming # None /\ reclaiming' = None
              /\ UNCHANGED <<refs, orphans, pushes>>
           \/ /\ \E o \in orphans : orphans' = orphans \ {o}
              /\ UNCHANGED <<refs, reclaiming, pushes>>
           \/ /\ \E p \in pushes : pushes' = pushes \ {p}
              /\ UNCHANGED <<refs, reclaiming, orphans>>
        /\ victim' = victim
     \/ /\ Fault("db_error")
        /\ victim # {} /\ victim' = {}
        /\ UNCHANGED <<refs, reclaiming, orphans, pushes>>
  /\ UNCHANGED <<pass, jobs, queue, processing, heartbeat>>

(* The query that opens the next pass fails: SweepOnce returns.  (A failed *)
(* scan at the start of a sweep changes nothing.)                          *)
ListError ==
  /\ pass # "idle"
  /\ Fault("db_error")
  /\ refs = {} /\ reclaiming = None /\ orphans = {} /\ victim = {} /\ pushes = {}
  /\ pass' = "idle"
  /\ UNCHANGED <<refs, reclaiming, orphans, victim, pushes>>
  /\ UNCHANGED <<jobs, queue, processing, heartbeat>>

(* The sweeper is killed and started again.                                *)
SweeperCrash ==
  /\ pass # "idle"
  /\ Fault("crash")
  /\ pass' = "idle" /\ refs' = {} /\ reclaiming' = None
  /\ orphans' = {} /\ victim' = {} /\ pushes' = {}
  /\ UNCHANGED <<jobs, queue, processing, heartbeat>>

SweeperStep ==
  \/ BeginSweep \/ ReclaimOne \/ ReclaimDone
  \/ \E w \in refs : CheckRef(w)
  \/ BeginRevive
  \/ \E o \in orphans : CheckOrphan(o)
  \/ \E o \in victim : Revive(o)
  \/ BeginPromote \/ BeginRepush \/ EndSweep
  \/ \E p \in pushes : SweepPush(p)

SweeperFault == SkipItem \/ ListError \/ SweeperCrash
=============================================================================
