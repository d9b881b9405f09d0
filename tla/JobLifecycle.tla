---------------------------- MODULE JobLifecycle ----------------------------
(***************************************************************************)
(* What the task queue promises of a job, whatever happens to the          *)
(* processes around it: a job is executed by one worker at a time, under a *)
(* claim that outlives a dead worker until the job is reaped; every ending *)
(* that is not a success costs one of MaxAttempts; done and dead are final.*)
(***************************************************************************)
EXTENDS Naturals

CONSTANTS JobIds, Workers, MaxAttempts

VARIABLES state,        \* the status of each job
          attempts,     \* the attempts it has used
          executing     \* the workers executing its handler

lifecycleVars == <<state, attempts, executing>>

LifecycleInit ==
  /\ state = [j \in JobIds |-> "absent"]
  /\ attempts = [j \in JobIds |-> 0]
  /\ executing = [j \in JobIds |-> {}]

SetState(j, s) == state' = [state EXCEPT ![j] = s]

Submit(j) ==
  /\ state[j] = "absent"
  /\ SetState(j, "queued")
  /\ UNCHANGED <<attempts, executing>>

Begin(j, w) ==
  /\ state[j] = "queued" /\ executing[j] = {}
  /\ SetState(j, "running")
  /\ executing' = [executing EXCEPT ![j] = {w}]
  /\ UNCHANGED attempts

(* The worker is gone; the claim stays.                                    *)
Abandon(j, w) ==
  /\ state[j] = "running" /\ executing[j] = {w}
  /\ executing' = [executing EXCEPT ![j] = {}]
  /\ UNCHANGED <<state, attempts>>

(* The executing worker finishes the job, or hands it to the next stage.   *)
Succeed(j, w) ==
  /\ state[j] = "running" /\ executing[j] = {w}
  /\ SetState(j, "done") \/ SetState(j, "queued")
  /\ executing' = [executing EXCEPT ![j] = {}]
  /\ UNCHANGED attempts

(* The handler failed under worker w, or the claim of a dead worker is     *)
(* reaped: one attempt is used, the last one buries the job.               *)
UseAttempt(j) ==
  /\ state[j] = "running"
  /\ executing' = [executing EXCEPT ![j] = {}]
  /\ attempts[j] < MaxAttempts
  /\ attempts' = [attempts EXCEPT ![j] = attempts[j] + 1]
  /\ SetState(j, IF attempts[j] + 1 = MaxAttempts THEN "dead" ELSE "queued")

LifecycleNext ==
  \E j \in JobIds :
     \/ Submit(j)
     \/ UseAttempt(j)
     \/ \E w \in Workers : Begin(j, w) \/ Abandon(j, w) \/ Succeed(j, w)

LifecycleSpec == LifecycleInit /\ [][LifecycleNext]_lifecycleVars
=============================================================================
