------------------------------ MODULE Pipeline ------------------------------
(***************************************************************************)
(* What every part of the task queue shares: the job and worker ids, the   *)
(* stages, the stage a worker process is started for, and the stage each   *)
(* handler sends a job to when it succeeds.                                *)
(***************************************************************************)
EXTENDS Naturals

CONSTANTS JobIds,       \* the primary keys EnqueueJob may draw
          Workers,      \* worker ids
          None,         \* SQL NULL; also "no job" in a worker
          StageOf       \* the -stage flag of each worker process

Stages == {"fetch", "render", "upload", "test"}

ASSUME PipelineAssumption ==
  /\ None \notin Workers
  /\ None \notin JobIds
  /\ StageOf \in [Workers -> Stages]

(* The empty string a handler returns after the last stage.                *)
NoStage == ""

(* What the handler of a stage returns as the next stage.                  *)
NextStage(s) ==
  CASE s = "fetch"  -> "render"
    [] s = "render" -> "upload"
    [] OTHER        -> NoStage
=============================================================================
