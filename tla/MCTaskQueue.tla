---------------------------- MODULE MCTaskQueue -----------------------------
(***************************************************************************)
(* Small instances of TaskQueue.  Each configuration names the stages its  *)
(* workers serve and the stage its jobs start at.                          *)
(***************************************************************************)
EXTENDS TaskQueue

CONSTANTS w1, w2

FetchRender == [w \in Workers |-> IF w = w2 THEN "render" ELSE "fetch"]
TwoTest == [w \in Workers |-> "test"]

StartFetch == [j \in JobIds |-> "fetch"]
StartTest == [j \in JobIds |-> "test"]
=============================================================================
