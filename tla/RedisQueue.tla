----------------------------- MODULE RedisQueue -----------------------------
(***************************************************************************)
(* The Redis side, internal/queue/queue.go: one list of job ids per stage, *)
(* one processing list per worker, one expiring heartbeat key per worker.  *)
(* Every operation is one Redis command, hence one atomic step, except     *)
(* ReclaimProcessing, which is a loop of LMOVEs (one ReclaimMove each).    *)
(* A list is a sequence whose first element is the LEFT end.  A worker     *)
(* serves one stage for life, so the key processing:<stage>:<worker> is a  *)
(* function of the worker alone.                                           *)
(***************************************************************************)
EXTENDS Pipeline, FiniteSets, SequencesExt

CONSTANT MaxCopies      \* bound of the model on the copies of an id in one
                        \* stage queue; the code has none
ASSUME RedisAssumption == MaxCopies \in Nat \ {0}

VARIABLES queue,        \* queue:<stage>
          processing,   \* processing:<stage>:<worker>
          heartbeat     \* the workers whose heartbeat key exists

RedisTypeOK ==
  /\ queue \in [Stages -> Seq(JobIds)]
  /\ processing \in [Workers -> Seq(JobIds)]
  /\ heartbeat \subseteq Workers

RedisInit ==
  /\ queue = [s \in Stages |-> <<>>]
  /\ processing = [w \in Workers |-> <<>>]
  /\ heartbeat = {}

(* Where a job id can be found.                                            *)
Queued(j) == \E s \in Stages : Contains(queue[s], j)
InFlight(j) == \E w \in Workers : Contains(processing[w], j)

-----------------------------------------------------------------------------
Copies(s, j) == Cardinality({i \in DOMAIN queue[s] : queue[s][i] = j})

(* A copy that would exceed MaxCopies is dropped: MaxCopies others remain. *)
Room(s, j) == Copies(s, j) < MaxCopies

(* LPUSH queue:<stage>                                                     *)
Push(s, j) ==
  queue' = [queue EXCEPT ![s] = IF Room(s, j) THEN Cons(j, queue[s]) ELSE @]

(* Slip: a plain RPOP, which leaves no trace of the id in Redis.           *)
PopWithoutTrace(w) ==
  /\ queue[StageOf[w]] # <<>>
  /\ queue' = [queue EXCEPT ![StageOf[w]] = Front(queue[StageOf[w]])]
  /\ processing' = processing

(* BLMOVE queue:<stage> processing:<stage>:<worker> RIGHT LEFT             *)
BlockingPop(w) ==
  /\ queue[StageOf[w]] # <<>>
  /\ queue' = [queue EXCEPT ![StageOf[w]] = Front(queue[StageOf[w]])]
  /\ processing' =
       [processing EXCEPT ![w] = Cons(Last(queue[StageOf[w]]), processing[w])]

(* LREM processing:<stage>:<worker> 1 <job>                                *)
Ack(w, j) ==
  processing' = [processing EXCEPT ![w] = RemoveFirst(processing[w], j)]

IsWorkerAlive(w) == w \in heartbeat

Heartbeat(w) == heartbeat' = heartbeat \cup {w}

(* The TTL of a heartbeat key runs out (Redis, not this code).             *)
KeyExpires(w) == w \in heartbeat /\ heartbeat' = heartbeat \ {w}

(* SCAN processing:* : a Redis list exists while it is not empty.          *)
ListProcessing == {w \in Workers : processing[w] # <<>>}

(* One LMOVE processing:<stage>:<worker> queue:<stage> RIGHT RIGHT of the  *)
(* loop in ReclaimProcessing.                                              *)
ReclaimMove(w) ==
  /\ processing[w] # <<>>
  /\ processing' = [processing EXCEPT ![w] = Front(processing[w])]
  /\ queue' = [queue EXCEPT
                 ![StageOf[w]] = IF Room(StageOf[w], Last(processing[w]))
                                 THEN Append(@, Last(processing[w])) ELSE @]
=============================================================================
