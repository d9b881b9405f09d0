--------------------------- MODULE HandoverProofs ---------------------------
(***************************************************************************)
(* No job id is lost between two Redis calls: the proof of NoStranding,    *)
(* for any number of jobs, workers, attempts, crashes and copies of an id. *)
(***************************************************************************)
EXTENDS TaskQueueProofs, FiniteSetTheorems

(* No call fails and no live worker loses its key; a process may be killed *)
(* at any step, a sweep may stall and the reply to a claim may be lost.    *)
CallsSucceed ==
  Faults \cap {"lost_push", "shutdown", "redis_error", "db_error", "expiry"} = {}

-----------------------------------------------------------------------------
(* The inductive invariant.                                                *)

(* The processing list of a worker inside ProcessOne is the id it holds;   *)
(* that of an idle worker is empty.                                        *)
HoldsTrace ==
  \A w \in Workers :
    /\ wpc[w] = "idle" => processing[w] = <<>>
    /\ wpc[w] \notin {"down", "idle"} => processing[w] = <<wjob[w]>>

(* Only a worker whose stage has a successor pushes on.                    *)
AdvancedGoesOn ==
  \A w \in Workers : wpc[w] = "advanced" => NextStage(StageOf[w]) # NoStage

(* The sweeper drains lists of workers that are gone.                      *)
ReclaimsFromTheDead == reclaiming \in Workers => ~Up(reclaiming)

Waiting(j) ==
  j \notin unpushed /\ jobs[j].status = "queued" /\ jobs[j].lastError = "null"

(* The id is in the list of a worker that will not just acknowledge it:    *)
(* it died with the id, it is about to claim it, or to push it on.         *)
KeptBy(w, j) ==
  wpc[w] \in {"down", "popped", "advanced"} /\ Contains(processing[w], j)

Held(j) == Queued(j) \/ \E w \in Workers : KeptBy(w, j)

HandedOn == \A j \in JobIds : Waiting(j) => Held(j)

HandoverInv ==
  /\ TypeOK /\ UpHasKey /\ ReclaimsFromTheDead
  /\ HoldsTrace /\ AdvancedGoesOn /\ HandedOn

-----------------------------------------------------------------------------
(* What the list operations keep.                                          *)

(* LPUSH adds one element.                                                 *)
LEMMA ConsContains ==
  ASSUME NEW S, NEW s \in Seq(S), NEW e \in S, NEW x
  PROVE  Contains(Cons(e, s), x) <=> x = e \/ Contains(s, x)
<1>1. /\ Cons(e, s) \in Seq(S) /\ Len(Cons(e, s)) = Len(s) + 1
      /\ Cons(e, s)[1] = e
      /\ \A i \in 1 .. Len(s) : Cons(e, s)[i + 1] = s[i]
  BY DEF Cons
<1>2. ASSUME Contains(Cons(e, s), x) PROVE x = e \/ Contains(s, x)
  <2>1. PICK i \in 1 .. Len(s) + 1 : Cons(e, s)[i] = x
    BY <1>1, <1>2 DEF Contains
  <2>2. CASE i = 1
    BY <1>1, <2>1, <2>2
  <2>3. CASE i # 1
    <3>1. i - 1 \in 1 .. Len(s) /\ (i - 1) + 1 = i
      BY <2>1, <2>3
    <3>2. s[i - 1] = x
      BY <1>1, <2>1, <3>1
    <3>. QED
      BY <3>1, <3>2 DEF Contains
  <2>. QED
    BY <2>2, <2>3
<1>3. ASSUME x = e PROVE Contains(Cons(e, s), x)
  BY <1>1, <1>3 DEF Contains
<1>4. ASSUME Contains(s, x) PROVE Contains(Cons(e, s), x)
  <2>1. PICK i \in 1 .. Len(s) : s[i] = x
    BY <1>4 DEF Contains
  <2>2. i + 1 \in 1 .. Len(Cons(e, s)) /\ Cons(e, s)[i + 1] = x
    BY <1>1, <2>1
  <2>. QED
    BY <2>2 DEF Contains
<1>. QED
  BY <1>2, <1>3, <1>4

(* RPUSH adds one element.                                                 *)
LEMMA AppendContains ==
  ASSUME NEW S, NEW s \in Seq(S), NEW e \in S, NEW x
  PROVE  /\ Contains(Append(s, e), e)
         /\ Contains(s, x) => Contains(Append(s, e), x)
<1>1. /\ Len(Append(s, e)) = Len(s) + 1 /\ Append(s, e)[Len(s) + 1] = e
      /\ \A i \in 1 .. Len(s) : Append(s, e)[i] = s[i]
      /\ Len(s) \in Nat
  OBVIOUS
<1>. QED
  BY <1>1 DEF Contains

(* Taking the last element off a list leaves the others in it.             *)
LEMMA FrontContains ==
  ASSUME NEW S, NEW s \in Seq(S), s # <<>>, NEW x, Contains(s, x)
  PROVE  x = Last(s) \/ Contains(Front(s), x)
<1>1. PICK i \in 1 .. Len(s) : s[i] = x
  BY DEF Contains
<1>2. /\ Len(s) \in Nat \ {0} /\ Len(Front(s)) = Len(s) - 1
      /\ \A k \in 1 .. Len(s) - 1 : Front(s)[k] = s[k]
  <2>1. Len(s) \in Nat \ {0}
    BY <1>1
  <2>2. Len(Front(s)) = Len(s) - 1
    <3>1. \A k \in 1 .. Len(s) - 1 : s[k] \in S
      BY <2>1
    <3>2. PICK n \in Nat : n = Len(s) - 1
      BY <2>1
    <3>3. Len(SubSeq(s, 1, n)) = IF 1 <= n THEN n - 1 + 1 ELSE 0
      BY <3>1, <3>2, SubSeqProperties
    <3>4. 1 <= n => n - 1 + 1 = n
      BY <3>2
    <3>5. ~(1 <= n) => n = 0
      BY <3>2
    <3>6. Len(SubSeq(s, 1, n)) = n
      BY <3>3, <3>4, <3>5, Zenon
    <3>. QED
      BY <3>2, <3>6, Zenon DEF Front
  <2>3. \A k \in 1 .. Len(s) - 1 : Front(s)[k] = s[k]
    BY <2>1 DEF Front
  <2>. QED
    BY <2>1, <2>2, <2>3
<1>3. CASE i = Len(s)
  BY <1>1, <1>3 DEF Last
<1>4. CASE i # Len(s)
  <2>1. i \in 1 .. Len(s) - 1
    BY <1>1, <1>2, <1>4
  <2>. QED
    BY <1>1, <1>2, <2>1 DEF Contains
<1>. QED
  BY <1>3, <1>4

(* A list of one element contains it, and LREM of it leaves nothing.       *)
LEMMA SingletonList ==
  ASSUME NEW e
  PROVE  /\ \A x : Contains(<<e>>, x) <=> x = e
         /\ RemoveFirst(<<e>>, e) = <<>>
         /\ Cons(e, <<>>) = <<e>>
<1>1. \A x : Contains(<<e>>, x) <=> x = e
  BY DEF Contains
<1>2. SelectInSeq(<<e>>, LAMBDA v : v = e) = 1
  <2> DEFINE I == {i \in 1 .. Len(<<e>>) : <<e>>[i] = e}
  <2>1. I = {1}
    OBVIOUS
  <2>2. Min({1}) = 1
    BY DEF Min
  <2>. QED
    BY <2>1, <2>2 DEF SelectInSeq
<1>3. RemoveAt(<<e>>, 1) = <<>>
  BY DEF RemoveAt
<1>4. RemoveFirst(<<e>>, e) = <<>>
  BY <1>2, <1>3 DEF RemoveFirst
<1>5. Cons(e, <<>>) = <<e>>
  BY DEF Cons
<1>. QED
  BY <1>1, <1>4, <1>5

(* An id is dropped at the bound on its copies only if it is there.        *)
LEMMA NoRoomContains ==
  ASSUME NEW s \in Stages, NEW j, queue[s] \in Seq(JobIds), ~Room(s, j)
  PROVE  Contains(queue[s], j)
<1> DEFINE I == {i \in DOMAIN queue[s] : queue[s][i] = j}
<1>1. I # {}
  <2>1. I = {} => Copies(s, j) = 0
    BY FS_EmptySet DEF Copies
  <2>. QED
    BY <2>1, RedisAssumption DEF Room
<1>2. DOMAIN queue[s] = 1 .. Len(queue[s])
  OBVIOUS
<1>. QED
  BY <1>1, <1>2 DEF Contains

(* A push leaves the id in a stage queue, and takes no other out.          *)
LEMMA PushQueues ==
  ASSUME RedisTypeOK, NEW s \in Stages, NEW j \in JobIds, Push(s, j), NEW k
  PROVE  /\ Queued(j)'
         /\ Queued(k) => Queued(k)'
<1>1. queue \in [Stages -> Seq(JobIds)] /\ queue[s] \in Seq(JobIds)
  BY DEF RedisTypeOK
<1> DEFINE new == IF Room(s, j) THEN Cons(j, queue[s]) ELSE queue[s]
<1>2. Contains(new, j) /\ (Contains(queue[s], k) => Contains(new, k))
  <2>1. CASE Room(s, j)
    BY <1>1, <2>1, ConsContains
  <2>2. CASE ~Room(s, j)
    BY <1>1, <2>2, NoRoomContains
  <2>. QED
    BY <2>1, <2>2
<1>3. queue' = [queue EXCEPT ![s] = new]
  BY DEF Push
<1> HIDE DEF new
<1>. QED
  BY <1>1, <1>2, <1>3 DEF Queued

(* BLMOVE takes an id out of a stage queue into the worker's list.         *)
LEMMA PopKeeps ==
  ASSUME RedisTypeOK, NEW w \in Workers, BlockingPop(w), NEW k
  PROVE  /\ Contains(processing'[w], Last(queue[StageOf[w]]))
         /\ Queued(k) => Queued(k)' \/ Contains(processing'[w], k)
         /\ \A x \in Workers : Contains(processing[x], k)
                                 => Contains(processing'[x], k)
         /\ \A x \in Workers \ {w} : processing'[x] = processing[x]
<1> DEFINE st == StageOf[w]
<1>1. /\ st \in Stages /\ queue \in [Stages -> Seq(JobIds)]
      /\ queue[st] \in Seq(JobIds) /\ queue[st] # <<>>
      /\ processing \in [Workers -> Seq(JobIds)] /\ processing[w] \in Seq(JobIds)
  BY PipelineAssumption DEF RedisTypeOK, BlockingPop
<1>2. Last(queue[st]) \in JobIds
  BY <1>1 DEF Last
<1>3. /\ queue' = [queue EXCEPT ![st] = Front(queue[st])]
      /\ processing' = [processing EXCEPT ![w] = Cons(Last(queue[st]), processing[w])]
  BY DEF BlockingPop
<1>4. /\ Contains(processing'[w], Last(queue[st]))
      /\ Contains(processing[w], k) => Contains(processing'[w], k)
  BY <1>1, <1>2, <1>3, ConsContains
<1>5. Contains(queue[st], k) => k = Last(queue[st]) \/ Contains(queue'[st], k)
  BY <1>1, <1>3, FrontContains
<1> HIDE DEF st
<1>6. Queued(k) => Queued(k)' \/ k = Last(queue[st])
  BY <1>1, <1>3, <1>5 DEF Queued
<1>. QED
  BY <1>1, <1>3, <1>4, <1>6 DEF st

(* LMOVE takes an id out of a worker's list into the stage queue.          *)
LEMMA ReclaimKeeps ==
  ASSUME RedisTypeOK, NEW w \in Workers, ReclaimMove(w), NEW k
  PROVE  /\ Queued(k) => Queued(k)'
         /\ Contains(processing[w], k) => Queued(k)' \/ Contains(processing'[w], k)
         /\ \A x \in Workers \ {w} : processing'[x] = processing[x]
<1> DEFINE st == StageOf[w]
           e == Last(processing[w])
           new == IF Room(st, e) THEN Append(queue[st], e) ELSE queue[st]
<1>1. /\ st \in Stages /\ queue \in [Stages -> Seq(JobIds)]
      /\ queue[st] \in Seq(JobIds) /\ processing[w] # <<>>
      /\ processing \in [Workers -> Seq(JobIds)] /\ processing[w] \in Seq(JobIds)
  BY PipelineAssumption DEF RedisTypeOK, ReclaimMove
<1>2. e \in JobIds
  BY <1>1 DEF Last
<1>3. /\ queue' = [queue EXCEPT ![st] = new]
      /\ processing' = [processing EXCEPT ![w] = Front(processing[w])]
  BY DEF ReclaimMove
<1>4. Contains(new, e) /\ (Contains(queue[st], k) => Contains(new, k))
  <2>1. CASE Room(st, e)
    BY <1>1, <1>2, <2>1, AppendContains
  <2>2. CASE ~Room(st, e)
    BY <1>1, <2>2, NoRoomContains
  <2>. QED
    BY <2>1, <2>2
<1>5. Contains(processing[w], k) => k = e \/ Contains(processing'[w], k)
  BY <1>1, <1>3, FrontContains
<1> HIDE DEF st, new, e
<1>6. queue'[st] = new /\ \A s \in Stages \ {st} : queue'[s] = queue[s]
  BY <1>1, <1>3
<1>7. Queued(k) => Queued(k)'
  BY <1>1, <1>4, <1>6 DEF Queued
<1>8. ASSUME k = e PROVE Queued(k)'
  BY <1>1, <1>4, <1>6, <1>8 DEF Queued
<1>. QED
  BY <1>1, <1>3, <1>5, <1>7, <1>8

-----------------------------------------------------------------------------
(* What a step of a worker does to its place, its job and the lists.       *)

Pops(w) ==
  /\ wpc[w] = "idle" /\ BlockingPop(w) /\ jobs' = jobs
  /\ wpc'[w] = "popped" /\ wjob'[w] = Last(queue[StageOf[w]])

PushesOn(w) ==
  /\ wpc[w] = "advanced" /\ Push(NextStage(StageOf[w]), wjob[w])
  /\ NextStage(StageOf[w]) \in Stages
  /\ processing' = processing /\ jobs' = jobs
  /\ wpc'[w] = "acking" /\ wjob'[w] = wjob[w]

Acks(w) ==
  /\ wpc[w] \in {"acking", "exiting"} /\ Ack(w, wjob[w])
  /\ queue' = queue /\ jobs' = jobs /\ wpc'[w] \in {"down", "idle"}

(* Steps that touch no list.  A claim is tried and the row is not waiting  *)
(* after it; the handler's outcome is settled; the worker starts, dies or  *)
(* goes on as it is.                                                       *)
TriesClaim(w) ==
  /\ wpc[w] = "popped" /\ wpc'[w] \in {"working", "acking"}
  /\ wjob'[w] = wjob[w]
  /\ \/ ClaimJob(wjob[w], w)
     \/ jobs' = jobs /\ jobs[wjob[w]].status # "queued"

EndsWork(w) ==
  /\ wpc[w] = "working" /\ wjob'[w] = wjob[w]
  /\ \/ /\ wpc'[w] \in {"acking", "exiting"}
        /\ jobs' = jobs \/ MarkDone(wjob[w]) \/ MarkFailed(wjob[w], "future")
     \/ /\ wpc'[w] = "advanced" /\ NextStage(StageOf[w]) # NoStage
        /\ \E s \in Stages : AdvanceJob(wjob[w], s)

ComesOrGoes(w) ==
  /\ jobs' = jobs
  /\ \/ wpc[w] = "down" /\ processing[w] = <<>> /\ wpc'[w] = "idle"
     \/ wpc[w] # "down" /\ wpc'[w] = "down"
     \/ wpc'[w] = wpc[w] /\ wjob'[w] = wjob[w]

(* When calls succeed, every step of a worker is one of these.             *)
LEMMA WorkerLists ==
  ASSUME CallsSucceed, TypeOK, AdvancedGoesOn, NEW w \in Workers, WorkerNext(w)
  PROVE  \/ Pops(w) \/ PushesOn(w) \/ Acks(w)
         \/ /\ UNCHANGED <<queue, processing>>
            /\ TriesClaim(w) \/ EndsWork(w) \/ ComesOrGoes(w)
<1> DEFINE Goal == \/ Pops(w) \/ PushesOn(w) \/ Acks(w)
                   \/ /\ UNCHANGED <<queue, processing>>
                      /\ TriesClaim(w) \/ EndsWork(w) \/ ComesOrGoes(w)
<1>1. wpc \in [Workers -> WorkerPcs] /\ wjob \in [Workers -> JobIds \cup {None}]
  BY DEF TypeOK, WorkerTypeOK
<1>2. ASSUME NEW pc \in WorkerPcs, GoTo(w, pc)
      PROVE  wpc'[w] = pc /\ wjob'[w] = wjob[w]
  BY <1>1, <1>2 DEF GoTo
<1>3. ASSUME NEW pc \in WorkerPcs, Rest(w, pc)
      PROVE  wpc'[w] = pc
  BY <1>1, <1>3 DEF Rest
<1>4. NextStage(StageOf[w]) # NoStage => NextStage(StageOf[w]) \in Stages
  BY DEF NextStage, Stages
<1>5. ~Fault("shutdown") /\ ~Fault("redis_error") /\ ~Fault("db_error")
      /\ ~Fault("expiry")
  BY DEF CallsSucceed, Fault
<1> USE DEF WorkerPcs
<1>6. ASSUME StartFresh(w) PROVE Goal
  BY <1>6, <1>3 DEF StartFresh, Start, FreshId, ComesOrGoes
<1>7. ASSUME HeartbeatTick(w) PROVE Goal
  BY <1>7 DEF HeartbeatTick, workerVars, ComesOrGoes
<1>8. ASSUME Pop(w) PROVE Goal
  BY <1>8, <1>1 DEF Pop, Pops
<1>9. ASSUME Claim(w) \/ ClaimReplyLost(w) PROVE Goal
  BY <1>9, <1>2 DEF Claim, ClaimReplyLost, TriesClaim
<1>10. ASSUME ClaimRaceLost(w) PROVE Goal
  BY <1>10, <1>2 DEF ClaimRaceLost, Claimable, TriesClaim
<1>11. ASSUME Complete(w) \/ Fail(w) PROVE Goal
  BY <1>11, <1>2 DEF Complete, Fail, EndsWork
<1>12. ASSUME Advance(w) PROVE Goal
  BY <1>12, <1>2, <1>4 DEF Advance, EndsWork
<1>13. ASSUME AdvanceFindsNoRow(w) PROVE Goal
  BY <1>13, <1>2 DEF AdvanceFindsNoRow, EndsWork
<1>14. ASSUME PushNext(w) PROVE Goal
  BY <1>14, <1>2, <1>4 DEF PushNext, PushesOn, AdvancedGoesOn
<1>15. ASSUME Acknowledge(w) PROVE Goal
  BY <1>15, <1>3 DEF Acknowledge, AfterAck, Acks
<1>16. ASSUME Crash(w) PROVE Goal
  BY <1>16, <1>3 DEF Crash, Up, ComesOrGoes
<1>17. ~PopReplyLost(w) /\ ~ClaimError(w) /\ ~SettleError(w) /\ ~PushNextError(w)
       /\ ~AckError(w) /\ ~Shutdown(w) /\ ~FalseExpiry(w)
  BY <1>5 DEF PopReplyLost, ClaimError, SettleError, PushNextError, AckError,
              Shutdown, FalseExpiry
<1>. QED
  BY <1>6, <1>7, <1>8, <1>9, <1>10, <1>11, <1>12, <1>13, <1>14, <1>15, <1>16,
     <1>17 DEF WorkerNext, WorkerStep, WorkerFault

(* A step of a worker leaves the lists of the other workers alone.         *)
LEMMA OtherListsKept ==
  ASSUME RedisTypeOK, NEW w \in Workers,
         Pops(w) \/ PushesOn(w) \/ Acks(w) \/ UNCHANGED processing
  PROVE  \A x \in Workers \ {w} : processing'[x] = processing[x]
<1>1. processing \in [Workers -> Seq(JobIds)]
  BY DEF RedisTypeOK
<1>2. CASE Pops(w)
  BY <1>1, <1>2 DEF Pops, BlockingPop
<1>3. CASE Acks(w)
  BY <1>1, <1>3 DEF Acks, Ack
<1>. QED
  BY <1>2, <1>3 DEF PushesOn

(* A step of a worker keeps the trace of every popped id.                  *)
LEMMA WorkerKeepsTrace ==
  ASSUME CallsSucceed, TypeOK, HoldsTrace, AdvancedGoesOn,
         NEW w \in Workers, WorkerNext(w)
  PROVE  HoldsTrace' /\ AdvancedGoesOn'
<1>1. RedisTypeOK /\ WorkerTypeOK
  BY DEF TypeOK
<1>2. OnlyWorker(w)
  BY WorkerCases
<1>3. \/ Pops(w) \/ PushesOn(w) \/ Acks(w)
      \/ /\ UNCHANGED <<queue, processing>>
         /\ TriesClaim(w) \/ EndsWork(w) \/ ComesOrGoes(w)
  BY WorkerLists
<1>4. \A x \in Workers \ {w} : processing'[x] = processing[x]
  BY <1>1, <1>3, OtherListsKept
<1>5. /\ wpc'[w] = "idle" => processing'[w] = <<>>
      /\ wpc'[w] \notin {"down", "idle"} => processing'[w] = <<wjob'[w]>>
  <2>1. CASE Pops(w)
    <3>1. processing'[w] = Cons(Last(queue[StageOf[w]]), processing[w])
      BY <1>1, <2>1 DEF Pops, BlockingPop, RedisTypeOK
    <3>2. processing[w] = <<>>
      BY <2>1 DEF Pops, HoldsTrace
    <3>. QED
      BY <2>1, <3>1, <3>2, SingletonList DEF Pops
  <2>2. CASE PushesOn(w)
    BY <2>2 DEF PushesOn, HoldsTrace
  <2>3. CASE Acks(w)
    <3>1. processing'[w] = RemoveFirst(processing[w], wjob[w])
      BY <1>1, <2>3 DEF Acks, Ack, RedisTypeOK
    <3>2. processing[w] = <<wjob[w]>>
      BY <2>3 DEF Acks, HoldsTrace
    <3>. QED
      BY <2>3, <3>1, <3>2, SingletonList DEF Acks
  <2>4. CASE UNCHANGED processing /\ (TriesClaim(w) \/ EndsWork(w) \/ ComesOrGoes(w))
    BY <2>4 DEF TriesClaim, EndsWork, ComesOrGoes, HoldsTrace
  <2>. QED
    BY <1>3, <2>1, <2>2, <2>3, <2>4
<1>6. HoldsTrace'
  BY <1>2, <1>4, <1>5 DEF HoldsTrace, OnlyWorker
<1>7. wpc'[w] = "advanced" => NextStage(StageOf[w]) # NoStage
  BY <1>3 DEF Pops, PushesOn, Acks, TriesClaim, EndsWork, ComesOrGoes, AdvancedGoesOn
<1>8. AdvancedGoesOn'
  BY <1>2, <1>7 DEF AdvancedGoesOn, OnlyWorker
<1>. QED
  BY <1>6, <1>8

(* If the id of a waiting job leaves neither the queues nor the worker     *)
(* that steps without going to the other, it is still held.                *)
LEMMA StillHeld ==
  ASSUME NEW w \in Workers, OnlyWorker(w), NEW j, Held(j),
         \A x \in Workers \ {w} : processing'[x] = processing[x],
         Queued(j) => Queued(j)' \/ KeptBy(w, j)',
         KeptBy(w, j) => Queued(j)' \/ KeptBy(w, j)'
  PROVE  Held(j)'
<1>1. \A x \in Workers \ {w} : KeptBy(x, j) => KeptBy(x, j)'
  BY DEF OnlyWorker, KeptBy
<1>. QED
  BY <1>1 DEF Held

(* A step of a worker hands a waiting id on.                               *)
LEMMA WorkerHandsOn ==
  ASSUME CallsSucceed, HandoverInv, NEW w \in Workers, WorkerNext(w)
  PROVE  HandedOn'
<1>1. /\ TypeOK /\ RedisTypeOK /\ JobsTypeOK /\ WorkerTypeOK
      /\ HoldsTrace /\ AdvancedGoesOn /\ HandedOn
  BY DEF HandoverInv, TypeOK
<1>2. OnlyWorker(w) /\ unpushed' = unpushed
  BY <1>1, WorkerCases DEF WorkerNext
<1>3. \/ Pops(w) \/ PushesOn(w) \/ Acks(w)
      \/ /\ UNCHANGED <<queue, processing>>
         /\ TriesClaim(w) \/ EndsWork(w) \/ ComesOrGoes(w)
  BY <1>1, WorkerLists
<1>4. \A x \in Workers \ {w} : processing'[x] = processing[x]
  BY <1>1, <1>3, OtherListsKept
<1>5. wpc[w] \notin {"down", "idle"} => wjob[w] \in JobIds
  BY <1>1 DEF TypeOK
<1> SUFFICES ASSUME NEW j \in JobIds, Waiting(j)' PROVE Held(j)'
  BY DEF HandedOn
<1>6. ASSUME jobs'[j] = jobs[j] PROVE Held(j)
  BY <1>1, <1>2, <1>6 DEF HandedOn, Waiting
<1>7. CASE Pops(w)
  <2>1. KeptBy(w, j)' <=> Contains(processing'[w], j)
    BY <1>7 DEF KeptBy, Pops
  <2>2. Queued(j) => Queued(j)' \/ KeptBy(w, j)'
    BY <1>1, <1>7, <2>1, PopKeeps DEF Pops
  <2>3. KeptBy(w, j) => KeptBy(w, j)'
    BY <1>7 DEF KeptBy, Pops
  <2>. QED
    BY <1>2, <1>4, <1>6, <1>7, <2>2, <2>3, StillHeld DEF Pops
<1>8. CASE PushesOn(w)
  <2>1. Queued(wjob[w])' /\ (Queued(j) => Queued(j)')
    <3>1. wjob[w] \in JobIds /\ NextStage(StageOf[w]) \in Stages
      BY <1>5, <1>8 DEF PushesOn
    <3>2. PICK k : k = wjob[w]
      OBVIOUS
    <3>. QED
      BY <1>1, <1>8, <3>1, <3>2, PushQueues DEF PushesOn
  <2>2. KeptBy(w, j) => j = wjob[w]
    <3>1. processing[w] = <<wjob[w]>>
      BY <1>1, <1>8 DEF PushesOn, HoldsTrace
    <3>2. Contains(<<wjob[w]>>, j) => j = wjob[w]
      BY SingletonList
    <3>. QED
      BY <3>1, <3>2 DEF KeptBy
  <2>. QED
    BY <1>2, <1>4, <1>6, <1>8, <2>1, <2>2, StillHeld DEF PushesOn
<1>9. CASE Acks(w)
  <2>1. ~KeptBy(w, j)
    BY <1>9 DEF Acks, KeptBy
  <2>2. Queued(j) => Queued(j)'
    BY <1>9 DEF Acks, Queued
  <2>. QED
    BY <1>2, <1>4, <1>6, <1>9, <2>1, <2>2, StillHeld DEF Acks
<1>10. ASSUME UNCHANGED <<queue, processing>>, jobs'[j] = jobs[j],
              KeptBy(w, j) => KeptBy(w, j)'
       PROVE  Held(j)'
  <2>1. Queued(j) => Queued(j)'
    BY <1>10 DEF Queued
  <2>. QED
    BY <1>2, <1>4, <1>6, <1>10, <2>1, StillHeld
<1>11. CASE UNCHANGED <<queue, processing>> /\ TriesClaim(w)
  <2>1. wjob[w] \in JobIds
    BY <1>5, <1>11 DEF TriesClaim
  <2>2. OnlyRow(wjob[w]) /\ jobs'[wjob[w]].status # "queued"
    BY <1>1, <1>11, <2>1, ClaimJobEffect DEF TriesClaim, OnlyRow
  <2>3. j # wjob[w] /\ jobs'[j] = jobs[j]
    BY <2>2 DEF Waiting, OnlyRow
  <2>4. ~KeptBy(w, j)
    <3>1. processing[w] = <<wjob[w]>>
      BY <1>1, <1>11 DEF TriesClaim, HoldsTrace
    <3>2. Contains(<<wjob[w]>>, j) => j = wjob[w]
      BY SingletonList
    <3>. QED
      BY <2>3, <3>1, <3>2 DEF KeptBy
  <2>. QED
    BY <1>10, <1>11, <2>3, <2>4
<1>12. CASE UNCHANGED <<queue, processing>> /\ EndsWork(w)
  <2>1. wjob[w] \in JobIds /\ ~KeptBy(w, j)
    BY <1>5, <1>12 DEF EndsWork, KeptBy
  <2>2. CASE jobs' = jobs
    BY <1>10, <1>12, <2>1, <2>2
  <2>3. CASE MarkDone(wjob[w])
    <3>1. j # wjob[w] /\ jobs'[j] = jobs[j]
      BY <1>1, <2>1, <2>3, MarkDoneEffect DEF Waiting, OnlyRow
    <3>. QED
      BY <1>10, <1>12, <2>1, <3>1
  <2>4. CASE MarkFailed(wjob[w], "future")
    <3>1. j # wjob[w] /\ jobs'[j] = jobs[j]
      BY <1>1, <2>1, <2>4, MarkFailedEffect DEF Waiting, OnlyRow
    <3>. QED
      BY <1>10, <1>12, <2>1, <3>1
  <2>5. ASSUME NEW s \in Stages, AdvanceJob(wjob[w], s), wpc'[w] = "advanced"
        PROVE  Held(j)'
    <3>1. CASE j = wjob[w]
      <4>1. processing'[w] = <<j>>
        BY <1>1, <1>12, <3>1 DEF EndsWork, HoldsTrace
      <4>2. KeptBy(w, j)'
        BY <2>5, <4>1, SingletonList DEF KeptBy
      <4>. QED
        BY <4>2 DEF Held
    <3>2. CASE j # wjob[w]
      <4>1. jobs'[j] = jobs[j]
        BY <1>1, <2>1, <2>5, <3>2, AdvanceJobEffect DEF OnlyRow
      <4>. QED
        BY <1>10, <1>12, <2>1, <4>1
    <3>. QED
      BY <3>1, <3>2
  <2>. QED
    BY <1>12, <2>2, <2>3, <2>4, <2>5 DEF EndsWork
<1>13. CASE UNCHANGED <<queue, processing>> /\ ComesOrGoes(w)
  <2>1. KeptBy(w, j) => KeptBy(w, j)'
    BY <1>13 DEF ComesOrGoes, KeptBy, Contains
  <2>. QED
    BY <1>10, <1>13, <2>1 DEF ComesOrGoes
<1>. QED
  BY <1>3, <1>7, <1>8, <1>9, <1>11, <1>12, <1>13

(* A worker's step keeps its key, and it does not start under the sweep.   *)
LEMMA WorkerKeepsKeys ==
  ASSUME CallsSucceed, TypeOK, UpHasKey, ReclaimsFromTheDead,
         NEW w \in Workers, WorkerNext(w)
  PROVE  UpHasKey' /\ ReclaimsFromTheDead'
<1>1. OnlyWorker(w) /\ reclaiming' = reclaiming
  BY WorkerCases DEF WorkerNext, sweeperVars
<1>2. \/ heartbeat' = heartbeat /\ (wpc'[w] # "down" => wpc[w] # "down")
      \/ /\ heartbeat' = heartbeat \cup {w}
         /\ ~Remembered(w) \/ (wpc[w] # "down" /\ w \notin heartbeat)
  BY WorkerCases DEF KeyStep, CallsSucceed
<1>3. UpHasKey'
  BY <1>1, <1>2 DEF UpHasKey, Up, OnlyWorker
<1>4. ReclaimsFromTheDead'
  BY <1>1, <1>2 DEF ReclaimsFromTheDead, UpHasKey, Up, OnlyWorker, Remembered
<1>. QED
  BY <1>3, <1>4

(* A step of the sweeper keeps the invariant: it drains a dead worker's    *)
(* list into the queue, and what it fails waits no more for the first time.*)
LEMMA SweeperHandsOn ==
  ASSUME HandoverInv, SweeperNext
  PROVE  HandoverInv'
<1>1. /\ TypeOK /\ RedisTypeOK /\ JobsTypeOK /\ SweeperTypeOK
      /\ UpHasKey /\ ReclaimsFromTheDead
      /\ HoldsTrace /\ AdvancedGoesOn /\ HandedOn
  BY DEF HandoverInv, TypeOK
<1>2. /\ wpc' = wpc /\ wjob' = wjob /\ heartbeat' = heartbeat
      /\ unpushed' = unpushed
  BY SweeperCases DEF SweeperNext
<1>3. TypeOK'
  BY <1>1, SweeperTypeStep
<1>4. UpHasKey' /\ AdvancedGoesOn'
  BY <1>1, <1>2 DEF UpHasKey, AdvancedGoesOn, Up
<1>5. reclaiming' \in {reclaiming, None}
         \/ \E x \in Workers : reclaiming' = x /\ x \notin heartbeat
  BY <1>1
     DEF SweeperNext, SweeperStep, SweeperFault, BeginSweep, CheckRef,
         ReclaimOne, ReclaimDone, BeginRevive, CheckOrphan, Revive,
         BeginPromote, BeginRepush, EndSweep, SweepPush, SkipItem, ListError,
         SweeperCrash, sweeperVars, IsWorkerAlive, SweeperTypeOK
<1>6. ReclaimsFromTheDead'
  BY <1>1, <1>2, <1>5, PipelineAssumption DEF ReclaimsFromTheDead, UpHasKey, Up
<1>7. \/ UNCHANGED <<queue, processing>>
      \/ ReclaimOne
      \/ \E p \in pushes : SweepPush(p)
  BY DEF SweeperNext, SweeperStep, SweeperFault, BeginSweep, CheckRef,
         ReclaimDone, BeginRevive, CheckOrphan, Revive,
         BeginPromote, BeginRepush, EndSweep, SkipItem, ListError, SweeperCrash
<1>8. ASSUME ReclaimOne
      PROVE  /\ reclaiming \in Workers /\ ReclaimMove(reclaiming)
             /\ wpc[reclaiming] = "down"
  BY <1>1, <1>8 DEF ReclaimOne, SweeperTypeOK, ReclaimsFromTheDead, Up
<1>9. \A x \in Workers : wpc[x] # "down" => processing'[x] = processing[x]
  <2>1. CASE ReclaimOne
    BY <1>1, <1>8, <2>1, ReclaimKeeps
  <2>. QED
    BY <1>7, <2>1 DEF SweepPush
<1>10. HoldsTrace'
  BY <1>1, <1>2, <1>9 DEF HoldsTrace
<1>11. \A j \in JobIds : \/ jobs'[j] = jobs[j]
                         \/ jobs'[j].lastError = "set"
  <2>1. ASSUME NEW v \in victim, MarkFailed(v.job, "due")
        PROVE  \A j \in JobIds : jobs'[j] = jobs[j] \/ jobs'[j].lastError = "set"
    <3>1. v.job \in JobIds
      BY <1>1 DEF SweeperTypeOK, Claimed
    <3>. QED
      BY <1>1, <2>1, <3>1, MarkFailedEffect DEF OnlyRow
  <2>. QED
    BY <2>1, SweeperCases
<1>12. HandedOn'
  <2> SUFFICES ASSUME NEW j \in JobIds, Waiting(j)' PROVE Held(j)'
    BY DEF HandedOn
  <2>1. Held(j)
    BY <1>1, <1>2, <1>11 DEF HandedOn, Waiting
  <2>2. CASE UNCHANGED <<queue, processing>>
    BY <1>2, <2>1, <2>2 DEF Held, KeptBy, Queued
  <2>3. CASE ReclaimOne
    <3>1. Queued(j) => Queued(j)'
      BY <1>1, <1>8, <2>3, ReclaimKeeps
    <3>2. ASSUME NEW x \in Workers, KeptBy(x, j) PROVE Queued(j)' \/ KeptBy(x, j)'
      <4>1. CASE x = reclaiming
        <5>1. ReclaimMove(x)
          BY <1>8, <2>3, <4>1
        <5>. QED
          BY <1>1, <1>2, <3>2, <5>1, ReclaimKeeps DEF KeptBy
      <4>2. CASE x # reclaiming
        <5>1. processing'[x] = processing[x]
          BY <1>1, <1>8, <2>3, <4>2, ReclaimKeeps
        <5>. QED
          BY <1>2, <3>2, <5>1 DEF KeptBy
      <4>. QED
        BY <4>1, <4>2
    <3>. QED
      BY <2>1, <3>1, <3>2 DEF Held
  <2>4. ASSUME NEW p \in pushes, SweepPush(p) PROVE Held(j)'
    <3>1. p.job \in JobIds /\ p.stage \in Stages
      BY <1>1 DEF SweeperTypeOK, Pushable
    <3>2. Queued(j) => Queued(j)'
      BY <1>1, <2>4, <3>1, PushQueues DEF SweepPush
    <3>3. processing' = processing
      BY <2>4 DEF SweepPush
    <3>. QED
      BY <1>2, <2>1, <3>2, <3>3 DEF Held, KeptBy
  <2>. QED
    BY <1>7, <2>2, <2>3, <2>4
<1>. QED
  BY <1>3, <1>4, <1>6, <1>10, <1>12 DEF HandoverInv

(* A step of a producer or of the clock keeps the invariant: a row waits   *)
(* from the moment its producer has pushed it.                             *)
LEMMA OtherHandsOn ==
  ASSUME CallsSucceed, HandoverInv,
         \/ \E j \in JobIds : Produce(j) \/ ProducerPush(j) \/ ProducerPushLost(j)
         \/ \E w \in Workers : DeadKeyExpires(w)
         \/ \E j \in JobIds : Clock(j)
  PROVE  HandoverInv'
<1>1. /\ TypeOK /\ RedisTypeOK /\ JobsTypeOK
      /\ UpHasKey /\ ReclaimsFromTheDead
      /\ HoldsTrace /\ AdvancedGoesOn /\ HandedOn
  BY DEF HandoverInv, TypeOK
<1>2. /\ wpc' = wpc /\ wjob' = wjob /\ processing' = processing
      /\ reclaiming' = reclaiming
  BY DEF Produce, ProducerPush, ProducerPushLost, DeadKeyExpires, Clock,
         workerVars, sweeperVars
<1>3. TypeOK'
  BY <1>1, OtherTypeStep
<1>4. HoldsTrace' /\ AdvancedGoesOn' /\ ReclaimsFromTheDead'
  BY <1>1, <1>2 DEF HoldsTrace, AdvancedGoesOn, ReclaimsFromTheDead, Up
<1>5. UpHasKey'
  <2>1. heartbeat' = heartbeat \/ \E w \in Workers : ~Up(w) /\ heartbeat' = heartbeat \ {w}
    BY DEF Produce, ProducerPush, ProducerPushLost, DeadKeyExpires, Clock, KeyExpires
  <2>. QED
    BY <1>1, <1>2, <2>1 DEF UpHasKey, Up
<1>6. ASSUME NEW j \in JobIds, Produce(j) PROVE HandedOn'
  <2>1. /\ OnlyRow(j) /\ queue' = queue /\ unpushed' = unpushed \cup {j}
    BY <1>1, <1>6, EnqueueJobEffect DEF Produce
  <2>2. \A k \in JobIds : Waiting(k)' => Waiting(k)
    BY <2>1 DEF Waiting, OnlyRow
  <2>3. \A k \in JobIds : Held(k) => Held(k)'
    BY <1>2, <2>1 DEF Held, KeptBy, Queued
  <2>. QED
    BY <1>1, <2>2, <2>3 DEF HandedOn
<1>7. ASSUME NEW j \in JobIds, ProducerPush(j) PROVE HandedOn'
  <2>1. StartStage[j] \in Stages /\ Push(StartStage[j], j)
    BY <1>7, TaskQueueAssumption DEF ProducerPush, Stages
  <2>2. Queued(j)' /\ \A k \in JobIds : Queued(k) => Queued(k)'
    BY <1>1, <2>1, PushQueues
  <2>3. \A k \in JobIds : Waiting(k)' => Waiting(k) \/ k = j
    BY <1>7 DEF ProducerPush, Waiting
  <2>. QED
    BY <1>1, <1>2, <2>2, <2>3 DEF HandedOn, Held, KeptBy
<1>8. ~ \E j \in JobIds : ProducerPushLost(j)
  BY DEF ProducerPushLost, Fault, CallsSucceed
<1>9. ASSUME NEW w \in Workers, DeadKeyExpires(w) PROVE HandedOn'
  BY <1>1, <1>2, <1>9
     DEF DeadKeyExpires, HandedOn, Waiting, Held, KeptBy, Queued
<1>10. ASSUME NEW j \in JobIds, Clock(j) PROVE HandedOn'
  <2>1. \A k \in JobIds : /\ jobs'[k].status = jobs[k].status
                          /\ jobs'[k].lastError = jobs[k].lastError
    BY <1>1, <1>10, ClockEffect DEF Clock
  <2>2. \A k \in JobIds : (Waiting(k)' => Waiting(k)) /\ (Held(k) => Held(k)')
    BY <1>2, <1>10, <2>1 DEF Clock, Waiting, Held, KeptBy, Queued
  <2>. QED
    BY <1>1, <2>2 DEF HandedOn
<1>. QED
  BY <1>3, <1>4, <1>5, <1>6, <1>7, <1>8, <1>9, <1>10 DEF HandoverInv

(* The handover invariant holds at first.                                  *)
LEMMA HandoverInit == Init => HandoverInv
<1> SUFFICES ASSUME Init PROVE HandoverInv
  OBVIOUS
<1>1. \A w \in Workers : wpc[w] = "down"
  BY DEF Init, WorkerInit
<1>2. UpHasKey /\ ReclaimsFromTheDead /\ HoldsTrace /\ AdvancedGoesOn
  BY <1>1 DEF UpHasKey, ReclaimsFromTheDead, Up, HoldsTrace, AdvancedGoesOn
<1>3. HandedOn
  BY DEF Init, NewJob, HandedOn, Waiting
<1>. QED
  BY <1>2, <1>3, TypeInit DEF HandoverInv

(* Every step keeps it, when calls succeed.                                *)
LEMMA HandoverStep ==
  ASSUME CallsSucceed
  PROVE  HandoverInv /\ [Next]_vars => HandoverInv'
<1> SUFFICES ASSUME HandoverInv, [Next]_vars PROVE HandoverInv'
  OBVIOUS
<1>1. ASSUME NEW w \in Workers, WorkerNext(w) PROVE HandoverInv'
  <2>1. /\ TypeOK /\ UpHasKey /\ ReclaimsFromTheDead
        /\ HoldsTrace /\ AdvancedGoesOn
    BY DEF HandoverInv
  <2>2. TypeOK'
    BY <1>1, <2>1, WorkerTypeStep
  <2>3. UpHasKey' /\ ReclaimsFromTheDead'
    BY <1>1, <2>1, WorkerKeepsKeys
  <2>4. HoldsTrace' /\ AdvancedGoesOn'
    BY <1>1, <2>1, WorkerKeepsTrace
  <2>5. HandedOn'
    BY <1>1, WorkerHandsOn
  <2>. QED
    BY <2>2, <2>3, <2>4, <2>5 DEF HandoverInv
<1>2. CASE SweeperNext
  BY <1>2, SweeperHandsOn
<1>3. CASE \/ \E j \in JobIds : Produce(j) \/ ProducerPush(j) \/ ProducerPushLost(j)
           \/ \E w \in Workers : DeadKeyExpires(w)
           \/ \E j \in JobIds : Clock(j)
  BY <1>3, OtherHandsOn
<1>4. CASE UNCHANGED vars
  <2>1. TypeOK'
    BY <1>4, TypeStep DEF HandoverInv
  <2>. QED
    BY <1>4, <2>1
       DEF vars, HandoverInv, UpHasKey, ReclaimsFromTheDead, Up, HoldsTrace,
           AdvancedGoesOn, HandedOn,
           Waiting, Held, KeptBy, Queued
<1>. QED
  BY <1>1, <1>2, <1>3, <1>4 DEF Next

(* When calls succeed, no job id is ever lost between Redis calls: from    *)
(* its producer's push on, the id of a row that waits for its first try at *)
(* a stage is in a stage queue or in a processing list (queue.go:39, 111), *)
(* although processes are killed at any step, sweeps stall and replies to  *)
(* claims are lost.                                                        *)
THEOREM NoIdIsLost ==
  ASSUME CallsSucceed
  PROVE  Spec => []NoStranding
<1>1. HandoverInv => NoStranding
  BY DEF HandoverInv, HandedOn, Waiting, Held, KeptBy, NoStranding, InFlight
<1>. QED
  BY <1>1, HandoverInit, HandoverStep, PTL DEF Spec
=============================================================================
