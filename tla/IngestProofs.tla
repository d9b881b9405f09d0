---------------------------- MODULE IngestProofs ----------------------------
(***************************************************************************)
(* A poll loses nothing: for every mailbox, every set of producers and     *)
(* every number of crashes and lost pushes, the cursor covers only mail    *)
(* that has a row -- provided the history since the cursor fits one answer *)
(* of history.list and inserts do not fail.                                *)
(***************************************************************************)
EXTENDS Ingest, TLAPS

(* The two provisos.                                                       *)
LosslessPoll == MaxHistory <= HistoryPage /\ "db_error" \notin Faults

(* As CursorCovers, of the poll under way: what it has listed is pending   *)
(* or has a row, so saving its cursor is sound.                            *)
PollCovers ==
  pc["scheduler"] \in {"next", "push"} =>
    \A i \in DOMAIN history :
      cursor < i /\ i <= newCursor /\ history[i] \in Personal
        => Known(history[i]) \/ history[i] \in ids["scheduler"]

(* What the two rest on: the cursor and the seed are set together, no      *)
(* cursor is ahead of the history, and a pushed message has its row.       *)
CursorsInHistory ==
  /\ cursor = NoCursor <=> seed = NoCursor
  /\ cursor # NoCursor => cursor <= Len(history)
  /\ newCursor <= Len(history)
  /\ pc["scheduler"] \in {"next", "push"} => cursor # NoCursor
  /\ pc["scheduler"] = "push" => Known(msg["scheduler"])
  /\ Len(history) <= MaxHistory

(* The inductive invariant of a lossless poll.                             *)
SyncInv == TypeOK /\ CursorCovers /\ PollCovers /\ CursorsInHistory

(* A row once inserted is never deleted: what has a row keeps it.          *)
KnownGrows == \A m \in Messages : Known(m) => Known(m)'

RowsOK == active \in [Messages -> 0..1] /\ ended \in [Messages -> Nat]

QueueOK == depth \in Nat /\ repushes \in Nat /\ foreign \in Nat

ProducersOK ==
  /\ pc \in [AllProducers -> Labels]
  /\ ids \in [AllProducers -> SUBSET Messages]
  /\ msg \in [AllProducers -> Messages \cup {None}]
  /\ \A p \in AllProducers :
       pc[p] \in {"insert", "push"} => msg[p] \in ids[p]

-----------------------------------------------------------------------------
(* Initially there is no cursor and no poll.                               *)
LEMMA InitSync == ASSUME IngestInit PROVE SyncInv
  <1>1. TypeOK
    BY IngestAssumption DEF IngestInit, TypeOK, AllProducers, Labels, FaultsTypeOK
  <1>2. CursorCovers /\ PollCovers
    BY DEF IngestInit, CursorCovers, PollCovers, AllProducers
  <1>3. CursorsInHistory
    BY IngestAssumption DEF IngestInit, CursorsInHistory, AllProducers
  <1> QED BY <1>1, <1>2, <1>3 DEF SyncInv

(* The statements of the store keep the types of the rows and lose none.   *)
LEMMA EnqueueEffect ==
  ASSUME TypeOK, NEW m \in Messages, EnqueueJob(m)
  PROVE  RowsOK' /\ KnownGrows /\ Known(m)'
  BY DEF TypeOK, RowsOK, EnqueueJob, KnownGrows, Known, HasJobForMessage

LEMMA JobEndsEffect ==
  ASSUME TypeOK, NEW m \in Messages, JobEnds(m)
  PROVE  RowsOK' /\ KnownGrows
  BY DEF TypeOK, RowsOK, JobEnds, KnownGrows, Known, HasJobForMessage

LEMMA RowsKept ==
  ASSUME TypeOK, UNCHANGED jobVars
  PROVE  RowsOK' /\ KnownGrows
  BY DEF TypeOK, RowsOK, jobVars, KnownGrows, Known, HasJobForMessage

-----------------------------------------------------------------------------
(* Types.  A producer's step changes its own entries of pc, ids and msg.   *)
LEMMA DropType ==
  ASSUME TypeOK, NEW p \in AllProducers, NEW m \in Messages, Drop(p, m)
  PROVE  ProducersOK'
  BY DEF TypeOK, ProducersOK, Drop, GoTo, Labels

LEMMA AbortType ==
  ASSUME TypeOK, NEW p \in AllProducers, Abort(p)
  PROVE  ProducersOK'
  BY DEF TypeOK, ProducersOK, Abort, GoTo, Labels

LEMMA FaultType ==
  ASSUME TypeOK, NEW k, Fault(k)
  PROVE  FaultsTypeOK'
  BY DEF TypeOK, Fault, FaultsTypeOK

LEMMA InsertType ==
  ASSUME TypeOK, NEW p \in AllProducers, NEW m \in ids[p], Insert(p, m)
  PROVE  /\ ProducersOK' /\ FaultsTypeOK'
         /\ RowsOK' /\ KnownGrows /\ Known(m)'
  <1>1. m \in Messages
    BY DEF TypeOK
  <1>2. EnqueueJob(m)
    BY DEF Insert
  <1> QED BY <1>1, <1>2, EnqueueEffect 
         DEF TypeOK, ProducersOK, Insert, GoTo, Labels, FaultsTypeOK

LEMMA PushType ==
  ASSUME TypeOK, NEW p \in AllProducers, PushId(p)
  PROVE  /\ msg[p] \in ids[p] /\ msg[p] \in Messages
         /\ QueueOK' /\ Drop(p, msg[p]) /\ UNCHANGED <<jobVars, faults>>
  BY DEF TypeOK, PushId, Push, QueueOK, At

(* What every step of a producer keeps, and what is left of TypeOK.        *)
StepOK == ProducersOK /\ RowsOK /\ FaultsTypeOK /\ QueueOK

LEMMA SplitTypeOK ==
  TypeOK <=>
    /\ StepOK
    /\ history \in Seq(Messages) /\ inbox \subseteq Messages
    /\ aged \subseteq Messages
    /\ cursor \in Nat \cup {NoCursor} /\ seed \in Nat \cup {NoCursor}
    /\ newCursor \in Nat
    /\ more \subseteq Messages
  BY DEF TypeOK, StepOK, ProducersOK, RowsOK, QueueOK

LEMMA PollKeepsTypes ==
  ASSUME TypeOK, PollStep
  PROVE  StepOK' /\ KnownGrows
  <1> USE DEF StepOK, QueueOK, queueVars
  <1>0. /\ StepOK /\ "scheduler" \in AllProducers
        /\ LatestMessageIDs(cursor) \subseteq Messages
    BY SplitTypeOK, IngestAssumption DEF AllProducers, LatestMessageIDs
  <1>1. CASE PollSeed
    BY <1>0, <1>1, RowsKept
       DEF PollSeed, ProducersOK, RowsOK, GoTo, Labels, FaultsTypeOK
  <1>2. CASE PollSeedSave
    <2>1. FaultsTypeOK'
      BY <1>0, <1>2, FaultType DEF PollSeedSave, FaultsTypeOK
    <2> QED BY <1>0, <1>2, <2>1, RowsKept
            DEF PollSeedSave, ProducersOK, RowsOK, GoTo, Labels
  <1>3. CASE PollList
    BY <1>0, <1>3, RowsKept
       DEF PollList, Lists, ProducersOK, RowsOK, GoTo, Labels, FaultsTypeOK
  <1>4. ASSUME NEW m \in Messages, PollEnqueue(m) PROVE StepOK' /\ KnownGrows
    <2>0. QueueOK'
      BY <1>0, <1>4 DEF PollEnqueue
    <2>1. CASE Insert("scheduler", m)
      BY <1>0, <1>4, <2>0, <2>1, InsertType DEF PollEnqueue
    <2>2. CASE Drop("scheduler", m) /\ UNCHANGED jobVars
      <3>1. FaultsTypeOK'
        BY <1>0, <1>4, FaultType DEF PollEnqueue, Insert, FaultsTypeOK
      <3> QED BY <1>0, <2>0, <2>2, <3>1, DropType, RowsKept
    <2> QED BY <1>4, <2>1, <2>2 DEF PollEnqueue, jobVars
  <1>5. CASE PollPush
    <2>1. CASE PushId("scheduler")
      BY <1>0, <2>1, PushType, DropType, RowsKept DEF FaultsTypeOK
    <2>2. CASE ~PushId("scheduler")
      <3>1. /\ pc["scheduler"] = "push" /\ Fault("lost_push")
            /\ Drop("scheduler", msg["scheduler"]) /\ UNCHANGED <<jobVars, queueVars>>
        BY <1>5, <2>2 DEF PollPush, At
      <3>2. msg["scheduler"] \in Messages
        BY <1>0, <3>1 DEF ProducersOK
      <3> QED BY <1>0, <3>1, <3>2, DropType, FaultType, RowsKept
    <2> QED BY <2>1, <2>2
  <1>6. CASE PollSave
    <2>1. FaultsTypeOK'
      BY <1>0, <1>6, FaultType DEF PollSave, FaultsTypeOK
    <2> QED BY <1>0, <1>6, <2>1, RowsKept
            DEF PollSave, ProducersOK, RowsOK, GoTo, Labels
  <1> QED BY <1>1, <1>2, <1>3, <1>4, <1>5, <1>6 DEF PollStep

(* A step of another producer leaves the scheduler's loop alone.           *)
SchedulerUntouched ==
  /\ pc'["scheduler"] = pc["scheduler"]
  /\ ids'["scheduler"] = ids["scheduler"]
  /\ msg'["scheduler"] = msg["scheduler"]

LEMMA Elsewhere ==
  ASSUME TypeOK, NEW p \in AllProducers \ {"scheduler"}
  PROVE  /\ \A m : Drop(p, m) => SchedulerUntouched
         /\ \A m : Insert(p, m) => SchedulerUntouched
         /\ Abort(p) => SchedulerUntouched
         /\ PushId(p) => SchedulerUntouched
  BY DEF TypeOK, Drop, Insert, Abort, PushId, GoTo, SchedulerUntouched,
         AllProducers

LEMMA BackfillKeepsTypes ==
  ASSUME TypeOK, BackfillStep
  PROVE  StepOK' /\ KnownGrows /\ SchedulerUntouched
  <1> USE DEF StepOK, QueueOK, queueVars
  <1>0. /\ StepOK /\ "scheduler" \in AllProducers
        /\ "backfill" \in AllProducers \ {"scheduler"}
        /\ ListRecent \subseteq Messages
    BY SplitTypeOK DEF AllProducers, ListRecent, TypeOK
  <1>1. CASE BackfillList
    BY <1>0, <1>1, RowsKept
       DEF BackfillList, Lists, ProducersOK, RowsOK, GoTo, Labels, FaultsTypeOK,
           SchedulerUntouched
  <1>2. ASSUME NEW m \in Messages, BackfillCheck(m)
        PROVE  StepOK' /\ KnownGrows /\ SchedulerUntouched
    <2>0. QueueOK' /\ UNCHANGED jobVars /\ m \in ids["backfill"]
      BY <1>0, <1>2 DEF BackfillCheck
    <2>1. CASE Drop("backfill", m)
      <3>1. FaultsTypeOK'
        BY <1>0, <1>2, FaultType DEF BackfillCheck, FaultsTypeOK
      <3> QED BY <1>0, <2>0, <2>1, <3>1, DropType, RowsKept, Elsewhere
    <2>2. CASE /\ msg' = [msg EXCEPT !["backfill"] = m]
               /\ GoTo("backfill", "insert") /\ UNCHANGED <<ids, faults>>
      BY <1>0, <2>0, <2>2, RowsKept
         DEF ProducersOK, RowsOK, GoTo, Labels, FaultsTypeOK, SchedulerUntouched
    <2> QED BY <1>2, <2>1, <2>2 DEF BackfillCheck
  <1>3. CASE BackfillEnqueue
    <2> DEFINE m == msg["backfill"]
    <2>0. QueueOK' /\ m \in ids["backfill"] /\ m \in Messages
      BY <1>0, <1>3 DEF BackfillEnqueue, ProducersOK, At
    <2>1. CASE Insert("backfill", m)
      BY <1>0, <2>0, <2>1, InsertType, Elsewhere
    <2>2. CASE Drop("backfill", m) /\ UNCHANGED jobVars
      <3>1. FaultsTypeOK'
        BY <1>0, <1>3, FaultType DEF BackfillEnqueue, Insert, FaultsTypeOK
      <3> QED BY <1>0, <2>0, <2>2, <3>1, DropType, RowsKept, Elsewhere
    <2> QED BY <1>3, <2>1, <2>2 DEF BackfillEnqueue, jobVars
  <1>4. CASE BackfillPush
    <2>1. CASE PushId("backfill")
      BY <1>0, <2>1, PushType, DropType, RowsKept, Elsewhere DEF FaultsTypeOK
    <2>2. CASE ~PushId("backfill")
      <3>1. /\ pc["backfill"] = "push" /\ Fault("lost_push")
            /\ Drop("backfill", msg["backfill"]) /\ UNCHANGED <<jobVars, queueVars>>
        BY <1>4, <2>2 DEF BackfillPush, At
      <3>2. msg["backfill"] \in Messages
        BY <1>0, <3>1 DEF ProducersOK
      <3> QED BY <1>0, <3>1, <3>2, DropType, FaultType, RowsKept, Elsewhere
    <2> QED BY <2>1, <2>2
  <1>5. CASE BackfillDone
    BY <1>0, <1>5, RowsKept
       DEF BackfillDone, ProducersOK, RowsOK, GoTo, Labels, FaultsTypeOK,
           SchedulerUntouched
  <1> QED BY <1>1, <1>2, <1>3, <1>4, <1>5 DEF BackfillStep

LEMMA ImportKeepsTypes ==
  ASSUME TypeOK, ImportStep \/ ImportInterrupted
  PROVE  StepOK' /\ KnownGrows /\ SchedulerUntouched /\ more' \subseteq Messages
  <1> USE DEF StepOK, QueueOK, queueVars
  <1>0. /\ StepOK /\ "scheduler" \in AllProducers
        /\ "import" \in AllProducers \ {"scheduler"}
        /\ more \subseteq Messages /\ ListAllPages \subseteq Messages
    BY SplitTypeOK, IngestAssumption DEF AllProducers, ListAllPages
  <1>a. ASSUME AbortImport, NEW k, Fault(k), UNCHANGED <<jobVars, queueVars>>
        PROVE  /\ StepOK' /\ KnownGrows /\ SchedulerUntouched
               /\ more' \subseteq Messages
    BY <1>0, <1>a, AbortType, FaultType, RowsKept, Elsewhere DEF AbortImport
  <1>1. CASE ImportStart
    BY <1>0, <1>1, RowsKept
       DEF ImportStart, ProducersOK, RowsOK, GoTo, Labels, FaultsTypeOK,
           SchedulerUntouched
  <1>2. ASSUME NEW found \in SUBSET Messages, ImportPage(found)
        PROVE  /\ StepOK' /\ KnownGrows /\ SchedulerUntouched
               /\ more' \subseteq Messages
    BY <1>0, <1>2, RowsKept
       DEF ImportPage, Lists, ProducersOK, RowsOK, GoTo, Labels, FaultsTypeOK,
           SchedulerUntouched
  <1>3. CASE WaitForQueueDepth
    <2>1. CASE Fault("redis_error") /\ AbortImport
      BY <1>3, <1>a, <2>1 DEF WaitForQueueDepth
    <2>2. CASE GoTo("import", "next") /\ UNCHANGED <<ids, msg, more, faults>>
      BY <1>0, <1>3, <2>2, RowsKept
         DEF WaitForQueueDepth, ProducersOK, RowsOK, GoTo, Labels, FaultsTypeOK,
             SchedulerUntouched
    <2> QED BY <1>3, <2>1, <2>2 DEF WaitForQueueDepth
  <1>4. ASSUME NEW m \in Messages, ImportCheck(m)
        PROVE  /\ StepOK' /\ KnownGrows /\ SchedulerUntouched
               /\ more' \subseteq Messages
    <2>0. QueueOK' /\ UNCHANGED <<jobVars, queueVars>> /\ m \in ids["import"]
      BY <1>0, <1>4 DEF ImportCheck
    <2>1. CASE Drop("import", m) /\ UNCHANGED <<more, faults>>
      BY <1>0, <2>0, <2>1, DropType, RowsKept, Elsewhere DEF FaultsTypeOK
    <2>2. CASE /\ msg' = [msg EXCEPT !["import"] = m]
               /\ GoTo("import", "insert") /\ UNCHANGED <<ids, more, faults>>
      BY <1>0, <2>0, <2>2, RowsKept
         DEF ProducersOK, RowsOK, GoTo, Labels, FaultsTypeOK, SchedulerUntouched
    <2>3. CASE Fault("db_error") /\ AbortImport
      BY <1>a, <2>0, <2>3
    <2> QED BY <1>4, <2>1, <2>2, <2>3 DEF ImportCheck
  <1>5. CASE ImportEnqueue
    <2> DEFINE m == msg["import"]
    <2>0. QueueOK' /\ UNCHANGED queueVars /\ m \in ids["import"] /\ m \in Messages
      BY <1>0, <1>5 DEF ImportEnqueue, ProducersOK, At
    <2>1. CASE Insert("import", m) /\ UNCHANGED more
      BY <1>0, <2>0, <2>1, InsertType, Elsewhere
    <2>2. CASE Drop("import", m) /\ UNCHANGED <<jobVars, more, faults>>
      BY <1>0, <2>0, <2>2, DropType, RowsKept, Elsewhere DEF FaultsTypeOK
    <2>3. CASE Fault("db_error") /\ AbortImport /\ UNCHANGED jobVars
      BY <1>a, <2>0, <2>3
    <2> QED BY <1>5, <2>1, <2>2, <2>3 DEF ImportEnqueue
  <1>6. CASE ImportPush
    <2>1. CASE PushId("import") /\ UNCHANGED more
      BY <1>0, <2>1, PushType, DropType, RowsKept, Elsewhere DEF FaultsTypeOK
    <2>2. CASE Fault("lost_push") /\ AbortImport /\ UNCHANGED <<jobVars, queueVars>>
      BY <1>a, <2>2
    <2> QED BY <1>6, <2>1, <2>2 DEF ImportPush
  <1>7. CASE ImportPageDone
    BY <1>0, <1>7, RowsKept
       DEF ImportPageDone, ProducersOK, RowsOK, GoTo, Labels, FaultsTypeOK,
           SchedulerUntouched
  <1>8. CASE ImportInterrupted
    BY <1>8, <1>a DEF ImportInterrupted
  <1> QED BY <1>1, <1>2, <1>3, <1>4, <1>5, <1>6, <1>7, <1>8 DEF ImportStep

-----------------------------------------------------------------------------
(* A new record goes behind every cursor.                                  *)
LEMMA ArriveEffect ==
  ASSUME TypeOK, NEW m \in Messages, Arrive(m)
  PROVE  /\ history' \in Seq(Messages) /\ Len(history') = Len(history) + 1
         /\ \A i \in DOMAIN history : i \in DOMAIN history' /\ history'[i] = history[i]
         /\ \A i \in DOMAIN history' : i \notin DOMAIN history => i = Len(history) + 1
         /\ Len(history) \in Nat
  BY DEF TypeOK, Arrive

LEMMA TypeStep ==
  ASSUME TypeOK, [Next]_vars
  PROVE  TypeOK'
  <1>0. StepOK
    BY SplitTypeOK
  <1>1. CASE Gmail
    <2>1. StepOK'
      BY <1>0, <1>1
         DEF Gmail, Arrive, Archive, GrowOld, StepOK, ProducersOK, RowsOK,
             FaultsTypeOK, QueueOK, jobVars, queueVars
    <2>2. /\ history' \in Seq(Messages) /\ inbox' \subseteq Messages
          /\ aged' \subseteq Messages
      BY <1>1, ArriveEffect DEF TypeOK, Gmail, Arrive, Archive, GrowOld
    <2> QED BY <1>1, <2>1, <2>2, SplitTypeOK
            DEF Gmail, Arrive, Archive, GrowOld, TypeOK, StepOK, ProducersOK,
                RowsOK, QueueOK, cursorVars
  <1>2. CASE TaskQueueRuns
    <2>1. CASE Pop
      BY <2>1 DEF Pop, TypeOK, FaultsTypeOK, gmailVars, cursorVars, jobVars
    <2>2. ASSUME NEW m \in Messages, JobEnds(m) PROVE TypeOK'
      <3>1. RowsOK'
        BY <2>2, JobEndsEffect
      <3> QED BY <2>2, <3>1
              DEF JobEnds, TypeOK, RowsOK, FaultsTypeOK, gmailVars, cursorVars,
                  queueVars
    <2>3. CASE PutBack
      BY <2>3 DEF PutBack, Push, TypeOK, FaultsTypeOK, gmailVars, cursorVars, jobVars
    <2> QED BY <1>2, <2>1, <2>2, <2>3 DEF TaskQueueRuns, Repush, Reclaim
  <1>3. CASE Poll
    <2>1. StepOK' /\ UNCHANGED <<gmailVars, more>>
      BY <1>3, PollKeepsTypes DEF Poll
    <2>2. /\ cursor' \in Nat \cup {NoCursor} /\ seed' \in Nat \cup {NoCursor}
          /\ newCursor' \in Nat
      BY <1>3 DEF Poll, PollStep, PollSeed, PollSeedSave, PollList, PollEnqueue,
                  PollPush, PollSave, LatestCursor, TypeOK, cursorVars
    <2> QED BY <2>1, <2>2 DEF TypeOK, StepOK, ProducersOK, RowsOK, QueueOK, gmailVars
  <1>4. CASE Backfills
    <2>1. StepOK' /\ UNCHANGED <<gmailVars, cursorVars, more>>
      BY <1>4, BackfillKeepsTypes DEF Backfills
    <2> QED
      BY <2>1 DEF TypeOK, StepOK, ProducersOK, RowsOK, QueueOK, gmailVars, cursorVars
  <1>5. CASE Imports
    <2>1. StepOK' /\ more' \subseteq Messages /\ UNCHANGED <<gmailVars, cursorVars>>
      BY <1>5, ImportKeepsTypes DEF Imports
    <2> QED
      BY <2>1 DEF TypeOK, StepOK, ProducersOK, RowsOK, QueueOK, gmailVars, cursorVars
  <1>6. CASE SchedulerCrash /\ UNCHANGED <<gmailVars, more>>
    <2>1. FaultsTypeOK'
      BY <1>6, FaultType DEF SchedulerCrash
    <2> QED BY <1>6, <2>1
            DEF SchedulerCrash, TypeOK, Labels, gmailVars, cursorVars, jobVars,
                queueVars
  <1>7. CASE UNCHANGED vars
    BY <1>7 DEF vars, gmailVars, cursorVars, jobVars, queueVars, TypeOK, FaultsTypeOK
  <1> QED BY <1>1, <1>2, <1>3, <1>4, <1>5, <1>6, <1>7 DEF Next

-----------------------------------------------------------------------------
(* A step that leaves the history, the cursors and the scheduler's loop    *)
(* alone, and deletes no row, keeps the invariant.                         *)
LEMMA SyncUntouched ==
  ASSUME SyncInv, TypeOK', KnownGrows, SchedulerUntouched,
         UNCHANGED <<history, cursorVars>>
  PROVE  SyncInv'
  <1>0. \A i \in DOMAIN history : history[i] \in Messages
    BY DEF SyncInv, TypeOK
  <1>1. CursorCovers'
    BY <1>0 DEF SyncInv, CursorCovers, KnownGrows, cursorVars
  <1>2. PollCovers'
    BY <1>0 DEF SyncInv, PollCovers, KnownGrows, SchedulerUntouched, cursorVars
  <1>3. CursorsInHistory'
    <2>1. pc["scheduler"] = "push" => msg["scheduler"] \in Messages
      BY DEF SyncInv, TypeOK, AllProducers
    <2> QED BY <2>1 DEF SyncInv, CursorsInHistory, KnownGrows, SchedulerUntouched,
                        cursorVars
  <1> QED BY <1>1, <1>2, <1>3 DEF SyncInv

(* The scheduler's loop handles one message: it drops one that has a row.  *)
LEMMA SyncDrop ==
  ASSUME SyncInv, TypeOK', KnownGrows, UNCHANGED <<history, cursorVars>>,
         pc["scheduler"] \in {"next", "push"},
         NEW m \in Messages, Known(m), Drop("scheduler", m)
  PROVE  SyncInv'
  <1>0. \A i \in DOMAIN history : history[i] \in Messages
    BY DEF SyncInv, TypeOK
  <1>1. pc'["scheduler"] = "next" /\ ids'["scheduler"] = ids["scheduler"] \ {m}
    BY DEF SyncInv, TypeOK, Drop, GoTo, AllProducers
  <1>2. CursorCovers'
    BY <1>0 DEF SyncInv, CursorCovers, KnownGrows, cursorVars
  <1>3. PollCovers'
    BY <1>0, <1>1 DEF SyncInv, PollCovers, KnownGrows, cursorVars
  <1>4. CursorsInHistory'
    BY <1>1 DEF SyncInv, CursorsInHistory, cursorVars
  <1> QED BY <1>2, <1>3, <1>4 DEF SyncInv

(* The poll's own steps.                                                   *)
LEMMA SyncPoll ==
  ASSUME LosslessPoll, SyncInv, Poll
  PROVE  SyncInv'
  <1>0. TypeOK /\ CursorCovers /\ PollCovers /\ CursorsInHistory
    BY DEF SyncInv
  <1>1. TypeOK'
    BY <1>0, TypeStep DEF Next
  <1>2. KnownGrows
    BY <1>0, PollKeepsTypes DEF Poll
  <1>3. UNCHANGED history /\ PollStep
    BY DEF Poll, gmailVars
  <1>4. /\ \A i \in DOMAIN history : history[i] \in Messages /\ i \in Nat
        /\ \A i \in DOMAIN history : i <= Len(history)
        /\ Len(history) \in Nat /\ newCursor \in Nat
        /\ cursor # NoCursor => cursor \in Nat /\ seed \in Nat
    BY <1>0 DEF TypeOK, CursorsInHistory
  <1>5. /\ "scheduler" \in AllProducers
        /\ pc \in [AllProducers -> Labels]
        /\ ids \in [AllProducers -> SUBSET Messages]
    BY <1>0 DEF TypeOK, AllProducers
  <1>6. \A k : Fault(k) => k # "db_error"
    BY DEF LosslessPoll, Fault
  <1>7. CASE PollSeed
    BY <1>0, <1>1, <1>2, <1>3, <1>4, <1>5, <1>7
       DEF SyncInv, PollSeed, GoTo, CursorCovers, PollCovers, CursorsInHistory,
           KnownGrows, LatestCursor
  <1>8. CASE PollSeedSave
    <2>1. pc'["scheduler"] = "idle" /\ cursor' = newCursor /\ seed' = newCursor
      BY <1>5, <1>6, <1>8 DEF PollSeedSave, GoTo
    <2>2. CursorCovers' /\ PollCovers'
      BY <1>3, <1>4, <2>1 DEF CursorCovers, PollCovers
    <2>3. CursorsInHistory'
      BY <1>0, <1>3, <1>4, <1>8, <2>1, IngestAssumption
         DEF PollSeedSave, CursorsInHistory
    <2> QED BY <1>1, <2>2, <2>3 DEF SyncInv
  <1>9. CASE PollList
    <2>1. /\ pc'["scheduler"] = "next"
          /\ ids'["scheduler"] = LatestMessageIDs(cursor)
          /\ newCursor' = Len(history) /\ UNCHANGED <<cursor, seed>>
          /\ cursor # NoCursor
      BY <1>5, <1>9 DEF PollList, Lists, GoTo, LatestCursor
    <2>2. CursorCovers'
      BY <1>0, <1>2, <1>3, <1>4, <2>1 DEF CursorCovers, KnownGrows
    <2>3. \A i \in DOMAIN history :
            cursor < i /\ history[i] \in Personal
              => history[i] \in LatestMessageIDs(cursor)
      <3>1. Len(history) <= HistoryPage /\ HistoryPage \in Nat /\ cursor \in Nat
        BY <1>0, <1>4, <2>1, IngestAssumption DEF LosslessPoll, CursorsInHistory
      <3> QED BY <1>4, <3>1 DEF LatestMessageIDs
    <2>4. PollCovers'
      BY <1>3, <2>1, <2>3 DEF PollCovers
    <2>5. CursorsInHistory'
      BY <1>0, <1>3, <1>4, <2>1 DEF CursorsInHistory
    <2> QED BY <1>1, <2>2, <2>4, <2>5 DEF SyncInv
  <1>10. ASSUME NEW m \in Messages, PollEnqueue(m) PROVE SyncInv'
    <2>0. UNCHANGED <<history, cursorVars>> /\ pc["scheduler"] = "next"
          /\ m \in ids["scheduler"]
      BY <1>3, <1>10 DEF PollEnqueue, At
    <2>1. CASE Insert("scheduler", m)
      <3>1. Known(m)'
        BY <1>0, <1>5, <2>0, <2>1, InsertType
      <3>2. /\ pc'["scheduler"] = "push" /\ msg'["scheduler"] = m
            /\ ids' = ids
        BY <1>0, <1>5, <2>1 DEF Insert, GoTo, TypeOK
      <3>3. CursorCovers' /\ PollCovers'
        BY <1>0, <1>2, <1>4, <2>0, <3>2
           DEF CursorCovers, PollCovers, KnownGrows, cursorVars
      <3>4. CursorsInHistory'
        BY <1>0, <2>0, <3>1, <3>2 DEF CursorsInHistory, cursorVars
      <3> QED BY <1>1, <3>3, <3>4 DEF SyncInv
    <2>2. CASE Duplicate(m) /\ Drop("scheduler", m)
      <3>1. Known(m)
        BY <1>0, <2>2 DEF Duplicate, Known, HasJobForMessage, TypeOK
      <3> QED BY <1>1, <1>2, <2>0, <2>2, <3>1, SyncDrop
    <2> QED BY <1>6, <1>10, <2>1, <2>2 DEF PollEnqueue
  <1>11. CASE PollPush
    <2>1. /\ pc["scheduler"] = "push" /\ Drop("scheduler", msg["scheduler"])
          /\ UNCHANGED <<history, cursorVars>>
      BY <1>3, <1>11 DEF PollPush, PushId, At
    <2>2. msg["scheduler"] \in Messages /\ Known(msg["scheduler"])
      BY <1>0, <1>5, <2>1 DEF CursorsInHistory, TypeOK
    <2> QED BY <1>1, <1>2, <2>1, <2>2, SyncDrop
  <1>12. CASE PollSave
    <2>1. /\ pc["scheduler"] = "next" /\ ids["scheduler"] = {}
          /\ pc'["scheduler"] = "idle"
          /\ cursor' = newCursor /\ UNCHANGED <<seed, newCursor>>
          /\ cursor # NoCursor
      BY <1>0, <1>5, <1>6, <1>12 DEF PollSave, At, GoTo, CursorsInHistory
    <2>2. ASSUME NEW i \in DOMAIN history, seed < i, i <= newCursor,
                 history[i] \in Personal
          PROVE  Known(history[i])
      <3>1. CASE i <= cursor
        BY <1>0, <2>1, <2>2, <3>1 DEF CursorCovers
      <3>2. CASE cursor < i
        BY <1>0, <2>1, <2>2, <3>2 DEF PollCovers
      <3> QED BY <1>4, <2>1, <3>1, <3>2
    <2>3. CursorCovers' /\ PollCovers'
      BY <1>2, <1>3, <1>4, <2>1, <2>2 DEF CursorCovers, PollCovers, KnownGrows
    <2>4. CursorsInHistory'
      BY <1>0, <1>3, <1>4, <2>1, IngestAssumption DEF CursorsInHistory
    <2> QED BY <1>1, <2>3, <2>4 DEF SyncInv
  <1> QED BY <1>3, <1>7, <1>8, <1>9, <1>10, <1>11, <1>12 DEF PollStep

(* New mail, the task queue, the other producers and a crash.              *)
LEMMA SyncStep ==
  ASSUME LosslessPoll, SyncInv, [Next]_vars
  PROVE  SyncInv'
  <1>0. TypeOK /\ CursorCovers /\ PollCovers /\ CursorsInHistory /\ TypeOK'
    BY TypeStep DEF SyncInv
  <1>1. ASSUME NEW m \in Messages, Arrive(m) PROVE SyncInv'
    <2>1. /\ UNCHANGED <<cursorVars, jobVars, pc, ids, msg>>
          /\ Len(history) < MaxHistory
      BY <1>1 DEF Arrive
    <2>a. \A i \in DOMAIN history' :
            \/ i \in DOMAIN history /\ history'[i] = history[i]
            \/ i = Len(history) + 1
      BY <1>0, <1>1, ArriveEffect
    <2>b. \A m2 : Known(m2)' <=> Known(m2)
      BY <2>1 DEF jobVars, Known, HasJobForMessage
    <2>c. /\ cursor # NoCursor => cursor \in Nat /\ cursor <= Len(history)
          /\ newCursor \in Nat /\ newCursor <= Len(history)
          /\ Len(history) \in Nat
      BY <1>0 DEF CursorsInHistory, TypeOK
    <2>2. CursorCovers'
      BY <1>0, <2>1, <2>a, <2>b, <2>c DEF CursorCovers, cursorVars
    <2>3. PollCovers'
      BY <1>0, <2>1, <2>a, <2>b, <2>c DEF PollCovers, cursorVars
    <2>4. CursorsInHistory'
      BY <1>0, <1>1, <2>1, ArriveEffect, IngestAssumption
         DEF CursorsInHistory, TypeOK, cursorVars, jobVars, Known,
             HasJobForMessage
    <2> QED BY <1>0, <2>2, <2>3, <2>4 DEF SyncInv
  <1>2. ASSUME UNCHANGED <<history, cursorVars, pc, ids, msg>>, KnownGrows
        PROVE  SyncInv'
    BY <1>0, <1>2, SyncUntouched DEF SchedulerUntouched
  <1>3. ASSUME NEW m \in Messages, Archive(m) \/ GrowOld(m) PROVE SyncInv'
    BY <1>0, <1>2, <1>3, RowsKept DEF Archive, GrowOld
  <1>4. CASE TaskQueueRuns
    <2>1. KnownGrows
      BY <1>0, <1>4, JobEndsEffect, RowsKept DEF TaskQueueRuns, Pop, Repush,
                                                      Reclaim, PutBack
    <2> QED BY <1>2, <1>4, <2>1 DEF TaskQueueRuns, Pop, Repush, Reclaim, PutBack,
                                   JobEnds, gmailVars
  <1>5. CASE Poll
    BY <1>5, SyncPoll
  <1>6. CASE Backfills
    BY <1>0, <1>6, BackfillKeepsTypes, SyncUntouched DEF Backfills, gmailVars
  <1>7. CASE Imports
    BY <1>0, <1>7, ImportKeepsTypes, SyncUntouched DEF Imports, gmailVars
  <1>8. CASE SchedulerCrash /\ UNCHANGED <<gmailVars, more>>
    <2>1. /\ pc'["scheduler"] = "idle"
          /\ UNCHANGED <<history, cursorVars, jobVars>>
      BY <1>8 DEF SchedulerCrash, AllProducers, gmailVars
    <2> QED BY <1>0, <2>1
            DEF SyncInv, CursorCovers, PollCovers, CursorsInHistory, cursorVars,
                jobVars, Known, HasJobForMessage
  <1>9. CASE UNCHANGED vars
    BY <1>0, <1>2, <1>9, RowsKept DEF vars, gmailVars
  <1> QED BY <1>1, <1>3, <1>4, <1>5, <1>6, <1>7, <1>8, <1>9 DEF Next, Gmail

-----------------------------------------------------------------------------
(* Types hold whatever fails; in particular no message ever has two rows   *)
(* in flight, however the producers race (store.go:27).                    *)
THEOREM IngestTypeCorrect == Spec => []TypeOK
  <1>1. IngestInit => TypeOK
    BY InitSync DEF SyncInv
  <1>2. TypeOK /\ [Next]_vars => TypeOK'
    BY TypeStep
  <1> QED BY <1>1, <1>2, PTL DEF Spec

(* The cursor, the poll under way and the rows fit together after every    *)
(* step (scheduler.go:74-133), for any number of crashes and lost pushes.  *)
LEMMA SyncKept ==
  ASSUME LosslessPoll
  PROVE  Spec => []SyncInv
  <1>1. IngestInit => SyncInv
    BY InitSync
  <1>2. SyncInv /\ [Next]_vars => SyncInv'
    BY SyncStep
  <1> QED BY <1>1, <1>2, PTL DEF Spec

(* So the scheduler's cursor never passes a message that has no row        *)
(* (scheduler.go:103-131).                                                 *)
THEOREM CursorNeverSkips ==
  ASSUME LosslessPoll
  PROVE  Spec => []CursorCovers
  <1>1. SyncInv => CursorCovers
    BY DEF SyncInv
  <1> QED BY <1>1, SyncKept, PTL
=============================================================================
