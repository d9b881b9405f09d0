--------------------------- MODULE ProducerProofs ---------------------------
(***************************************************************************)
(* The full import: beside the other producers and the sweeper it skips no *)
(* mail and takes queue:fetch no further above its limit than one page;    *)
(* run alone it makes one job per message.  And the scheduler's two        *)
(* producers: how often one message is made a job.  For every mailbox,     *)
(* page size, limit, number of faults and of ids the sweeper puts back.    *)
(***************************************************************************)
EXTENDS IngestProofs, FiniteSetTheorems

ImportUntouched ==
  /\ pc'["import"] = pc["import"]
  /\ ids'["import"] = ids["import"]
  /\ msg'["import"] = msg["import"]

(* The entries of a producer after each of the steps producers share.      *)
LEMMA StepEntries ==
  ASSUME TypeOK, NEW p \in AllProducers
  PROVE  /\ \A m : Drop(p, m) => /\ pc'[p] = "next" /\ ids'[p] = ids[p] \ {m}
                                 /\ msg'[p] = None
         /\ \A m : Insert(p, m) => /\ pc'[p] = "push" /\ ids'[p] = ids[p]
                                   /\ msg'[p] = m /\ UNCHANGED faults
         /\ Abort(p) => pc'[p] = "idle" /\ ids'[p] = {} /\ msg'[p] = None
         /\ \A l : GoTo(p, l) => pc'[p] = l
         /\ \A f : Lists(p, f) => ids'[p] = f /\ msg'[p] = msg[p]
  BY DEF TypeOK, Drop, Insert, Abort, Lists, GoTo

(* The poll and the backfill leave the import's loop alone.                *)
LEMMA OthersLeaveImport ==
  ASSUME TypeOK, PollStep \/ BackfillStep
  PROVE  ImportUntouched
<1>1. /\ pc \in [AllProducers -> Labels] /\ ids \in [AllProducers -> SUBSET Messages]
      /\ msg \in [AllProducers -> Messages \cup {None}] /\ "import" \in AllProducers
  BY DEF TypeOK, AllProducers
<1>2. ASSUME NEW p \in {"scheduler", "backfill"}
      PROVE  /\ \A m : Drop(p, m) => ImportUntouched
             /\ \A m : Insert(p, m) => ImportUntouched
             /\ PushId(p) => ImportUntouched
  BY <1>1, <1>2 DEF Drop, Insert, PushId, GoTo, ImportUntouched
<1>3. CASE PollStep
  <2>1. CASE PollSeed \/ PollSeedSave \/ PollList \/ PollSave
    BY <1>1, <2>1
       DEF PollSeed, PollSeedSave, PollList, PollSave, Lists, GoTo, ImportUntouched
  <2>2. ASSUME NEW m \in Messages, PollEnqueue(m) PROVE ImportUntouched
    BY <1>2, <2>2 DEF PollEnqueue
  <2>3. CASE PollPush
    BY <1>2, <2>3 DEF PollPush
  <2>. QED
    BY <1>3, <2>1, <2>2, <2>3 DEF PollStep
<1>4. CASE BackfillStep
  <2>1. CASE BackfillList \/ BackfillDone
    BY <1>1, <2>1 DEF BackfillList, BackfillDone, Lists, GoTo, ImportUntouched
  <2>2. ASSUME NEW m \in Messages, BackfillCheck(m) PROVE ImportUntouched
    <3>1. CASE msg' = [msg EXCEPT !["backfill"] = m] /\ GoTo("backfill", "insert")
               /\ UNCHANGED ids
      BY <1>1, <3>1 DEF GoTo, ImportUntouched
    <3>. QED
      BY <1>2, <2>2, <3>1 DEF BackfillCheck
  <2>3. CASE BackfillEnqueue
    BY <1>2, <2>3 DEF BackfillEnqueue
  <2>4. CASE BackfillPush
    BY <1>2, <2>4 DEF BackfillPush
  <2>. QED
    BY <1>4, <2>1, <2>2, <2>3, <2>4 DEF BackfillStep
<1>. QED
  BY <1>3, <1>4

-----------------------------------------------------------------------------
(* The import skips no mail.                                               *)

(* While it runs, every personal mail has a row, or is still to be paged   *)
(* through, or is on the page at hand.  A page is worked off before the    *)
(* next one is asked for, and a pushed message has its row.                *)
PendingMail ==
  /\ pc["import"] # "idle" =>
       \A m \in Personal : Known(m) \/ m \in more \/ m \in ids["import"]
  /\ pc["import"] \in {"idle", "page"} => ids["import"] = {}
  /\ pc["import"] = "push" => Known(msg["import"])

(* A step that leaves the import alone, and deletes no row, keeps it.      *)
LEMMA PendingUntouched ==
  ASSUME TypeOK, PendingMail, KnownGrows, ImportUntouched, more' = more
  PROVE  PendingMail'
<1>1. Personal \subseteq Messages
  BY IngestAssumption
<1>2. pc["import"] = "push" => msg["import"] \in Messages
  BY DEF TypeOK, AllProducers
<1>. QED
  BY <1>1, <1>2 DEF PendingMail, KnownGrows, ImportUntouched

(* So does dropping a message that has a row, and giving up.               *)
LEMMA PendingDrop ==
  ASSUME TypeOK, PendingMail, KnownGrows, more' = more,
         pc["import"] # "idle",
         NEW m \in Messages, Known(m), Drop("import", m)
  PROVE  PendingMail'
<1>1. Personal \subseteq Messages
  BY IngestAssumption
<1>2. pc'["import"] = "next" /\ ids'["import"] = ids["import"] \ {m}
  BY StepEntries DEF AllProducers
<1>. QED
  BY <1>1, <1>2 DEF PendingMail, KnownGrows

LEMMA PendingAbort ==
  ASSUME TypeOK, Abort("import")
  PROVE  PendingMail'
<1>1. pc'["import"] = "idle" /\ ids'["import"] = {}
  BY StepEntries DEF AllProducers
<1>. QED
  BY <1>1 DEF PendingMail

(* The import's own steps.                                                 *)
LEMMA PendingImport ==
  ASSUME TypeOK, PendingMail, ImportStep \/ ImportInterrupted
  PROVE  PendingMail'
<1>1. KnownGrows /\ "import" \in AllProducers /\ Personal \subseteq Messages
  BY ImportKeepsTypes, IngestAssumption DEF AllProducers
<1>2. CASE ImportStart
  <2>1. pc'["import"] = "page" /\ ids' = ids /\ more' = Personal /\ pc["import"] = "idle"
    BY <1>1, <1>2, StepEntries DEF ImportStart, ListAllPages, At
  <2>. QED
    BY <2>1 DEF PendingMail
<1>3. ASSUME NEW found \in SUBSET Messages, ImportPage(found) PROVE PendingMail'
  <2>1. /\ pc["import"] = "page" /\ pc'["import"] = "wait"
        /\ ids'["import"] = found /\ more' = more \ found
    BY <1>1, <1>3, StepEntries DEF ImportPage, At
  <2>. QED
    BY <1>1, <2>1 DEF PendingMail, KnownGrows
<1>4. CASE WaitForQueueDepth
  <2>1. CASE AbortImport
    BY <2>1, PendingAbort DEF AbortImport
  <2>2. CASE GoTo("import", "next") /\ UNCHANGED <<ids, msg, more>>
    <3>1. pc["import"] = "wait" /\ pc'["import"] = "next"
      BY <1>1, <1>4, <2>2, StepEntries DEF WaitForQueueDepth, At
    <3>. QED
      BY <1>1, <2>2, <3>1 DEF PendingMail, KnownGrows
  <2>. QED
    BY <1>4, <2>1, <2>2 DEF WaitForQueueDepth
<1>5. ASSUME NEW m \in Messages, ImportCheck(m) PROVE PendingMail'
  <2>1. pc["import"] = "next"
    BY <1>5 DEF ImportCheck, At
  <2>2. CASE GoTo("import", "insert") /\ UNCHANGED <<ids, more>>
    <3>1. pc'["import"] = "insert"
      BY <1>1, <2>2, StepEntries
    <3>. QED
      BY <1>1, <2>1, <2>2, <3>1 DEF PendingMail, KnownGrows
  <2>3. CASE HasJobForMessage(m) /\ Drop("import", m) /\ UNCHANGED more
    BY <1>1, <2>1, <2>3, PendingDrop DEF Known
  <2>4. CASE AbortImport
    BY <2>4, PendingAbort DEF AbortImport
  <2>. QED
    BY <1>5, <2>2, <2>3, <2>4 DEF ImportCheck
<1>6. CASE ImportEnqueue
  <2>1. PICK m : m = msg["import"]
    OBVIOUS
  <2>2. pc["import"] = "insert" /\ m \in ids["import"] /\ m \in Messages
    BY <1>1, <1>6, <2>1 DEF ImportEnqueue, At, TypeOK
  <2>3. CASE Insert("import", m) /\ UNCHANGED more
    <3>1. Known(m)'
      BY <1>1, <2>2, <2>3, InsertType
    <3>2. pc'["import"] = "push" /\ ids'["import"] = ids["import"] /\ msg'["import"] = m
      BY <1>1, <2>3, StepEntries
    <3>. QED
      BY <1>1, <2>2, <2>3, <3>1, <3>2 DEF PendingMail, KnownGrows
  <2>4. CASE Duplicate(m) /\ Drop("import", m) /\ UNCHANGED more
    <3>1. Known(m)
      BY <2>2, <2>4 DEF Duplicate, Known, HasJobForMessage, TypeOK
    <3>. QED
      BY <1>1, <2>2, <2>4, <3>1, PendingDrop
  <2>5. CASE AbortImport
    BY <2>5, PendingAbort DEF AbortImport
  <2>. QED
    BY <1>6, <2>1, <2>3, <2>4, <2>5 DEF ImportEnqueue
<1>7. CASE ImportPush
  <2>1. CASE PushId("import") /\ UNCHANGED more
    <3>1. PICK m : m = msg["import"]
      OBVIOUS
    <3>2. /\ pc["import"] = "push" /\ m \in Messages /\ Known(m) /\ Drop("import", m)
      BY <1>1, <2>1, <3>1, PushType DEF PushId, At, PendingMail
    <3>. QED
      BY <1>1, <2>1, <3>2, PendingDrop
  <2>2. CASE AbortImport
    BY <2>2, PendingAbort DEF AbortImport
  <2>. QED
    BY <1>7, <2>1, <2>2 DEF ImportPush
<1>8. CASE ImportPageDone
  <2>1. /\ pc["import"] = "next" /\ pc'["import"] \in {"idle", "page"}
        /\ ids["import"] = {} /\ UNCHANGED <<ids, more>>
    BY <1>1, <1>8, StepEntries DEF ImportPageDone, At
  <2>. QED
    BY <1>1, <2>1 DEF PendingMail, KnownGrows
<1>9. CASE ImportInterrupted
  BY <1>9, PendingAbort DEF ImportInterrupted, AbortImport
<1>. QED
  BY <1>2, <1>3, <1>4, <1>5, <1>6, <1>7, <1>8, <1>9 DEF ImportStep

(* Every step keeps the mail pending or known.                             *)
LEMMA PendingStep ==
  ASSUME TypeOK, PendingMail, [Next]_vars
  PROVE  PendingMail'
<1>1. ASSUME UNCHANGED <<pc, ids, msg, more>>, KnownGrows PROVE PendingMail'
  BY <1>1, PendingUntouched DEF ImportUntouched
<1>2. CASE Gmail
  BY <1>1, <1>2, RowsKept DEF Gmail, Arrive, Archive, GrowOld
<1>3. CASE TaskQueueRuns
  BY <1>1, <1>3, RowsKept, JobEndsEffect
     DEF TaskQueueRuns, Pop, Repush, Reclaim, PutBack, JobEnds
<1>4. CASE Poll
  BY <1>4, PollKeepsTypes, OthersLeaveImport, PendingUntouched DEF Poll
<1>5. CASE Backfills
  BY <1>5, BackfillKeepsTypes, OthersLeaveImport, PendingUntouched DEF Backfills
<1>6. CASE Imports
  BY <1>6, PendingImport DEF Imports
<1>7. CASE SchedulerCrash /\ UNCHANGED <<gmailVars, more>>
  <2>1. ImportUntouched
    BY <1>7 DEF SchedulerCrash, ImportUntouched, AllProducers
  <2>. QED
    BY <1>7, <2>1, RowsKept, PendingUntouched DEF SchedulerCrash
<1>8. CASE UNCHANGED vars
  BY <1>1, <1>8, RowsKept DEF vars
<1>. QED
  BY <1>2, <1>3, <1>4, <1>5, <1>6, <1>7, <1>8 DEF Next

(* A fault is counted.                                                     *)
LEMMA FaultCounted ==
  ASSUME TypeOK, NEW k, Fault(k)
  PROVE  faults' = faults + 1 /\ faults' # faults
  BY DEF TypeOK, FaultsTypeOK, Fault

(* An import that ends without an error leaves no mail of the archive      *)
(* without a job, over all its pages (full.go:44-84), whatever the other   *)
(* producers, crashes and earlier, interrupted imports have done.          *)
THEOREM ImportSkipsNothing == Spec => ImportCovers
<1> DEFINE Covers == pc["import"] = "next" /\ pc'["import"] = "idle" /\ faults' = faults
                       => \A m \in Personal : Known(m)
<1>1. TypeOK /\ PendingMail /\ [Next]_vars => [Covers]_vars
  <2> SUFFICES ASSUME TypeOK, PendingMail, Next,
                      pc["import"] = "next", pc'["import"] = "idle", faults' = faults
               PROVE  \A m \in Personal : Known(m)
    OBVIOUS
  <2>1. ~ImportUntouched /\ \A k : ~Fault(k)
    BY FaultCounted DEF ImportUntouched
  <2>2. Imports
    BY <2>1, OthersLeaveImport
       DEF Next, Gmail, Arrive, Archive, GrowOld, TaskQueueRuns, Pop, Repush,
           Reclaim, PutBack, JobEnds, Poll, Backfills, SchedulerCrash, ImportUntouched
  <2>3. ASSUME NEW m \in Messages, ImportCheck(m) PROVE FALSE
    <3>1. /\ GoTo("import", "insert") => pc'["import"] = "insert"
          /\ Drop("import", m) => pc'["import"] = "next"
      BY StepEntries DEF AllProducers
    <3>. QED
      BY <2>1, <2>3, <3>1 DEF ImportCheck
  <2>4. ImportPageDone
    BY <2>1, <2>2, <2>3
       DEF Imports, ImportStep, ImportInterrupted, ImportStart, WaitForQueueDepth,
           ImportPage, ImportEnqueue, ImportPush, PushId, At
  <2>5. more = {} /\ ids["import"] = {}
    <3>1. pc'["import"] = IF more = {} THEN "idle" ELSE "page"
      BY <2>4, StepEntries DEF ImportPageDone, AllProducers
    <3>. QED
      BY <2>4, <3>1 DEF ImportPageDone
  <2>. QED
    BY <2>5 DEF PendingMail
<1>2. IngestInit => PendingMail
  BY DEF IngestInit, PendingMail, AllProducers
<1>3. TypeOK /\ PendingMail /\ [Next]_vars => PendingMail'
  BY PendingStep
<1>. QED
  BY <1>1, <1>2, <1>3, IngestTypeCorrect, PTL DEF Spec, ImportCovers

-----------------------------------------------------------------------------
(* What the import adds to the queue.                                      *)

(* What is left of the page still fits under the limit and one page, over  *)
(* what other processes have pushed since the queue was at the limit.      *)
RoomForPage ==
  /\ pc["import"] # "idle" => Cardinality(ids["import"]) <= PageSize
  /\ pc["import"] \in {"next", "insert", "push"} =>
       depth + Cardinality(ids["import"]) <= MaxQueueDepth + PageSize + foreign

RoomInv == TypeOK /\ PendingMail /\ Backpressure /\ RoomForPage

(* What a page holds can be counted, and shrinks by the message dropped.   *)
LEMMA PageCount ==
  ASSUME NEW S \in SUBSET Messages
  PROVE  /\ Cardinality(S) \in Nat
         /\ \A m : Cardinality(S \ {m}) \in Nat /\ Cardinality(S \ {m}) <= Cardinality(S)
         /\ \A m \in S : Cardinality(S \ {m}) = Cardinality(S) - 1
<1>1. IsFiniteSet(S)
  BY IngestAssumption, FS_Subset
<1>2. Cardinality(S) \in Nat
  BY <1>1, FS_CardinalityType
<1>3. ASSUME NEW m
      PROVE  /\ IsFiniteSet(S \ {m})
             /\ Cardinality(S \ {m}) = IF m \in S THEN Cardinality(S) - 1
                                       ELSE Cardinality(S)
  BY <1>1, FS_RemoveElement
<1>4. ASSUME NEW m PROVE Cardinality(S \ {m}) \in Nat
  <2>1. IsFiniteSet(S \ {m})
    BY <1>3
  <2>. QED
    BY <2>1, FS_CardinalityType
<1>5. ASSUME NEW m PROVE Cardinality(S \ {m}) <= Cardinality(S)
  <2>1. Cardinality(S \ {m}) \in {Cardinality(S) - 1, Cardinality(S)}
    BY <1>3
  <2>. QED
    BY <1>2, <2>1
<1>6. ASSUME NEW m \in S PROVE Cardinality(S \ {m}) = Cardinality(S) - 1
  BY <1>3
<1>. QED
  BY <1>2, <1>4, <1>5, <1>6

(* The queue grows by a push, which takes a message off the page.          *)
LEMMA RoomImport ==
  ASSUME TypeOK, PendingMail, Backpressure, RoomForPage,
         ImportStep \/ ImportInterrupted
  PROVE  Backpressure' /\ RoomForPage'
<1>1. /\ "import" \in AllProducers /\ ids["import"] \in SUBSET Messages
      /\ depth \in Nat /\ foreign \in Nat /\ PageSize \in Nat /\ MaxQueueDepth \in Nat
  BY IngestAssumption DEF TypeOK, AllProducers
<1>2. PICK n : n = Cardinality(ids["import"]) /\ n \in Nat
  BY <1>1, PageCount
<1>3. ASSUME AbortImport, UNCHANGED <<depth, foreign>> PROVE Backpressure' /\ RoomForPage'
  <2>1. pc'["import"] = "idle"
    BY <1>1, <1>3, StepEntries DEF AbortImport
  <2>. QED
    BY <1>3, <2>1 DEF Backpressure, RoomForPage
<1>4. ASSUME NEW m, Drop("import", m), UNCHANGED <<depth, foreign>>,
             pc["import"] \in {"next", "insert", "push"}
      PROVE  Backpressure' /\ RoomForPage'
  <2>1. pc'["import"] = "next" /\ ids'["import"] = ids["import"] \ {m}
    BY <1>1, <1>4, StepEntries
  <2>2. PICK k : k = Cardinality(ids["import"] \ {m}) /\ k \in Nat /\ k <= n
    BY <1>1, <1>2, PageCount
  <2>3. n <= PageSize /\ depth + n <= MaxQueueDepth + PageSize + foreign
    BY <1>2, <1>4 DEF RoomForPage
  <2>4. k <= PageSize /\ depth + k <= MaxQueueDepth + PageSize + foreign
    BY <1>1, <1>2, <2>2, <2>3
  <2>5. RoomForPage'
    BY <1>4, <2>1, <2>2, <2>4 DEF RoomForPage
  <2>. QED
    BY <1>4, <2>5 DEF Backpressure
<1>5. CASE ImportStart
  <2>1. /\ pc'["import"] = "page" /\ ids' = ids /\ ids["import"] = {}
        /\ UNCHANGED <<depth, foreign>>
    BY <1>1, <1>5, StepEntries DEF ImportStart, PendingMail, At, queueVars
  <2>2. Cardinality({}) = 0
    BY FS_EmptySet
  <2>. QED
    BY <1>1, <2>1, <2>2 DEF Backpressure, RoomForPage
<1>6. ASSUME NEW found \in SUBSET Messages, ImportPage(found)
      PROVE  Backpressure' /\ RoomForPage'
  <2>1. pc'["import"] = "wait" /\ ids'["import"] = found /\ UNCHANGED <<depth, foreign>>
        /\ Cardinality(found) <= PageSize
    BY <1>1, <1>6, StepEntries DEF ImportPage, queueVars
  <2>. QED
    BY <2>1 DEF Backpressure, RoomForPage
<1>7. CASE WaitForQueueDepth
  <2>1. CASE depth <= MaxQueueDepth /\ GoTo("import", "next") /\ UNCHANGED ids
    <3>1. pc["import"] = "wait" /\ UNCHANGED <<depth, foreign>>
      BY <1>7 DEF WaitForQueueDepth, At, queueVars
    <3>2. n <= PageSize
      BY <1>2, <3>1 DEF RoomForPage
    <3>3. depth + n <= MaxQueueDepth + PageSize + foreign
      BY <1>1, <1>2, <2>1, <3>2
    <3>. QED
      BY <1>2, <2>1, <3>1, <3>2, <3>3 DEF Backpressure, RoomForPage
  <2>. QED
    BY <1>3, <1>7, <2>1 DEF WaitForQueueDepth, queueVars
<1>8. ASSUME NEW m \in Messages, ImportCheck(m) PROVE Backpressure' /\ RoomForPage'
  <2>1. pc["import"] = "next" /\ UNCHANGED <<depth, foreign>>
    BY <1>8 DEF ImportCheck, At, queueVars
  <2>2. CASE UNCHANGED ids
    BY <2>1, <2>2 DEF Backpressure, RoomForPage
  <2>. QED
    BY <1>3, <1>4, <1>8, <2>1, <2>2 DEF ImportCheck
<1>9. CASE ImportEnqueue
  <2>1. pc["import"] = "insert" /\ UNCHANGED <<depth, foreign>>
    BY <1>9 DEF ImportEnqueue, At, queueVars
  <2>2. CASE Insert("import", msg["import"])
    BY <2>1, <2>2 DEF Insert, Backpressure, RoomForPage
  <2>. QED
    BY <1>3, <1>4, <1>9, <2>1, <2>2 DEF ImportEnqueue
<1>10. CASE ImportPush
  <2>1. CASE PushId("import")
    <3>1. PICK m : m = msg["import"]
      OBVIOUS
    <3>2. pc["import"] = "push" /\ m \in ids["import"] /\ depth' = depth + 1
          /\ foreign' = foreign /\ Drop("import", m)
      BY <1>1, <2>1, <3>1, PushType DEF PushId, Push, At
    <3>3. pc'["import"] = "next" /\ ids'["import"] = ids["import"] \ {m}
      BY <1>1, <3>2, StepEntries
    <3>4. Cardinality(ids["import"] \ {m}) = n - 1 /\ n - 1 \in Nat
      BY <1>1, <1>2, <3>2, PageCount
    <3>5. n <= PageSize /\ depth + n <= MaxQueueDepth + PageSize + foreign
      BY <1>2, <3>2 DEF RoomForPage
    <3>6. n - 1 <= PageSize /\ (depth + 1) + (n - 1) <= MaxQueueDepth + PageSize + foreign
          /\ depth + 1 <= MaxQueueDepth + PageSize + foreign
      BY <1>1, <1>2, <3>4, <3>5
    <3>. QED
      BY <3>2, <3>3, <3>4, <3>6 DEF Backpressure, RoomForPage
  <2>. QED
    BY <1>3, <1>10, <2>1 DEF ImportPush, queueVars
<1>11. CASE ImportPageDone
  <2>1. /\ pc["import"] = "next" /\ pc'["import"] \in {"idle", "page"}
        /\ UNCHANGED <<depth, foreign, ids>>
    BY <1>1, <1>11, StepEntries DEF ImportPageDone, At, queueVars
  <2>. QED
    BY <2>1 DEF Backpressure, RoomForPage
<1>12. CASE ImportInterrupted
  BY <1>3, <1>12 DEF ImportInterrupted, queueVars
<1>. QED
  BY <1>5, <1>6, <1>7, <1>8, <1>9, <1>10, <1>11, <1>12 DEF ImportStep

(* The other producers push, or leave the queue alone.                     *)
LEMMA OthersPush ==
  ASSUME PollStep \/ BackfillStep
  PROVE  UNCHANGED <<depth, foreign>> \/ Push(FALSE)
<1>1. PushId("scheduler") \/ PushId("backfill") => Push(FALSE)
  BY DEF PushId, Push
<1>2. CASE PollStep
  BY <1>1, <1>2 DEF PollStep, PollSeed, PollSeedSave, PollList, PollEnqueue, PollPush,
                    PollSave, queueVars
<1>3. CASE BackfillStep
  BY <1>1, <1>3 DEF BackfillStep, BackfillList, BackfillCheck, BackfillEnqueue,
                    BackfillPush, BackfillDone, queueVars
<1>. QED
  BY <1>2, <1>3

(* A push that is not the import's is counted, or leaves the queue at the  *)
(* limit; a pop that brings the queue back to the limit starts the count   *)
(* again, and leaves room for all of a page.                               *)
LEMMA RoomElsewhere ==
  ASSUME RoomInv, UNCHANGED <<pc, ids>> \/ ImportUntouched,
         UNCHANGED <<depth, foreign>> \/ Push(FALSE) \/ Pop
  PROVE  Backpressure' /\ RoomForPage'
<1>1. /\ ids["import"] \in SUBSET Messages /\ depth \in Nat /\ foreign \in Nat
      /\ PageSize \in Nat /\ MaxQueueDepth \in Nat
  BY IngestAssumption DEF RoomInv, TypeOK, AllProducers
<1>2. PICK n : n = Cardinality(ids["import"]) /\ n \in Nat
  BY <1>1, PageCount
<1>3. pc'["import"] = pc["import"] /\ ids'["import"] = ids["import"]
  BY DEF ImportUntouched
<1>4. \/ depth' = depth /\ foreign' = foreign
      \/ depth' = depth + 1 /\ foreign' = foreign + 1
      \/ depth' <= MaxQueueDepth /\ depth' \in Nat /\ foreign' \in Nat
      \/ depth' = depth - 1 /\ foreign' = foreign
  BY <1>1 DEF Push, Pop
<1>5. Backpressure'
  BY <1>1, <1>4 DEF RoomInv, Backpressure
<1>6. pc["import"] # "idle" => n <= PageSize
  BY <1>2 DEF RoomInv, RoomForPage
<1>7. ASSUME pc["import"] \in {"next", "insert", "push"}
      PROVE  depth' + n <= MaxQueueDepth + PageSize + foreign'
  <2>1. n <= PageSize /\ depth + n <= MaxQueueDepth + PageSize + foreign
    BY <1>2, <1>7 DEF RoomInv, RoomForPage
  <2>. QED
    BY <1>1, <1>2, <1>4, <2>1
<1>. QED
  BY <1>2, <1>3, <1>5, <1>6, <1>7 DEF RoomForPage

LEMMA RoomStep ==
  ASSUME RoomInv, [Next]_vars
  PROVE  RoomInv'
<1>1. TypeOK /\ PendingMail /\ TypeOK' /\ PendingMail'
  BY TypeStep, PendingStep DEF RoomInv
<1>2. CASE Gmail \/ UNCHANGED vars \/ \E m \in Messages : JobEnds(m)
  <2>1. UNCHANGED <<pc, ids, depth, foreign>>
    BY <1>2 DEF Gmail, Arrive, Archive, GrowOld, JobEnds, vars, queueVars
  <2>. QED
    BY <1>1, <2>1, RoomElsewhere DEF RoomInv
<1>3. CASE Pop
  <2>1. UNCHANGED <<pc, ids>>
    BY <1>3 DEF Pop
  <2>. QED
    BY <1>1, <1>3, <2>1, RoomElsewhere DEF RoomInv
<1>4. CASE PutBack
  <2>1. UNCHANGED <<pc, ids>> /\ Push(FALSE)
    BY <1>4 DEF PutBack
  <2>. QED
    BY <1>1, <2>1, RoomElsewhere DEF RoomInv
<1>5. CASE Poll \/ Backfills
  <2>1. ImportUntouched /\ (UNCHANGED <<depth, foreign>> \/ Push(FALSE))
    BY <1>1, <1>5, OthersLeaveImport, OthersPush DEF Poll, Backfills
  <2>. QED
    BY <1>1, <2>1, RoomElsewhere DEF RoomInv
<1>6. CASE Imports
  BY <1>1, <1>6, RoomImport DEF Imports, RoomInv
<1>7. CASE SchedulerCrash
  <2>1. ImportUntouched /\ UNCHANGED <<depth, foreign>>
    BY <1>7 DEF SchedulerCrash, ImportUntouched, AllProducers, queueVars
  <2>. QED
    BY <1>1, <2>1, RoomElsewhere DEF RoomInv
<1>. QED
  BY <1>2, <1>3, <1>4, <1>5, <1>6, <1>7 DEF Next, TaskQueueRuns, Repush, Reclaim

(* The wait before each page (full.go:86) keeps the import, interrupted    *)
(* and started again as often as one likes, from taking queue:fetch more   *)
(* than one page over its limit: what is above that, the scheduler, the    *)
(* backfill and the sweeper (sweeper.go:124, sweeper.go:139, queue.go:114) *)
(* have pushed since the queue was last at the limit.                      *)
THEOREM ImportKeepsQueueShort == Spec => []Backpressure
<1>1. ASSUME IngestInit PROVE RoomInv
  <2>1. TypeOK
    BY <1>1, InitSync DEF SyncInv
  <2>2. PendingMail /\ RoomForPage
    BY <1>1 DEF IngestInit, PendingMail, RoomForPage, AllProducers
  <2>3. Backpressure
    BY <1>1, IngestAssumption DEF IngestInit, Backpressure
  <2>. QED
    BY <2>1, <2>2, <2>3 DEF RoomInv
<1>2. RoomInv /\ [Next]_vars => RoomInv'
  BY RoomStep
<1>3. RoomInv => Backpressure
  BY DEF RoomInv
<1>. QED
  BY <1>1, <1>2, <1>3, PTL DEF Spec

-----------------------------------------------------------------------------
(* An import alone.                                                        *)

LoneImport == Producers \subseteq {"import"}

(* What is about to be inserted has no row.                                *)
FreshAtInsert == pc["import"] = "insert" => ~Known(msg["import"])

LoneInv == TypeOK /\ ImportOnce /\ FreshAtInsert

(* The statements of the store, on the number of rows of a message.        *)
LEMMA RowCount ==
  ASSUME TypeOK, NEW m \in Messages
  PROVE  /\ active[m] + ended[m] \in Nat
         /\ Known(m) <=> active[m] + ended[m] # 0
         /\ UNCHANGED jobVars \/ (\E k \in Messages : JobEnds(k))
              => (active[m] + ended[m])' = active[m] + ended[m]
         /\ \A k \in Messages : EnqueueJob(k)
              => (active[m] + ended[m])' = active[m] + ended[m] + (IF m = k THEN 1 ELSE 0)
<1>1. /\ active \in [Messages -> 0..1] /\ ended \in [Messages -> Nat]
      /\ active[m] \in Nat /\ ended[m] \in Nat
  BY DEF TypeOK
<1>2. active[m] + ended[m] \in Nat /\ (Known(m) <=> active[m] + ended[m] # 0)
  BY <1>1 DEF Known, HasJobForMessage
<1>3. UNCHANGED jobVars => (active[m] + ended[m])' = active[m] + ended[m]
  BY DEF jobVars
<1>4. ASSUME NEW k \in Messages, JobEnds(k)
      PROVE  (active[m] + ended[m])' = active[m] + ended[m]
  BY <1>1, <1>4 DEF JobEnds
<1>5. ASSUME NEW k \in Messages, EnqueueJob(k)
      PROVE  (active[m] + ended[m])'
               = active[m] + ended[m] + (IF m = k THEN 1 ELSE 0)
  BY <1>1, <1>5 DEF EnqueueJob
<1>. QED
  BY <1>2, <1>3, <1>4, <1>5

(* Alone, only the import inserts and pushes.                              *)
LEMMA OnlyImport ==
  ASSUME LoneImport, [Next]_vars
  PROVE  \/ Gmail \/ TaskQueueRuns \/ Imports \/ UNCHANGED vars
<1>1. ASSUME NEW l PROVE ~At("scheduler", l) /\ ~At("backfill", l)
  BY DEF LoneImport, At
<1>2. ~PollStep
  BY <1>1 DEF PollStep, PollSeed, PollSeedSave, PollList, PollEnqueue, PollPush,
              PollSave, PushId
<1>3. ~BackfillStep
  BY <1>1 DEF BackfillStep, BackfillList, BackfillCheck, BackfillEnqueue,
              BackfillPush, BackfillDone, PushId
<1>4. ~SchedulerCrash
  BY DEF LoneImport, SchedulerCrash
<1>. QED
  BY <1>2, <1>3, <1>4 DEF Next, Poll, Backfills

(* What the steps of the import do to the rows: one insert, of a message   *)
(* whose check found no row.                                               *)
LEMMA OneJobImport ==
  ASSUME TypeOK, ImportOnce, FreshAtInsert, ImportStep \/ ImportInterrupted
  PROVE  ImportOnce' /\ FreshAtInsert'
<1>1. "import" \in AllProducers
  BY DEF AllProducers
<1>2. ASSUME UNCHANGED jobVars PROVE ImportOnce'
  BY <1>2, RowCount DEF ImportOnce
<1>3. ASSUME pc'["import"] # "insert" PROVE FreshAtInsert'
  BY <1>3 DEF FreshAtInsert
<1>4. ASSUME AbortImport PROVE pc'["import"] # "insert"
  BY <1>1, <1>4, StepEntries DEF AbortImport
<1>5. CASE ImportStart \/ ImportPageDone
           \/ \E found \in SUBSET Messages : ImportPage(found)
  <2>1. UNCHANGED jobVars /\ pc'["import"] # "insert"
    BY <1>1, <1>5, StepEntries DEF ImportStart, ImportPageDone, ImportPage
  <2>. QED
    BY <1>2, <1>3, <2>1
<1>6. CASE WaitForQueueDepth
  <2>1. UNCHANGED jobVars /\ pc'["import"] # "insert"
    BY <1>1, <1>4, <1>6, StepEntries DEF WaitForQueueDepth
  <2>. QED
    BY <1>2, <1>3, <2>1
<1>7. ASSUME NEW m \in Messages, ImportCheck(m) PROVE ImportOnce' /\ FreshAtInsert'
  <2>1. UNCHANGED jobVars
    BY <1>7 DEF ImportCheck
  <2>2. CASE ~HasJobForMessage(m) /\ msg' = [msg EXCEPT !["import"] = m]
    <3>1. msg'["import"] = m
      BY <1>1, <2>2 DEF TypeOK
    <3>. QED
      BY <1>2, <2>1, <2>2, <3>1 DEF FreshAtInsert, Known, HasJobForMessage, jobVars
  <2>3. CASE Drop("import", m) \/ AbortImport
    <3>1. pc'["import"] # "insert"
      BY <1>1, <1>4, <2>3, StepEntries
    <3>. QED
      BY <1>2, <1>3, <2>1, <3>1
  <2>. QED
    BY <1>7, <2>2, <2>3 DEF ImportCheck
<1>8. CASE ImportEnqueue
  <2>1. PICK k : k = msg["import"]
    OBVIOUS
  <2>2. pc["import"] = "insert" /\ k \in Messages /\ ~Known(k)
    BY <1>1, <1>8, <2>1 DEF ImportEnqueue, At, TypeOK, FreshAtInsert
  <2>3. CASE Insert("import", k)
    <3>1. pc'["import"] = "push" /\ EnqueueJob(k)
      BY <1>1, <2>3, StepEntries DEF Insert
    <3>2. ImportOnce'
      <4>1. ASSUME NEW m \in Messages PROVE (active[m] + ended[m])' <= 1
        <5>1. CASE m = k
          BY <2>2, <3>1, <5>1, RowCount
        <5>2. CASE m # k
          BY <2>2, <3>1, <5>2, RowCount DEF ImportOnce
        <5>. QED
          BY <5>1, <5>2
      <4>. QED
        BY <4>1 DEF ImportOnce
    <3>. QED
      BY <1>3, <3>1, <3>2
  <2>4. CASE (Drop("import", k) \/ AbortImport) /\ UNCHANGED jobVars
    <3>1. pc'["import"] # "insert"
      BY <1>1, <1>4, <2>4, StepEntries
    <3>. QED
      BY <1>2, <1>3, <2>4, <3>1
  <2>. QED
    BY <1>8, <2>1, <2>3, <2>4 DEF ImportEnqueue
<1>9. CASE ImportPush
  <2>1. UNCHANGED jobVars /\ pc'["import"] # "insert"
    BY <1>1, <1>4, <1>9, StepEntries DEF ImportPush, PushId
  <2>. QED
    BY <1>2, <1>3, <2>1
<1>10. CASE ImportInterrupted
  BY <1>2, <1>3, <1>4, <1>10 DEF ImportInterrupted
<1>. QED
  BY <1>5, <1>6, <1>7, <1>8, <1>9, <1>10 DEF ImportStep

(* Every step of an import alone, of Gmail and of the task queue.          *)
LEMMA LoneStep ==
  ASSUME LoneImport, LoneInv, [Next]_vars
  PROVE  LoneInv'
<1>1. TypeOK'
  BY TypeStep DEF LoneInv
<1>2. ASSUME UNCHANGED <<active, ended, pc, msg>> PROVE LoneInv'
  BY <1>1, <1>2 DEF LoneInv, ImportOnce, FreshAtInsert, Known, HasJobForMessage
<1>3. CASE Gmail \/ UNCHANGED vars
  BY <1>2, <1>3 DEF Gmail, Arrive, Archive, GrowOld, jobVars, vars
<1>4. CASE Pop \/ PutBack
  BY <1>2, <1>4 DEF Pop, PutBack, jobVars
<1>5. ASSUME NEW k \in Messages, JobEnds(k) PROVE LoneInv'
  <2>1. TypeOK /\ UNCHANGED <<pc, msg>>
    BY <1>5 DEF JobEnds, LoneInv
  <2>2. \A m \in Messages : (active[m] + ended[m])' = active[m] + ended[m]
    BY <1>5, <2>1, RowCount
  <2>3. pc["import"] = "insert" => msg["import"] \in Messages
    BY <2>1 DEF TypeOK, AllProducers
  <2>. QED
    BY <1>1, <2>1, <2>2, <2>3 DEF LoneInv, ImportOnce, FreshAtInsert, Known,
                              HasJobForMessage
<1>6. CASE Imports
  BY <1>1, <1>6, OneJobImport DEF Imports, LoneInv
<1>. QED
  BY <1>3, <1>4, <1>5, <1>6, OnlyImport DEF TaskQueueRuns, Repush, Reclaim

LEMMA LoneInit == ASSUME IngestInit PROVE LoneInv
<1>1. TypeOK
  BY InitSync DEF SyncInv
<1>2. FreshAtInsert
  BY DEF IngestInit, FreshAtInsert, AllProducers
<1>3. ImportOnce
  BY DEF IngestInit, ImportOnce
<1>. QED
  BY <1>1, <1>2, <1>3 DEF LoneInv

(* However often the import is interrupted and started again, and also     *)
(* after the first job of a message has ended, it never makes a second     *)
(* (full.go:31-35).                                                        *)
THEOREM ImportMakesOneJob ==
  ASSUME LoneImport
  PROVE  Spec => []ImportOnce
<1>1. IngestInit => LoneInv
  BY LoneInit
<1>2. LoneInv /\ [Next]_vars => LoneInv'
  BY LoneStep
<1>3. LoneInv => ImportOnce
  BY DEF LoneInv
<1>. QED
  BY <1>1, <1>2, <1>3, PTL DEF Spec

-----------------------------------------------------------------------------
(* The scheduler's two producers: how often one message is made a job.     *)

NoImport == Producers \subseteq {"scheduler", "backfill"}

Rows(m) == active[m] + ended[m]

(* The records of a message up to a cursor.                                *)
RecordsTo(m, c) == Cardinality({i \in DOMAIN history : history[i] = m /\ i <= c})

Saved(m) == IF cursor = NoCursor THEN 0 ELSE RecordsTo(m, cursor)

Listed(m) == RecordsTo(m, newCursor)

(* What is allowed besides: one row for each fault, and one that the       *)
(* backfill makes -- which it still may, once its check has found none.    *)
Slack(m) ==
  faults + (IF pc["backfill"] = "insert" /\ msg["backfill"] = m THEN 0 ELSE 1)

Polling == pc["scheduler"] \in {"next", "push"}

(* The poll under way is past the message.                                 *)
Handled(m) ==
  /\ Polling
  /\ m \in ids["scheduler"] => pc["scheduler"] = "push" /\ msg["scheduler"] = m

(* A row for each record the cursor has passed; the poll adds one for a    *)
(* message on its list, of which a record lies ahead of the cursor.  If    *)
(* its cursor is not saved, a fault has happened; if it is, the record is  *)
(* passed.                                                                 *)
RowsPaid(m) ==
  /\ ~Handled(m) => Rows(m) <= Saved(m) + Slack(m)
  /\ Handled(m) => /\ Rows(m) <= Saved(m) + 1 + Slack(m)
                   /\ Rows(m) <= Listed(m) + Slack(m)
  /\ Polling /\ m \in ids["scheduler"] => Saved(m) + 1 <= Listed(m)

CursorOrder ==
  /\ cursor # NoCursor => cursor <= Len(history)
  /\ newCursor <= Len(history)
  /\ Polling => cursor # NoCursor /\ cursor <= newCursor
  /\ pc["scheduler"] = "seed" => cursor = NoCursor

PaidInv == TypeOK /\ CursorOrder /\ \A m \in Messages : RowsPaid(m)

(* Counting records: a later cursor has passed no fewer, one more if there *)
(* is one in between, and none has passed more than there are.             *)
LEMMA RecordsLaws ==
  ASSUME TypeOK, NEW m, NEW c \in Nat
  PROVE  /\ RecordsTo(m, c) \in Nat /\ Records(m) \in Nat
         /\ RecordsTo(m, c) <= Records(m)
         /\ \A d \in Nat : c <= d => RecordsTo(m, c) <= RecordsTo(m, d)
         /\ \A d \in Nat, i \in DOMAIN history :
              history[i] = m /\ c < i /\ i <= d
                => RecordsTo(m, c) + 1 <= RecordsTo(m, d)
<1> DEFINE R(d) == {i \in DOMAIN history : history[i] = m /\ i <= d}
           All == {i \in DOMAIN history : history[i] = m}
<1>1. DOMAIN history = 1..Len(history) /\ Len(history) \in Nat
  BY DEF TypeOK
<1>2. IsFiniteSet(1..Len(history))
  BY <1>1, FS_Interval
<1>3. IsFiniteSet(All) /\ Cardinality(All) \in Nat
  <2>1. All \in SUBSET (1..Len(history))
    BY <1>1
  <2>2. IsFiniteSet(All)
    BY <1>2, <2>1, FS_Subset
  <2>. QED
    BY <2>2, FS_CardinalityType
<1>4. ASSUME NEW d
      PROVE  /\ IsFiniteSet(R(d)) /\ Cardinality(R(d)) \in Nat
             /\ Cardinality(R(d)) <= Cardinality(All)
  <2>1. R(d) \in SUBSET All
    OBVIOUS
  <2>2. IsFiniteSet(R(d)) /\ Cardinality(R(d)) <= Cardinality(All)
    BY <1>3, <2>1, FS_Subset
  <2>. QED
    BY <2>2, FS_CardinalityType
<1>5. ASSUME NEW d \in Nat, c <= d PROVE Cardinality(R(c)) <= Cardinality(R(d))
  <2>1. R(c) \in SUBSET R(d)
    BY <1>1, <1>5
  <2>. QED
    BY <1>4, <2>1, FS_Subset
<1>6. ASSUME NEW d \in Nat, NEW i \in DOMAIN history,
             history[i] = m, c < i, i <= d
      PROVE  Cardinality(R(c)) + 1 <= Cardinality(R(d))
  <2>1. i \notin R(c) /\ R(c) \cup {i} \in SUBSET R(d)
    BY <1>1, <1>6
  <2>2. Cardinality(R(c) \cup {i}) = Cardinality(R(c)) + 1
    BY <1>4, <2>1, FS_AddElement
  <2>3. Cardinality(R(c) \cup {i}) <= Cardinality(R(d))
    BY <1>4, <2>1, FS_Subset
  <2>. QED
    BY <2>2, <2>3
<1>. QED
  BY <1>3, <1>4, <1>5, <1>6 DEF RecordsTo, Records

(* The numbers are numbers.                                                *)
LEMMA PaidTypes ==
  ASSUME TypeOK, NEW m \in Messages
  PROVE  /\ Rows(m) \in Nat /\ Saved(m) \in Nat /\ Listed(m) \in Nat
         /\ Slack(m) \in Nat
<1>1. Rows(m) \in Nat
  BY RowCount DEF Rows
<1>2. Saved(m) \in Nat /\ Listed(m) \in Nat
  BY RecordsLaws DEF TypeOK, Saved, Listed
<1>3. Slack(m) \in Nat
  BY DEF TypeOK, FaultsTypeOK, Slack
<1>. QED
  BY <1>1, <1>2, <1>3

(* Rows and what pays for them change together.                            *)
LEMMA PaidQuiet ==
  ASSUME TypeOK, RowsOK', FaultsTypeOK', NEW m \in Messages, RowsPaid(m),
         Saved(m)' = Saved(m), Listed(m)' = Listed(m),
         Handled(m)' <=> Handled(m),
         (Polling /\ m \in ids["scheduler"])' => Polling /\ m \in ids["scheduler"],
         Rows(m)' = 0 \/ Rows(m)' + Slack(m) <= Rows(m) + Slack(m)'
  PROVE  RowsPaid(m)'
<1>1. /\ Rows(m) \in Nat /\ Saved(m) \in Nat /\ Listed(m) \in Nat /\ Slack(m) \in Nat
      /\ Rows(m)' \in Nat /\ Slack(m)' \in Nat
  <2>1. /\ Rows(m) \in Nat /\ Saved(m) \in Nat /\ Listed(m) \in Nat /\ Slack(m) \in Nat
    BY PaidTypes
  <2>2. Rows(m)' \in Nat
    BY DEF RowsOK, Rows
  <2>3. Slack(m)' \in Nat
    BY DEF FaultsTypeOK, Slack
  <2>. QED
    BY <2>1, <2>2, <2>3
<1>2. \A n \in Nat : Rows(m) <= n + Slack(m) => Rows(m)' <= n + Slack(m)'
  BY <1>1
<1>3. Saved(m) + 1 \in Nat
  BY <1>1
<1>. QED
  BY <1>1, <1>2, <1>3 DEF RowsPaid

(* The poll leaves the backfill's loop alone.                              *)
BackfillUntouched ==
  pc'["backfill"] = pc["backfill"] /\ msg'["backfill"] = msg["backfill"]

LEMMA PollLeavesBackfill ==
  ASSUME TypeOK, PollStep
  PROVE  BackfillUntouched /\ faults' \in {faults, faults + 1}
<1>1. /\ pc \in [AllProducers -> Labels] /\ ids \in [AllProducers -> SUBSET Messages]
      /\ msg \in [AllProducers -> Messages \cup {None}] /\ "backfill" \in AllProducers
  BY DEF TypeOK, AllProducers
<1>2. /\ \A m : Drop("scheduler", m) => BackfillUntouched
      /\ \A m : Insert("scheduler", m) => BackfillUntouched
      /\ PushId("scheduler") => BackfillUntouched
  BY <1>1 DEF Drop, Insert, PushId, GoTo, BackfillUntouched
<1>3. CASE PollSeed \/ PollSeedSave \/ PollList \/ PollSave
  BY <1>1, <1>3
     DEF PollSeed, PollSeedSave, PollList, PollSave, Lists, GoTo, BackfillUntouched,
         Fault
<1>4. ASSUME NEW m \in Messages, PollEnqueue(m)
      PROVE  BackfillUntouched /\ faults' \in {faults, faults + 1}
  BY <1>2, <1>4 DEF PollEnqueue, Insert, Fault
<1>5. CASE PollPush
  BY <1>2, <1>5 DEF PollPush, PushId, Fault
<1>. QED
  BY <1>3, <1>4, <1>5 DEF PollStep

LEMMA SlackGrows ==
  ASSUME TypeOK, BackfillUntouched, faults' \in {faults, faults + 1},
         NEW m \in Messages
  PROVE  /\ Slack(m) \in Nat /\ Slack(m)' \in Nat /\ Slack(m) <= Slack(m)'
         /\ faults' = faults + 1 => Slack(m)' = Slack(m) + 1
<1>1. PICK n \in {0, 1} : Slack(m) = faults + n /\ Slack(m)' = faults' + n
  BY DEF BackfillUntouched, Slack
<1>2. faults \in Nat
  BY DEF TypeOK, FaultsTypeOK
<1>3. CASE faults' = faults
  BY <1>1, <1>2, <1>3
<1>4. CASE faults' = faults + 1
  BY <1>1, <1>2, <1>4
<1>. QED
  BY <1>3, <1>4

(* The poll passes a message without making it a job, or after it has.     *)
LEMMA PaidDrop ==
  ASSUME TypeOK, RowsOK', FaultsTypeOK', \A m \in Messages : RowsPaid(m),
         UNCHANGED <<history, cursorVars, jobVars>>,
         BackfillUntouched, faults' \in {faults, faults + 1},
         NEW k \in ids["scheduler"], Drop("scheduler", k),
         pc["scheduler"] = "next" \/ (pc["scheduler"] = "push" /\ msg["scheduler"] = k)
  PROVE  \A m \in Messages : RowsPaid(m)'
<1> SUFFICES ASSUME NEW m \in Messages PROVE RowsPaid(m)'
  OBVIOUS
<1>1. pc'["scheduler"] = "next" /\ ids'["scheduler"] = ids["scheduler"] \ {k}
  BY StepEntries DEF AllProducers
<1>2. Saved(m)' = Saved(m) /\ Listed(m)' = Listed(m) /\ Rows(m)' = Rows(m)
  BY DEF cursorVars, jobVars, Saved, Listed, RecordsTo, Rows
<1>3. /\ Rows(m) \in Nat /\ Saved(m) \in Nat /\ Listed(m) \in Nat
      /\ Slack(m) \in Nat /\ Slack(m)' \in Nat /\ Slack(m) <= Slack(m)'
  BY PaidTypes, SlackGrows
<1>4. Polling /\ Polling'
  BY <1>1 DEF Polling
<1>5. CASE m # k \/ pc["scheduler"] = "push"
  <2>1. Handled(m)' <=> Handled(m)
    BY <1>1, <1>4, <1>5 DEF Handled
  <2>2. m \in ids'["scheduler"] => m \in ids["scheduler"]
    BY <1>1
  <2>3. Rows(m)' + Slack(m) <= Rows(m) + Slack(m)'
    BY <1>2, <1>3
  <2>. QED
    BY <1>2, <1>4, <2>1, <2>2, <2>3, PaidQuiet
<1>6. CASE m = k /\ pc["scheduler"] = "next"
  <2>1. ~Handled(m) /\ Handled(m)' /\ m \in ids["scheduler"] /\ m \notin ids'["scheduler"]
    BY <1>1, <1>4, <1>6 DEF Handled
  <2>2. Rows(m) <= Saved(m) + Slack(m) /\ Saved(m) + 1 <= Listed(m)
    BY <1>4, <2>1 DEF RowsPaid
  <2>3. Rows(m)' <= Saved(m)' + 1 + Slack(m)' /\ Rows(m)' <= Listed(m)' + Slack(m)'
    BY <1>2, <1>3, <2>2
  <2>. QED
    BY <2>1, <2>3 DEF RowsPaid
<1>. QED
  BY <1>5, <1>6

(* The poll inserts a message of its list.                                 *)
LEMMA PaidInsert ==
  ASSUME TypeOK, RowsOK', FaultsTypeOK', \A m \in Messages : RowsPaid(m),
         UNCHANGED <<history, cursorVars>>,
         BackfillUntouched, pc["scheduler"] = "next",
         NEW k \in ids["scheduler"], Insert("scheduler", k)
  PROVE  \A m \in Messages : RowsPaid(m)'
<1> SUFFICES ASSUME NEW m \in Messages PROVE RowsPaid(m)'
  OBVIOUS
<1>1. /\ pc'["scheduler"] = "push" /\ ids'["scheduler"] = ids["scheduler"]
      /\ msg'["scheduler"] = k /\ faults' = faults /\ EnqueueJob(k)
  BY StepEntries DEF AllProducers, Insert
<1>2. Saved(m)' = Saved(m) /\ Listed(m)' = Listed(m)
  BY DEF cursorVars, Saved, Listed, RecordsTo
<1>3. /\ Rows(m) \in Nat /\ Saved(m) \in Nat /\ Listed(m) \in Nat
      /\ Slack(m) \in Nat /\ Slack(m)' \in Nat /\ Slack(m) <= Slack(m)'
  BY <1>1, PaidTypes, SlackGrows
<1>4. Polling /\ Polling' /\ k \in Messages
  BY <1>1 DEF Polling, TypeOK, AllProducers
<1>5. CASE m # k
  <2>1. Handled(m)' <=> Handled(m)
    BY <1>1, <1>4, <1>5 DEF Handled
  <2>2. Rows(m)' = Rows(m)
    BY <1>1, <1>4, <1>5, RowCount DEF Rows
  <2>3. Rows(m)' + Slack(m) <= Rows(m) + Slack(m)'
    BY <1>3, <2>2
  <2>. QED
    BY <1>1, <1>2, <1>4, <2>1, <2>3, PaidQuiet
<1>6. CASE m = k
  <2>1. ~Handled(m) /\ Handled(m)' /\ m \in ids["scheduler"]
    BY <1>1, <1>4, <1>6 DEF Handled
  <2>2. Rows(m) <= Saved(m) + Slack(m) /\ Saved(m) + 1 <= Listed(m)
    BY <1>4, <2>1 DEF RowsPaid
  <2>3. Rows(m)' = Rows(m) + 1
    BY <1>1, <1>4, <1>6, RowCount DEF Rows
  <2>4. Rows(m)' <= Saved(m)' + 1 + Slack(m)' /\ Rows(m)' <= Listed(m)' + Slack(m)'
    BY <1>2, <1>3, <2>2, <2>3
  <2>5. Saved(m)' + 1 <= Listed(m)'
    BY <1>2, <2>2
  <2>. QED
    BY <2>1, <2>4, <2>5 DEF RowsPaid
<1>. QED
  BY <1>5, <1>6

(* The poll's steps.                                                       *)
LEMMA PaidPoll ==
  ASSUME PaidInv, TypeOK', Poll
  PROVE  PaidInv'
<1>0. /\ TypeOK /\ CursorOrder /\ (\A m \in Messages : RowsPaid(m))
      /\ RowsOK' /\ FaultsTypeOK' /\ UNCHANGED history
      /\ BackfillUntouched /\ faults' \in {faults, faults + 1}
      /\ "scheduler" \in AllProducers /\ PollStep
  <2>1. TypeOK /\ PollStep /\ UNCHANGED history
    BY DEF PaidInv, Poll, gmailVars
  <2>2. StepOK'
    BY <2>1, PollKeepsTypes
  <2>. QED
    BY <2>1, <2>2, PollLeavesBackfill DEF PaidInv, StepOK, AllProducers
<1>1. /\ Len(history) \in Nat /\ newCursor \in Nat
      /\ cursor # NoCursor => cursor \in Nat
  BY <1>0 DEF TypeOK
<1>2. ASSUME NEW m \in Messages
      PROVE  /\ Rows(m) \in Nat /\ Saved(m) \in Nat /\ Listed(m) \in Nat
             /\ Slack(m) \in Nat /\ Slack(m)' \in Nat /\ Slack(m) <= Slack(m)'
             /\ faults' = faults + 1 => Slack(m)' = Slack(m) + 1
             /\ UNCHANGED jobVars => Rows(m)' = Rows(m)
             /\ UNCHANGED cursor => Saved(m)' = Saved(m)
  BY <1>0, PaidTypes, SlackGrows DEF jobVars, Rows, Saved, RecordsTo
<1>3. CASE PollSeed
  <2>1. /\ pc["scheduler"] = "idle" /\ pc'["scheduler"] = "seed"
        /\ cursor = NoCursor /\ UNCHANGED <<cursor, jobVars>> /\ newCursor' = Len(history)
    BY <1>0, <1>3, StepEntries DEF PollSeed, At, LatestCursor
  <2>2. ~Polling /\ ~Polling' /\ \A m : ~Handled(m) /\ ~Handled(m)'
    BY <2>1 DEF Polling, Handled
  <2>3. CursorOrder'
    BY <1>0, <1>1, <2>1, <2>2 DEF CursorOrder
  <2>4. ASSUME NEW m \in Messages PROVE RowsPaid(m)'
    <3>1. Rows(m) <= Saved(m) + Slack(m)
      BY <1>0, <2>2 DEF RowsPaid
    <3>2. Rows(m)' <= Saved(m)' + Slack(m)'
      BY <1>2, <2>1, <3>1
    <3>. QED
      BY <2>2, <3>2 DEF RowsPaid
  <2>. QED
    BY <2>3, <2>4 DEF PaidInv
<1>4. CASE PollSeedSave \/ PollSave
  <2>1. /\ pc'["scheduler"] = "idle" /\ UNCHANGED <<newCursor, jobVars>>
        /\ \/ cursor' = newCursor
           \/ UNCHANGED cursor /\ faults' = faults + 1
    BY <1>0, <1>4, StepEntries DEF PollSeedSave, PollSave, Fault
  <2>2. ~Polling' /\ \A m : ~Handled(m)'
    BY <2>1 DEF Polling, Handled
  <2>3. CursorOrder'
    BY <1>0, <1>1, <2>1, <2>2 DEF CursorOrder
  <2>4. ASSUME NEW m \in Messages PROVE RowsPaid(m)'
    <3>1. Rows(m) <= Saved(m) + 1 + Slack(m)
      BY <1>0, <1>2 DEF RowsPaid
    <3>2. CASE UNCHANGED cursor /\ faults' = faults + 1
      <4>1. Rows(m)' <= Saved(m)' + Slack(m)'
        BY <1>2, <2>1, <3>1, <3>2
      <4>. QED
        BY <2>2, <4>1 DEF RowsPaid
    <3>3. CASE cursor' = newCursor
      <4>1. Saved(m)' = Listed(m)
        BY <1>0, <1>1, <3>3, IngestAssumption DEF Saved, Listed, RecordsTo
      <4>2. Rows(m) <= Listed(m) + Slack(m)
        <5>1. CASE Handled(m)
          BY <1>0, <5>1 DEF RowsPaid
        <5>2. CASE ~Handled(m)
          <6>1. Rows(m) <= Saved(m) + Slack(m)
            BY <1>0, <5>2 DEF RowsPaid
          <6>2. Saved(m) <= Listed(m)
            <7>1. CASE PollSave
              <8>1. pc["scheduler"] = "next" /\ ids["scheduler"] = {}
                BY <7>1 DEF PollSave, At
              <8>. QED
                BY <5>2, <8>1 DEF Handled, Polling
            <7>2. CASE PollSeedSave
              <8>1. cursor = NoCursor
                BY <1>0, <7>2 DEF PollSeedSave, At, CursorOrder
              <8>. QED
                BY <1>2, <8>1 DEF Saved
            <7>. QED
              BY <1>4, <7>1, <7>2
          <6>. QED
            BY <1>2, <6>1, <6>2
        <5>. QED
          BY <5>1, <5>2
      <4>3. Rows(m)' <= Saved(m)' + Slack(m)'
        BY <1>2, <2>1, <4>1, <4>2
      <4>. QED
        BY <2>2, <4>3 DEF RowsPaid
    <3>. QED
      BY <2>1, <3>2, <3>3
  <2>. QED
    BY <2>3, <2>4 DEF PaidInv
<1>5. CASE PollList
  <2>1. /\ pc["scheduler"] = "idle" /\ pc'["scheduler"] = "next" /\ cursor # NoCursor
        /\ UNCHANGED <<cursor, jobVars>> /\ newCursor' = Len(history)
        /\ ids'["scheduler"] = LatestMessageIDs(cursor)
    BY <1>0, <1>5, StepEntries DEF PollList, At, LatestCursor
  <2>2. ~Polling /\ Polling' /\ \A m : ~Handled(m)
    BY <2>1 DEF Polling, Handled
  <2>3. CursorOrder'
    BY <1>0, <1>1, <2>1, <2>2 DEF CursorOrder
  <2>4. ASSUME NEW m \in Messages PROVE RowsPaid(m)'
    <3>1. Rows(m) <= Saved(m) + Slack(m)
      BY <1>0, <2>2 DEF RowsPaid
    <3>2. /\ Saved(m) = RecordsTo(m, cursor) /\ Listed(m)' = RecordsTo(m, Len(history))
          /\ cursor \in Nat /\ cursor <= Len(history)
      BY <1>0, <1>1, <2>1 DEF Saved, Listed, RecordsTo, CursorOrder
    <3>3. Saved(m) <= Listed(m)' /\ Listed(m)' \in Nat
      BY <1>0, <1>1, <3>2, RecordsLaws
    <3>4. ASSUME m \in ids'["scheduler"] PROVE Saved(m) + 1 <= Listed(m)'
      <4>1. PICK i \in DOMAIN history : history[i] = m /\ cursor < i
        BY <2>1, <3>4 DEF LatestMessageIDs
      <4>2. i <= Len(history)
        BY <1>0, <4>1 DEF TypeOK
      <4>. QED
        BY <1>0, <1>1, <3>2, <4>1, <4>2, RecordsLaws
    <3>5. /\ Rows(m)' <= Saved(m)' + Slack(m)'
          /\ Rows(m)' <= Saved(m)' + 1 + Slack(m)'
          /\ Rows(m)' <= Listed(m)' + Slack(m)'
      BY <1>2, <2>1, <3>1, <3>3
    <3>. QED
      BY <1>2, <2>1, <3>4, <3>5 DEF RowsPaid
  <2>. QED
    BY <2>3, <2>4 DEF PaidInv
<1>6. ASSUME UNCHANGED cursorVars, \A m \in Messages : RowsPaid(m)',
             pc["scheduler"] \in {"next", "push"}
      PROVE  PaidInv'
  <2>1. pc'["scheduler"] # "seed"
    BY <1>0, <1>6, StepEntries
       DEF PollStep, PollSeed, PollSeedSave, PollList, PollEnqueue, PollPush,
           PollSave, PushId, At
  <2>2. CursorOrder'
    BY <1>0, <1>6, <2>1 DEF CursorOrder, cursorVars, Polling
  <2>. QED
    BY <1>6, <2>2 DEF PaidInv
<1>7. ASSUME NEW k \in Messages, PollEnqueue(k) PROVE PaidInv'
  <2>1. /\ pc["scheduler"] = "next" /\ k \in ids["scheduler"] /\ UNCHANGED cursorVars
        /\ Insert("scheduler", k) \/ (Drop("scheduler", k) /\ UNCHANGED jobVars)
    BY <1>7 DEF PollEnqueue, At
  <2>2. \A m \in Messages : RowsPaid(m)'
    BY <1>0, <2>1, PaidInsert, PaidDrop
  <2>. QED
    BY <1>6, <2>1, <2>2
<1>8. CASE PollPush
  <2>1. PICK k : k = msg["scheduler"]
    OBVIOUS
  <2>2. /\ pc["scheduler"] = "push" /\ k \in ids["scheduler"]
        /\ UNCHANGED <<cursorVars, jobVars>> /\ Drop("scheduler", k)
    BY <1>0, <1>8, <2>1 DEF PollPush, PushId, At, TypeOK
  <2>3. \A m \in Messages : RowsPaid(m)'
    BY <1>0, <2>1, <2>2, PaidDrop
  <2>. QED
    BY <1>6, <2>2, <2>3
<1>. QED
  BY <1>0, <1>3, <1>4, <1>5, <1>7, <1>8 DEF PollStep

(* The backfill's: a message it inserts had no row when it was checked,    *)
(* and gives up its slack for the check.                                   *)
LEMMA PaidBackfill ==
  ASSUME TypeOK, BackfillStep, NEW m \in Messages
  PROVE  Rows(m)' = 0 \/ Rows(m)' + Slack(m) <= Rows(m) + Slack(m)'
<1> DEFINE Fine == Rows(m)' = 0 \/ Rows(m)' + Slack(m) <= Rows(m) + Slack(m)'
           Shot == IF pc["backfill"] = "insert" /\ msg["backfill"] = m THEN 0 ELSE 1
<1>1. /\ "backfill" \in AllProducers /\ Rows(m) \in Nat /\ faults \in Nat
      /\ UNCHANGED jobVars => Rows(m)' = Rows(m)
  BY PaidTypes DEF AllProducers, jobVars, Rows, TypeOK, FaultsTypeOK
<1>2. Shot \in {0, 1} /\ Slack(m) = faults + Shot
  BY DEF Slack
<1>3. ASSUME pc'["backfill"] # "insert", UNCHANGED jobVars,
             faults' = faults \/ faults' = faults + 1
      PROVE  Fine
  <2>1. Slack(m)' = faults' + 1
    BY <1>3 DEF Slack
  <2>. QED
    BY <1>1, <1>2, <1>3, <2>1
<1>4. CASE BackfillList \/ BackfillDone \/ BackfillPush
  <2>1. pc'["backfill"] # "insert" /\ UNCHANGED jobVars
        /\ (faults' = faults \/ faults' = faults + 1)
    BY <1>1, <1>4, StepEntries
       DEF BackfillList, BackfillDone, BackfillPush, PushId, Fault
  <2>. QED
    BY <1>3, <2>1
<1>5. ASSUME NEW k \in Messages, BackfillCheck(k) PROVE Fine
  <2>1. CASE Drop("backfill", k)
    <3>1. pc'["backfill"] # "insert" /\ UNCHANGED jobVars
          /\ (faults' = faults \/ faults' = faults + 1)
      BY <1>1, <1>5, <2>1, StepEntries DEF BackfillCheck, Fault
    <3>. QED
      BY <1>3, <3>1
  <2>2. CASE /\ ~HasJobForMessage(k) /\ msg' = [msg EXCEPT !["backfill"] = k]
             /\ pc["backfill"] = "next" /\ UNCHANGED <<jobVars, faults>>
    <3>1. msg'["backfill"] = k
      BY <1>1, <2>2 DEF TypeOK
    <3>2. CASE m = k
      <4>1. Rows(m) = 0
        BY <2>2, <3>2, RowCount DEF Rows, Known
      <4>. QED
        BY <1>1, <2>2, <4>1
    <3>3. CASE m # k
      <4>1. Slack(m) = faults + 1 /\ Slack(m)' = faults + 1
        BY <2>2, <3>1, <3>3 DEF Slack
      <4>. QED
        BY <1>1, <2>2, <4>1
    <3>. QED
      BY <3>2, <3>3
  <2>. QED
    BY <1>5, <2>1, <2>2 DEF BackfillCheck, At
<1>6. CASE BackfillEnqueue
  <2>1. PICK k : k = msg["backfill"]
    OBVIOUS
  <2>2. pc["backfill"] = "insert" /\ k \in Messages
    BY <1>1, <1>6, <2>1 DEF BackfillEnqueue, At, TypeOK
  <2>3. CASE Insert("backfill", k)
    <3>1. pc'["backfill"] = "push" /\ EnqueueJob(k) /\ UNCHANGED faults
      BY <1>1, <2>3, StepEntries DEF Insert
    <3>2. Slack(m)' = faults + 1
      BY <3>1 DEF Slack
    <3>3. CASE m = k
      <4>1. Rows(m)' = Rows(m) + 1
        BY <2>2, <3>1, <3>3, RowCount DEF Rows
      <4>2. Slack(m) = faults
        BY <1>1, <2>1, <2>2, <3>3 DEF Slack
      <4>. QED
        BY <1>1, <3>2, <4>1, <4>2
    <3>4. CASE m # k
      <4>1. Rows(m)' = Rows(m)
        BY <2>2, <3>1, <3>4, RowCount DEF Rows
      <4>. QED
        BY <1>1, <1>2, <3>2, <4>1
    <3>. QED
      BY <3>3, <3>4
  <2>4. CASE Drop("backfill", k) /\ UNCHANGED jobVars
    <3>1. pc'["backfill"] # "insert" /\ (faults' = faults \/ faults' = faults + 1)
      BY <1>1, <1>6, <2>4, StepEntries DEF BackfillEnqueue, Insert, Fault
    <3>. QED
      BY <1>3, <2>4, <3>1
  <2>. QED
    BY <1>6, <2>1, <2>3, <2>4 DEF BackfillEnqueue
<1>. QED
  BY <1>4, <1>5, <1>6 DEF BackfillStep

(* Steps outside the poll.                                                 *)
LEMMA PaidElsewhere ==
  ASSUME PaidInv, TypeOK', UNCHANGED <<history, cursorVars>>, SchedulerUntouched,
         \A m \in Messages :
           Rows(m)' = 0 \/ Rows(m)' + Slack(m) <= Rows(m) + Slack(m)'
  PROVE  PaidInv'
<1>1. TypeOK /\ CursorOrder /\ RowsOK' /\ FaultsTypeOK'
  BY SplitTypeOK DEF PaidInv, TypeOK, RowsOK
<1>2. Polling' <=> Polling
  BY DEF Polling, SchedulerUntouched
<1>3. CursorOrder'
  BY <1>1, <1>2 DEF CursorOrder, SchedulerUntouched, cursorVars
<1>4. ASSUME NEW m \in Messages PROVE RowsPaid(m)'
  <2>1. Saved(m)' = Saved(m) /\ Listed(m)' = Listed(m)
    BY DEF cursorVars, Saved, Listed, RecordsTo
  <2>2. Handled(m)' <=> Handled(m)
    BY <1>2 DEF Handled, SchedulerUntouched
  <2>3. (Polling /\ m \in ids["scheduler"])' => Polling /\ m \in ids["scheduler"]
    BY <1>2 DEF SchedulerUntouched
  <2>. QED
    BY <1>1, <2>1, <2>2, <2>3, PaidQuiet DEF PaidInv
<1>. QED
  BY <1>3, <1>4 DEF PaidInv

(* New mail lies ahead of both cursors.                                    *)
LEMMA PaidArrive ==
  ASSUME PaidInv, TypeOK', NEW k \in Messages, Arrive(k)
  PROVE  PaidInv'
<1>1. TypeOK /\ CursorOrder /\ RowsOK' /\ FaultsTypeOK'
  BY SplitTypeOK DEF PaidInv, TypeOK, RowsOK
<1>2. UNCHANGED <<cursorVars, jobVars, pc, ids, msg, faults>>
  BY DEF Arrive
<1>3. /\ newCursor \in Nat /\ Len(history) \in Nat /\ Len(history') = Len(history) + 1
      /\ cursor # NoCursor => cursor \in Nat
  BY <1>1, ArriveEffect DEF TypeOK
<1>4. CursorOrder'
  BY <1>1, <1>2, <1>3 DEF CursorOrder, Polling, cursorVars
<1>5. ASSUME NEW m \in Messages PROVE RowsPaid(m)'
  <2>1. ASSUME NEW c \in Nat, c <= Len(history)
        PROVE  RecordsTo(m, c)' = RecordsTo(m, c)
    <3>1. {i \in DOMAIN history' : history'[i] = m /\ i <= c}
            = {i \in DOMAIN history : history[i] = m /\ i <= c}
      BY <1>1, <1>3, <2>1, ArriveEffect
    <3>. QED
      BY <3>1 DEF RecordsTo
  <2>2. Saved(m)' = Saved(m) /\ Listed(m)' = Listed(m)
    BY <1>1, <1>2, <1>3, <2>1 DEF Saved, Listed, CursorOrder, cursorVars
  <2>3. /\ (Handled(m)' <=> Handled(m)) /\ (Polling' <=> Polling)
        /\ Rows(m)' = Rows(m) /\ Slack(m)' = Slack(m)
    BY <1>2 DEF Handled, Polling, Rows, Slack, jobVars
  <2>4. Rows(m)' + Slack(m) <= Rows(m) + Slack(m)'
    BY <1>1, <2>3, PaidTypes
  <2>. QED
    BY <1>1, <1>2, <2>2, <2>3, <2>4, PaidQuiet DEF PaidInv
<1>. QED
  BY <1>4, <1>5 DEF PaidInv

(* A crash ends the poll and the backfill, and pays for what the poll has  *)
(* made and will list again.                                               *)
LEMMA PaidCrash ==
  ASSUME PaidInv, TypeOK', SchedulerCrash, UNCHANGED <<gmailVars, more>>
  PROVE  PaidInv'
<1>1. /\ TypeOK /\ CursorOrder /\ UNCHANGED <<history, cursorVars, jobVars>>
      /\ pc'["scheduler"] = "idle" /\ pc'["backfill"] = "idle"
      /\ faults' = faults + 1 /\ faults \in Nat
  BY DEF PaidInv, TypeOK, FaultsTypeOK, SchedulerCrash, AllProducers, gmailVars, Fault
<1>2. ~Polling' /\ \A m : ~Handled(m)'
  BY <1>1 DEF Polling, Handled
<1>3. CursorOrder'
  BY <1>1, <1>2 DEF CursorOrder, cursorVars
<1>4. ASSUME NEW m \in Messages PROVE RowsPaid(m)'
  <2>1. Saved(m)' = Saved(m) /\ Rows(m)' = Rows(m)
    BY <1>1 DEF cursorVars, jobVars, Saved, RecordsTo, Rows
  <2>2. Rows(m) \in Nat /\ Saved(m) \in Nat /\ Slack(m) \in Nat
    BY <1>1, PaidTypes
  <2>3. Slack(m) <= faults + 1 /\ Slack(m)' = faults + 2
    BY <1>1 DEF Slack
  <2>4. Rows(m) <= Saved(m) + 1 + Slack(m)
    BY <2>2 DEF PaidInv, RowsPaid
  <2>5. Rows(m)' <= Saved(m)' + Slack(m)'
    BY <1>1, <2>1, <2>2, <2>3, <2>4
  <2>. QED
    BY <1>2, <2>5 DEF RowsPaid
<1>. QED
  BY <1>3, <1>4 DEF PaidInv

(* Every step but the import's.                                            *)
LEMMA PaidStep ==
  ASSUME NoImport, PaidInv, [Next]_vars
  PROVE  PaidInv'
<1>1. TypeOK /\ TypeOK'
  BY TypeStep DEF PaidInv
<1>2. \A m \in Messages : Rows(m) \in Nat /\ Slack(m) \in Nat
  BY <1>1, PaidTypes
<1>3. ASSUME UNCHANGED <<history, cursorVars, pc, ids, msg, faults>>,
             \A m \in Messages : Rows(m)' = Rows(m)
      PROVE  PaidInv'
  <2>1. \A m \in Messages : Slack(m)' = Slack(m)
    BY <1>3 DEF Slack
  <2>2. \A m \in Messages : Rows(m)' + Slack(m) <= Rows(m) + Slack(m)'
    BY <1>2, <1>3, <2>1
  <2>. QED
    BY <1>1, <1>3, <2>2, PaidElsewhere DEF SchedulerUntouched
<1>4. UNCHANGED jobVars => \A m \in Messages : Rows(m)' = Rows(m)
  BY DEF jobVars, Rows
<1>5. CASE Gmail
  BY <1>1, <1>3, <1>4, <1>5, PaidArrive DEF Gmail, Archive, GrowOld
<1>6. CASE TaskQueueRuns
  <2>1. CASE Pop
    BY <1>3, <1>4, <2>1 DEF Pop, gmailVars
  <2>2. ASSUME NEW k \in Messages, JobEnds(k) PROVE PaidInv'
    <3>1. \A m \in Messages : Rows(m)' = Rows(m)
      BY <1>1, <2>2, RowCount DEF Rows
    <3>. QED
      BY <1>3, <2>2, <3>1 DEF JobEnds, gmailVars
  <2>3. CASE PutBack
    BY <1>3, <1>4, <2>3 DEF PutBack, gmailVars
  <2>. QED
    BY <1>6, <2>1, <2>2, <2>3 DEF TaskQueueRuns, Repush, Reclaim
<1>7. CASE Poll
  BY <1>1, <1>7, PaidPoll
<1>8. CASE Backfills
  BY <1>1, <1>8, BackfillKeepsTypes, PaidBackfill, PaidElsewhere
     DEF Backfills, gmailVars
<1>9. CASE SchedulerCrash /\ UNCHANGED <<gmailVars, more>>
  BY <1>1, <1>9, PaidCrash
<1>10. CASE UNCHANGED vars
  BY <1>3, <1>4, <1>10 DEF vars, gmailVars
<1>11. ~Imports
  BY DEF NoImport, Imports, ImportStep, ImportInterrupted, ImportStart,
         WaitForQueueDepth, ImportPage, ImportCheck, ImportEnqueue, ImportPush,
         ImportPageDone, PushId, At
<1>. QED
  BY <1>5, <1>6, <1>7, <1>8, <1>9, <1>10, <1>11 DEF Next

(* For every mailbox and every number of crashes and failed calls: beside  *)
(* one row for each time it came into INBOX, a message gets at most one    *)
(* for each fault (scheduler.go:111) and one for the overlap of the poll   *)
(* and the backfill (backfill.go:98).                                      *)
THEOREM FewDuplicates ==
  ASSUME NoImport
  PROVE  Spec => []DuplicatesBounded
<1>1. IngestInit => PaidInv
  <2> SUFFICES ASSUME IngestInit PROVE PaidInv
    OBVIOUS
  <2>1. TypeOK
    BY InitSync DEF SyncInv
  <2>2. /\ cursor = NoCursor /\ newCursor = 0 /\ history = <<>> /\ faults = 0
        /\ pc["scheduler"] = "idle" /\ pc["backfill"] = "idle"
        /\ \A m \in Messages : active[m] = 0 /\ ended[m] = 0
    BY DEF IngestInit, AllProducers
  <2>3. CursorOrder
    BY <2>2 DEF CursorOrder, Polling
  <2>4. \A m \in Messages : RowsPaid(m)
    BY <2>2 DEF RowsPaid, Handled, Polling, Rows, Saved, Slack
  <2>. QED
    BY <2>1, <2>3, <2>4 DEF PaidInv
<1>2. PaidInv /\ [Next]_vars => PaidInv'
  BY PaidStep
<1>3. PaidInv => DuplicatesBounded
  <2> SUFFICES ASSUME PaidInv, NEW m \in Messages
               PROVE  active[m] + ended[m] <= Records(m) + faults + 1
    BY DEF DuplicatesBounded
  <2>1. TypeOK /\ RowsPaid(m)
    BY DEF PaidInv
  <2>2. /\ Rows(m) \in Nat /\ Saved(m) \in Nat /\ Listed(m) \in Nat
        /\ Slack(m) \in Nat
    BY <2>1, PaidTypes
  <2>3. Records(m) \in Nat /\ Saved(m) <= Records(m) /\ Listed(m) <= Records(m)
    <3>1. newCursor \in Nat /\ (cursor # NoCursor => cursor \in Nat)
      BY <2>1 DEF TypeOK
    <3>2. Records(m) \in Nat /\ Listed(m) <= Records(m)
      BY <2>1, <3>1, RecordsLaws DEF Listed
    <3>. QED
      BY <2>1, <3>1, <3>2, RecordsLaws DEF Saved
  <2>4. faults \in Nat /\ Slack(m) <= faults + 1
    BY <2>1 DEF TypeOK, FaultsTypeOK, Slack
  <2>5. Rows(m) <= Records(m) + Slack(m)
    BY <2>1, <2>2, <2>3 DEF RowsPaid
  <2>6. Rows(m) <= Records(m) + faults + 1
    BY <2>2, <2>3, <2>4, <2>5
  <2>. QED
    BY <2>6 DEF Rows
<1>. QED
  BY <1>1, <1>2, <1>3, PTL DEF Spec
=============================================================================
