------------------------------- MODULE Ingest -------------------------------
(***************************************************************************)
(* How one user's mail becomes jobs: the scheduler's history poll and its  *)
(* backfill, two goroutines of one process, and the operator's import.     *)
(***************************************************************************)
EXTENDS Scheduler, Backfill, FullImport

-----------------------------------------------------------------------------
(* The scheduler process dies; Kubernetes starts it again.  Its poll and   *)
(* its backfill stop where they are.                                       *)
SchedulerCrash ==
  /\ \E p \in Producers \ {"import"} : pc[p] # "idle"
  /\ Fault("crash")
  /\ pc' = [p \in AllProducers |-> IF p = "import" THEN pc[p] ELSE "idle"]
  /\ ids' = [p \in AllProducers |-> IF p = "import" THEN ids[p] ELSE {}]
  /\ msg' = [p \in AllProducers |-> IF p = "import" THEN msg[p] ELSE None]
  /\ UNCHANGED <<cursorVars, jobVars, queueVars>>

Gmail == \E m \in Messages : Arrive(m) \/ Archive(m) \/ GrowOld(m)

TaskQueueRuns ==
  Pop \/ \E m \in Messages : Repush(m) \/ Reclaim(m) \/ JobEnds(m)

Poll == PollStep /\ UNCHANGED <<gmailVars, more>>

Backfills == BackfillStep /\ UNCHANGED <<gmailVars, cursorVars, more>>

Imports ==
  /\ ImportStep \/ ImportInterrupted
  /\ UNCHANGED <<gmailVars, cursorVars>>

Next ==
  \/ Gmail \/ TaskQueueRuns
  \/ Poll \/ Backfills \/ Imports
  \/ SchedulerCrash /\ UNCHANGED <<gmailVars, more>>

Spec == IngestInit /\ [][Next]_vars

(* The tickers of the scheduler and of the backfill go on ticking.         *)
FairSpec == Spec /\ WF_vars(Poll) /\ WF_vars(Backfills)

(* An import that is started goes on, and one that has failed is started   *)
(* again; workers go on popping.                                           *)
ImportFairSpec ==
  Spec /\ WF_vars(ImportStep /\ UNCHANGED <<gmailVars, cursorVars>>) /\ WF_vars(Pop)

-----------------------------------------------------------------------------
(***************************************************************************)
(* Properties.                                                             *)
(***************************************************************************)

Known(m) == HasJobForMessage(m)

(* The types of all variables of the mailbox, the rows and the producers;  *)
(* no message has two rows in flight (store.go:27), and a producer between *)
(* the insert and the push holds the message it inserted.                  *)
TypeOK ==
  /\ history \in Seq(Messages) /\ inbox \subseteq Messages
  /\ aged \subseteq Messages
  /\ active \in [Messages -> 0..1] /\ ended \in [Messages -> Nat]
  /\ depth \in Nat /\ repushes \in Nat /\ foreign \in Nat
  /\ cursor \in Nat \cup {NoCursor} /\ seed \in Nat \cup {NoCursor}
  /\ newCursor \in Nat
  /\ pc \in [AllProducers -> Labels]
  /\ ids \in [AllProducers -> SUBSET Messages]
  /\ msg \in [AllProducers -> Messages \cup {None}]
  /\ \A p \in AllProducers :
       pc[p] \in {"insert", "push"} => msg[p] \in ids[p]
  /\ more \subseteq Messages
  /\ FaultsTypeOK

(* The cursor never runs ahead of the rows: a personal message added to    *)
(* INBOX after the cursor was seeded, and at or before the cursor, has a   *)
(* row (scheduler.go:103-131), wherever the process was killed.            *)
CursorCovers ==
  \A i \in DOMAIN history :
    /\ cursor # NoCursor /\ seed < i /\ i <= cursor
    /\ history[i] \in Personal
    => Known(history[i])

(* A personal message that stays in INBOX and in the backfill window gets  *)
(* a row, although a poll may lose it for good (scheduler.go:117).         *)
NothingMissed ==
  \A m \in Personal :
    (m \in inbox \ aged) ~> (Known(m) \/ m \notin inbox \/ m \in aged)

Records(m) == Cardinality({i \in DOMAIN history : history[i] = m})

(* A message gets a second job only if it came into INBOX again, or a      *)
(* crash or an error made a poll read it twice (scheduler.go:111), or the  *)
(* backfill (backfill.go:98) overlaps the poll, which happens once.        *)
DuplicatesBounded ==
  \A m \in Messages : active[m] + ended[m] <= Records(m) + faults + 1

(* The import may be interrupted anywhere and run again: it never makes a  *)
(* second job for a message (full.go:31-35), also after the first ended.   *)
ImportOnce == \A m \in Messages : active[m] + ended[m] <= 1

(* An import that ends without an error leaves no mail of the archive      *)
(* without a job, over all its pages (full.go:44-84).                      *)
ImportCovers ==
  [][pc["import"] = "next" /\ pc'["import"] = "idle" /\ faults' = faults
       => \A m \in Personal : Known(m)]_vars

(* It gets there, although it waits for the queue to drain (full.go:86)    *)
(* and has to be started again after each error.                           *)
EventuallyImported == <>(\A m \in Personal : Known(m))

(* Waiting before each page (full.go:86) keeps the import from taking      *)
(* queue:fetch further above its limit than one page: whatever it is over  *)
(* that, the other processes, of which the sweeper puts ids back whenever  *)
(* it finds them (sweeper.go:124), have pushed since the queue was last at *)
(* the limit.                                                              *)
Backpressure == depth <= MaxQueueDepth + PageSize + foreign
=============================================================================
