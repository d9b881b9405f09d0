------------------------------ MODULE MailJobs ------------------------------
(***************************************************************************)
(* What the three producers of mail jobs share: one user's mailbox, the    *)
(* rows of its messages, the depth of queue:fetch, and the loop in which   *)
(* a producer inserts a row for a message and then pushes its id.  Of what *)
(* the task queue does with a job there is here what producers can see:    *)
(* its id leaves queue:fetch, comes back to it, and the job ends.          *)
(*                                                                         *)
(* A history id is the number of INBOX records so far.  Gmail's listings   *)
(* and a producer's own order over the ids it lists are arbitrary, so the  *)
(* ids of a pass are a set.  A Gmail call that fails ends a pass before it *)
(* has changed anything, as if the pass had not begun.                     *)
(***************************************************************************)
EXTENDS Faults, Sequences, FiniteSets

CONSTANTS Messages,       \* the mails of the user's account
          Personal,       \* those in CATEGORY_PERSONAL
          Producers,      \* the producers that run
          NoCursor,       \* the cursor of a user never polled: ""
          None,           \* no message
          HistoryPage,    \* records history.list returns in one answer
          HistoryKept,    \* records Gmail keeps; an older cursor is a 404
          PageSize,       \* ids messages.list returns in one page
          MaxQueueDepth,  \* the import's --max-queue
          MaxHistory,     \* bound on the number of INBOX records
          MaxRepushes     \* bound on the ids the sweeper puts back

ASSUME IngestAssumption ==
  /\ IsFiniteSet(Messages)
  /\ Personal \subseteq Messages /\ None \notin Messages
  /\ Producers \subseteq {"scheduler", "backfill", "import"}
  /\ NoCursor \notin Nat
  /\ HistoryPage \in Nat \ {0} /\ PageSize \in Nat \ {0}
  /\ HistoryKept \in Nat
  /\ MaxQueueDepth \in Nat \ {0}   \* full.go:37: a limit of 0 means 500
  /\ MaxHistory \in Nat /\ MaxRepushes \in Nat

VARIABLES history,    \* the messages added to INBOX, in order (with repeats)
          inbox,      \* the messages in INBOX now
          aged,       \* the messages older than the backfill window
          active,     \* per message, its rows that are not done or dead
          ended,      \* per message, its rows that are
          depth,      \* LLEN queue:fetch
          repushes,   \* how many ids the sweeper has put back
          foreign,    \* observer: the ids not pushed by the import since
                      \* depth was last MaxQueueDepth or less
          cursor,     \* gmail_sync_state.history_id
          seed,       \* the first cursor ever saved
          pc,         \* where each producer is
          ids,        \* what it has listed and not yet handled
          msg,        \* the message it is handling
          newCursor,  \* the history id its poll will save
          more        \* what the import has not yet paged through

gmailVars == <<history, inbox, aged>>
cursorVars == <<cursor, seed, newCursor>>
jobVars == <<active, ended>>
queueVars == <<depth, repushes, foreign>>
vars == <<gmailVars, cursorVars, jobVars, queueVars, pc, ids, msg, more, faults>>

AllProducers == {"scheduler", "backfill", "import"}
Labels == {"idle", "seed", "next", "insert", "push", "page", "wait"}

IngestInit ==
  /\ history = <<>> /\ inbox = {} /\ aged = {}
  /\ active = [m \in Messages |-> 0] /\ ended = [m \in Messages |-> 0]
  /\ depth = 0 /\ repushes = 0 /\ foreign = 0
  /\ cursor = NoCursor /\ seed = NoCursor /\ newCursor = 0
  /\ pc = [p \in AllProducers |-> "idle"]
  /\ ids = [p \in AllProducers |-> {}]
  /\ msg = [p \in AllProducers |-> None]
  /\ more = {}
  /\ faults = 0

-----------------------------------------------------------------------------
(* Gmail: a mail arrives in, or is moved into, INBOX; it is archived; it   *)
(* grows too old for the backfill, the one producer that asks for the age. *)

Arrive(m) ==
  /\ m \notin inbox /\ Len(history) < MaxHistory
  /\ inbox' = inbox \cup {m}
  /\ history' = Append(history, m)
  /\ UNCHANGED <<aged, cursorVars, jobVars, queueVars, pc, ids, msg, more, faults>>

Archive(m) ==
  /\ m \in inbox
  /\ inbox' = inbox \ {m}
  /\ UNCHANGED <<history, aged, cursorVars, jobVars, queueVars, pc, ids, msg, more,
                 faults>>

GrowOld(m) ==
  /\ "backfill" \in Producers /\ m \notin aged
  /\ aged' = aged \cup {m}
  /\ UNCHANGED <<history, inbox, cursorVars, jobVars, queueVars, pc, ids, msg, more,
                 faults>>

(* history.list answers with the first page of records after the cursor,   *)
(* and with the history id of now.                                         *)
LatestMessageIDs(c) ==
  {history[i] : i \in {k \in DOMAIN history : c < k /\ k <= c + HistoryPage}}
    \cap Personal

LatestCursor == Len(history)

HasHistory(c) == LatestCursor <= c + HistoryKept

(* A plausible bug: before: in the query in place of after:.               *)
ListBeforeWindow == (inbox \cap aged) \cap Personal

ListRecent == (inbox \ aged) \cap Personal

ListAllPages == Personal

-----------------------------------------------------------------------------
(* The store and the queue.  A unique index admits one row per message     *)
(* that is not done or dead.                                               *)

(* A plausible bug: the query sees only rows in flight.                    *)
HasJobInFlight(m) == active[m] > 0

HasJobForMessage(m) == active[m] + ended[m] > 0

(* A plausible bug: no unique index.                                       *)
EnqueueJobTwice(m) ==
  /\ active' = [active EXCEPT ![m] = @ + 1]
  /\ UNCHANGED ended

EnqueueJob(m) ==
  /\ active[m] = 0
  /\ active' = [active EXCEPT ![m] = @ + 1]
  /\ UNCHANGED ended

Duplicate(m) == active[m] > 0

(* LPUSH queue:fetch, by the import or by another process.                 *)
Push(byImport) ==
  /\ depth' = depth + 1
  /\ foreign' = IF byImport \/ depth' <= MaxQueueDepth THEN foreign ELSE foreign + 1

(* A worker of the fetch stage pops an id.                                 *)
Pop ==
  /\ depth > 0
  /\ depth' = depth - 1
  /\ foreign' = IF depth' <= MaxQueueDepth THEN 0 ELSE foreign
  /\ UNCHANGED <<gmailVars, cursorVars, jobVars, repushes, pc, ids, msg, more,
                 faults>>

(* The sweeper puts an id back.                                            *)
PutBack ==
  /\ repushes < MaxRepushes
  /\ repushes' = repushes + 1
  /\ Push(FALSE)
  /\ UNCHANGED <<gmailVars, cursorVars, jobVars, pc, ids, msg, more, faults>>

(* A row in flight that waits for too long, or is due for a retry, is      *)
(* pushed again, also when its id still is in the list.                    *)
Repush(m) == active[m] > 0 /\ PutBack

(* An id a dead worker had popped goes back; its row may have ended.       *)
Reclaim(m) == HasJobForMessage(m) /\ PutBack

(* A job ends: MarkDone, or MarkFailed with no attempt left.               *)
JobEnds(m) ==
  /\ active[m] > 0
  /\ active' = [active EXCEPT ![m] = @ - 1]
  /\ ended' = [ended EXCEPT ![m] = @ + 1]
  /\ UNCHANGED <<gmailVars, cursorVars, queueVars, pc, ids, msg, more, faults>>

-----------------------------------------------------------------------------
(* What the producers have in common.                                      *)

At(p, label) == p \in Producers /\ pc[p] = label

GoTo(p, label) == pc' = [pc EXCEPT ![p] = label]

(* Go on with the next message of the pass.                                *)
Drop(p, m) ==
  /\ ids' = [ids EXCEPT ![p] = @ \ {m}]
  /\ msg' = [msg EXCEPT ![p] = None]
  /\ GoTo(p, "next")

(* Give up the pass.                                                       *)
Abort(p) ==
  /\ ids' = [ids EXCEPT ![p] = {}]
  /\ msg' = [msg EXCEPT ![p] = None]
  /\ GoTo(p, "idle")

Lists(p, found) ==
  /\ ids' = [ids EXCEPT ![p] = found]
  /\ UNCHANGED msg

Insert(p, m) ==
  /\ EnqueueJob(m)
  /\ msg' = [msg EXCEPT ![p] = m]
  /\ GoTo(p, "push")
  /\ UNCHANGED <<ids, faults>>

PushId(p) ==
  /\ At(p, "push")
  /\ Push(p = "import")
  /\ Drop(p, msg[p])
  /\ UNCHANGED <<jobVars, repushes, faults>>
=============================================================================
