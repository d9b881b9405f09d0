----------------------------- MODULE Scheduler ------------------------------
(***************************************************************************)
(* The scheduler's poll of one user.  It seeds the cursor if there is      *)
(* none; otherwise it lists the history, inserts and pushes each message,  *)
(* tolerating failures, and saves the cursor last.  A cursor Gmail has no  *)
(* history for fails every poll from then on: nothing seeds it again.      *)
(***************************************************************************)
EXTENDS MailJobs

PollSeed ==
  /\ At("scheduler", "idle") /\ cursor = NoCursor
  /\ newCursor' = LatestCursor
  /\ GoTo("scheduler", "seed")
  /\ UNCHANGED <<cursor, seed, jobVars, queueVars, ids, msg, faults>>

PollSeedSave ==
  /\ At("scheduler", "seed")
  /\ GoTo("scheduler", "idle")
  /\ \/ cursor' = newCursor /\ seed' = newCursor /\ UNCHANGED faults
     \/ Fault("db_error") /\ UNCHANGED <<cursor, seed>>
  /\ UNCHANGED <<newCursor, jobVars, queueVars, ids, msg>>

(* A plausible bug: the cursor is saved as soon as the history is listed.  *)
PollListSavesCursor ==
  /\ At("scheduler", "idle") /\ cursor # NoCursor
  /\ HasHistory(cursor)
  /\ Lists("scheduler", LatestMessageIDs(cursor))
  /\ newCursor' = LatestCursor /\ cursor' = LatestCursor
  /\ GoTo("scheduler", "next")
  /\ UNCHANGED <<seed, jobVars, queueVars, faults>>

PollList ==
  /\ At("scheduler", "idle") /\ cursor # NoCursor
  /\ HasHistory(cursor)
  /\ Lists("scheduler", LatestMessageIDs(cursor))
  /\ newCursor' = LatestCursor
  /\ GoTo("scheduler", "next")
  /\ UNCHANGED <<cursor, seed, jobVars, queueVars, faults>>

(* A duplicate, like any other error of the insert, is only logged.        *)
PollEnqueue(m) ==
  /\ At("scheduler", "next") /\ m \in ids["scheduler"]
  /\ \/ Insert("scheduler", m)
     \/ Duplicate(m) /\ Drop("scheduler", m) /\ UNCHANGED <<jobVars, faults>>
     \/ Fault("db_error") /\ Drop("scheduler", m) /\ UNCHANGED jobVars
  /\ UNCHANGED <<cursorVars, queueVars>>

PollPush ==
  /\ \/ PushId("scheduler")
     \/ /\ At("scheduler", "push") /\ Fault("lost_push")
        /\ Drop("scheduler", msg["scheduler"])
        /\ UNCHANGED <<jobVars, queueVars>>
  /\ UNCHANGED cursorVars

(* A plausible bug: the old cursor is saved.                               *)
PollSaveOld ==
  /\ At("scheduler", "next") /\ ids["scheduler"] = {}
  /\ GoTo("scheduler", "idle")
  /\ UNCHANGED <<cursor, faults>>
  /\ UNCHANGED <<seed, newCursor, jobVars, queueVars, ids, msg>>

PollSave ==
  /\ At("scheduler", "next") /\ ids["scheduler"] = {}
  /\ GoTo("scheduler", "idle")
  /\ \/ cursor' = newCursor /\ UNCHANGED faults
     \/ Fault("db_error") /\ UNCHANGED cursor
  /\ UNCHANGED <<seed, newCursor, jobVars, queueVars, ids, msg>>

PollStep ==
  \/ PollSeed \/ PollSeedSave \/ PollList
  \/ \E m \in Messages : PollEnqueue(m)
  \/ PollPush \/ PollSave

=============================================================================
