------------------------------ MODULE Backfill ------------------------------
(***************************************************************************)
(* The scheduler's safety net: list the recent inbox, and insert and push  *)
(* every message that has no row yet, tolerating failures.                 *)
(***************************************************************************)
EXTENDS MailJobs

BackfillList ==
  /\ At("backfill", "idle")
  /\ Lists("backfill", ListRecent)
  /\ GoTo("backfill", "next")
  /\ UNCHANGED <<jobVars, queueVars, faults>>

BackfillCheck(m) ==
  /\ At("backfill", "next") /\ m \in ids["backfill"]
  /\ \/ /\ ~HasJobForMessage(m)
        /\ msg' = [msg EXCEPT !["backfill"] = m]
        /\ GoTo("backfill", "insert")
        /\ UNCHANGED <<ids, faults>>
     \/ HasJobForMessage(m) /\ Drop("backfill", m) /\ UNCHANGED faults
     \/ Fault("db_error") /\ Drop("backfill", m)
  /\ UNCHANGED <<jobVars, queueVars>>

BackfillEnqueue ==
  /\ At("backfill", "insert")
  /\ LET m == msg["backfill"] IN
       \/ Insert("backfill", m)
       \/ Duplicate(m) /\ Drop("backfill", m) /\ UNCHANGED <<jobVars, faults>>
       \/ Fault("db_error") /\ Drop("backfill", m) /\ UNCHANGED jobVars
  /\ UNCHANGED queueVars

BackfillPush ==
  \/ PushId("backfill")
  \/ /\ At("backfill", "push") /\ Fault("lost_push")
     /\ Drop("backfill", msg["backfill"])
     /\ UNCHANGED <<jobVars, queueVars>>

BackfillDone ==
  /\ At("backfill", "next") /\ ids["backfill"] = {}
  /\ GoTo("backfill", "idle")
  /\ UNCHANGED <<jobVars, queueVars, ids, msg, faults>>

BackfillStep ==
  \/ BackfillList
  \/ \E m \in Messages : BackfillCheck(m)
  \/ BackfillEnqueue \/ BackfillPush \/ BackfillDone
=============================================================================
