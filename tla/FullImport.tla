----------------------------- MODULE FullImport -----------------------------
(***************************************************************************)
(* The operator's import of the whole archive: page through the personal   *)
(* mail, before each page wait until queue:fetch is no deeper than         *)
(* MaxQueueDepth, and insert and push what has no row yet.  The first      *)
(* error ends the run; the operator may start it again.                    *)
(***************************************************************************)
EXTENDS MailJobs

AbortImport == Abort("import") /\ more' = {}

ImportStart ==
  /\ At("import", "idle")
  /\ more' = ListAllPages
  /\ GoTo("import", "page")
  /\ UNCHANGED <<jobVars, queueVars, ids, msg, faults>>

(* A plausible bug: the token of the next page is not followed.            *)
ImportFirstPageOnly(found) ==
  /\ At("import", "page") /\ found \subseteq more
  /\ found = {} => more = {}
  /\ Cardinality(found) <= PageSize
  /\ Lists("import", found)
  /\ more' = {}
  /\ GoTo("import", "wait")
  /\ UNCHANGED <<jobVars, queueVars, faults>>

ImportPage(found) ==
  /\ At("import", "page") /\ found \subseteq more
  /\ found = {} => more = {}
  /\ Cardinality(found) <= PageSize
  /\ Lists("import", found)
  /\ more' = more \ found
  /\ GoTo("import", "wait")
  /\ UNCHANGED <<jobVars, queueVars, faults>>

(* The import starts on a page whatever the depth of the queue.            *)
WaitForQueueDepthNever ==
  /\ At("import", "wait")
  /\ GoTo("import", "next") /\ UNCHANGED <<ids, msg, more, faults>>
  /\ UNCHANGED <<jobVars, queueVars>>

(* The comparison is turned round: a drained queue is waited for for ever. *)
WaitForFullQueue ==
  /\ At("import", "wait")
  /\ \/ depth > MaxQueueDepth /\ GoTo("import", "next")
     \/ depth <= MaxQueueDepth /\ UNCHANGED pc
  /\ UNCHANGED <<jobVars, queueVars, ids, msg, more, faults>>

(* The loop re-reads the depth every PollInterval while it is too large.   *)
WaitForQueueDepth ==
  /\ At("import", "wait")
  /\ \/ /\ depth <= MaxQueueDepth
        /\ GoTo("import", "next")
        /\ UNCHANGED <<ids, msg, more, faults>>
     \/ Fault("redis_error") /\ AbortImport
  /\ UNCHANGED <<jobVars, queueVars>>

ImportCheck(m) ==
  /\ At("import", "next") /\ m \in ids["import"]
  /\ \/ /\ ~HasJobForMessage(m)
        /\ msg' = [msg EXCEPT !["import"] = m]
        /\ GoTo("import", "insert")
        /\ UNCHANGED <<ids, more, faults>>
     \/ HasJobForMessage(m) /\ Drop("import", m) /\ UNCHANGED <<more, faults>>
     \/ Fault("db_error") /\ AbortImport
  /\ UNCHANGED <<jobVars, queueVars>>

ImportEnqueue ==
  /\ At("import", "insert")
  /\ LET m == msg["import"] IN
       \/ Insert("import", m) /\ UNCHANGED more
       \/ Duplicate(m) /\ Drop("import", m) /\ UNCHANGED <<jobVars, more, faults>>
       \/ Fault("db_error") /\ AbortImport /\ UNCHANGED jobVars
  /\ UNCHANGED queueVars

ImportPush ==
  \/ PushId("import") /\ UNCHANGED more
  \/ /\ At("import", "push") /\ Fault("lost_push")
     /\ AbortImport
     /\ UNCHANGED <<jobVars, queueVars>>

ImportPageDone ==
  /\ At("import", "next") /\ ids["import"] = {}
  /\ GoTo("import", IF more = {} THEN "idle" ELSE "page")
  /\ UNCHANGED <<jobVars, queueVars, ids, msg, more, faults>>

ImportStep ==
  \/ ImportStart \/ WaitForQueueDepth
  \/ \E found \in SUBSET Messages : ImportPage(found)
  \/ \E m \in Messages : ImportCheck(m)
  \/ ImportEnqueue \/ ImportPush \/ ImportPageDone

(* Interrupted or killed between two steps, or Gmail refuses a page.       *)
ImportInterrupted ==
  /\ "import" \in Producers /\ pc["import"] # "idle"
  /\ Fault("crash")
  /\ AbortImport
  /\ UNCHANGED <<jobVars, queueVars>>
=============================================================================
