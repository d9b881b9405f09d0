------------------------------- MODULE Faults -------------------------------
(***************************************************************************)
(* What goes wrong around the system.  A model enables some kinds of       *)
(* fault and bounds how many happen:                                       *)
(*   "crash"       a process is killed between two steps                   *)
(*   "lost_push"   a producer's push fails, or it dies before the push     *)
(*   "shutdown"    SIGTERM cancels the context of a worker                 *)
(*   "redis_error" a Redis call returns an error                           *)
(*   "db_error"    a PostgreSQL call returns an error                      *)
(*   "claim_reply" the claim commits but its reply is lost                 *)
(*   "expiry"      heartbeat writes fail until the key of a live worker    *)
(*                 expires                                                 *)
(*   "slow_sweep"  a sweep stalls for longer than the heartbeat TTL        *)
(*   "grant_ended" Google revokes or expires a grant of the account        *)
(*   "user_deleted" the operator deletes the row of a user                 *)
(*   "trashed"     the user moves a folder of the archive to the trash     *)
(***************************************************************************)
EXTENDS Naturals

CONSTANTS Faults,       \* the kinds of fault that may happen
          MaxFaults     \* bound on their number in one behaviour

FaultKinds == {"crash", "lost_push", "shutdown", "redis_error", "db_error",
               "claim_reply", "expiry", "slow_sweep", "grant_ended",
               "user_deleted", "trashed"}

ASSUME FaultsAssumption == Faults \subseteq FaultKinds /\ MaxFaults \in Nat

VARIABLE faults         \* how many have happened

FaultsTypeOK == faults \in Nat

Fault(kind) == kind \in Faults /\ faults < MaxFaults /\ faults' = faults + 1
=============================================================================
