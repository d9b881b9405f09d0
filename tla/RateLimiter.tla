---------------------------- MODULE RateLimiter -----------------------------
(***************************************************************************)
(* The token buckets in front of the demo endpoints: one bucket per        *)
(* client, and one global bucket for /flood.  Tokens refill lazily, when   *)
(* Allow is called.  A bucket's mutex makes each call of Allow one step.   *)
(*                                                                         *)
(* Time is counted in ticks and tokens in the ticks that earn them, so one *)
(* token is Interval and the float arithmetic of the code is exact.        *)
(***************************************************************************)
EXTENDS Naturals

CONSTANTS Keys,       \* clients, or "global"
          Interval,   \* ticks that earn one token
          Burst,      \* tokens a bucket holds
          MaxTime     \* bound on the clock

ASSUME RateLimiterAssumption ==
  Interval \in Nat \ {0} /\ Burst \in Nat \ {0} /\ MaxTime \in Nat

VARIABLES now,        \* time.Now()
          known,      \* the keys with a bucket
          tokens,     \* per key, its tokens
          lastSeen,   \* per key, when they were last counted
          granted,    \* per key, when its last call was granted
          opened,     \* per key, when somebody began to count its calls
          spent       \* per key, the tokens it has been granted since then

vars == <<now, known, tokens, lastSeen, granted, opened, spent>>

Capacity == Burst * Interval

Init ==
  /\ now = 0
  /\ known = {}
  /\ tokens = [k \in Keys |-> 0] /\ lastSeen = [k \in Keys |-> 0]
  /\ granted = [k \in Keys |-> 0]
  /\ opened = [k \in Keys |-> 0] /\ spent = [k \in Keys |-> 0]

(* A plausible bug: the refill is not capped.                              *)
UncappedRefill(k) == tokens[k] + (now - lastSeen[k])

Refill(k) ==
  LET earned == tokens[k] + (now - lastSeen[k])
  IN  IF earned > Capacity THEN Capacity ELSE earned

Grant(k, left) ==
  /\ tokens' = [tokens EXCEPT ![k] = left - Interval]
  /\ spent' = [spent EXCEPT ![k] = @ + Interval]
  /\ granted' = [granted EXCEPT ![k] = now]

(* The first call of a key makes a full bucket.                            *)
AllowFirst(k) ==
  /\ k \notin known
  /\ known' = known \cup {k}
  /\ lastSeen' = [lastSeen EXCEPT ![k] = now]
  /\ Grant(k, Capacity)
  /\ UNCHANGED <<now, opened>>

Allow(k) ==
  /\ k \in known
  /\ lastSeen' = [lastSeen EXCEPT ![k] = now]
  /\ Refill(k) >= Interval
  /\ Grant(k, Refill(k))
  /\ UNCHANGED <<now, known, opened>>

(* A plausible bug: a refused call restarts the wait for the next token.   *)
DenyForgetsRefill(k) ==
  /\ k \in known
  /\ Refill(k) < Interval
  /\ lastSeen' = [lastSeen EXCEPT ![k] = now]
  /\ UNCHANGED <<now, known, tokens, granted, opened, spent>>

(* A refused call counts the tokens too: 429.                              *)
Deny(k) ==
  /\ k \in known
  /\ Refill(k) < Interval
  /\ lastSeen' = [lastSeen EXCEPT ![k] = now]
  /\ tokens' = [tokens EXCEPT ![k] = Refill(k)]
  /\ UNCHANGED <<now, known, granted, opened, spent>>

Tick ==
  /\ now < MaxTime
  /\ now' = now + 1
  /\ UNCHANGED <<known, tokens, lastSeen, granted, opened, spent>>

(* Not in the code: an observer begins to count a key's calls, at any time. *)
StartCounting(k) ==
  /\ opened' = [opened EXCEPT ![k] = now]
  /\ spent' = [spent EXCEPT ![k] = 0]
  /\ UNCHANGED <<now, known, tokens, lastSeen, granted>>

Next ==
  \/ Tick
  \/ \E k \in Keys : AllowFirst(k) \/ Allow(k) \/ Deny(k) \/ StartCounting(k)

Spec == Init /\ [][Next]_vars

-----------------------------------------------------------------------------
(* The types of the clock, the buckets and the counts.                     *)
TypeOK ==
  /\ now \in Nat /\ known \subseteq Keys
  /\ tokens \in [Keys -> Nat] /\ lastSeen \in [Keys -> Nat]
  /\ opened \in [Keys -> Nat] /\ spent \in [Keys -> Nat]
  /\ \A k \in Keys : lastSeen[k] <= now /\ opened[k] <= now

(* In any stretch of time, wherever it starts, a key is granted at most    *)
(* Burst calls and one more per Interval (ratelimit.go:35-58): 5 and 1/s   *)
(* per client, and one flood plus one per minute.                          *)
RateBounded == \A k \in Keys : spent[k] <= Capacity + (now - opened[k])

(* No client is locked out: a call is refused only within one Interval of  *)
(* the last one that was granted, however often the client calls in        *)
(* between (ratelimit.go:46-55).                                           *)
PatienceRewarded ==
  [][\A k \in known :
       lastSeen'[k] # lastSeen[k] /\ spent'[k] = spent[k]
         => now - granted[k] < Interval]_vars
=============================================================================
