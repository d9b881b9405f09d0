------------------------- MODULE RateLimiterProofs --------------------------
(***************************************************************************)
(* The token bucket keeps its rate, and no refill is lost, for every rate, *)
(* burst and number of clients.                                            *)
(***************************************************************************)
EXTENDS RateLimiter, TLAPS

(* What a key could still be granted now.                                  *)
Available(k) == IF k \in known THEN Refill(k) ELSE Capacity

(* The inductive form of RateBounded: granted and still available tokens   *)
(* together.                                                               *)
BucketInv ==
  /\ TypeOK
  /\ \A k \in Keys :
       spent[k] + Available(k) <= Capacity + (now - opened[k])

(* With that of PatienceRewarded: what is earned since the last grant is   *)
(* kept.                                                                   *)
EarningsKept ==
  /\ BucketInv
  /\ granted \in [Keys -> Nat]
  /\ \A k \in known :
       granted[k] <= lastSeen[k] /\ lastSeen[k] - granted[k] <= tokens[k]

(* A bucket holds at least one token.                                      *)
LEMMA CapacityFact == Capacity \in Nat /\ Interval <= Capacity
  <1>1. Interval \in Nat /\ Burst \in Nat /\ 1 <= Burst
    BY RateLimiterAssumption
  <1>2. Capacity \in Nat
    BY <1>1 DEF Capacity
  <1>3. Interval <= Burst * Interval
    BY <1>1, Z3
  <1> QED BY <1>2, <1>3 DEF Capacity

(* What a refill yields.                                                   *)
LEMMA RefillFact ==
  ASSUME EarningsKept, NEW k \in Keys
  PROVE  /\ Refill(k) \in Nat /\ Refill(k) <= Capacity
         /\ Refill(k) <= tokens[k] + (now - lastSeen[k])
         /\ Refill(k) < Capacity => Refill(k) = tokens[k] + (now - lastSeen[k])
  BY CapacityFact DEF EarningsKept, BucketInv, TypeOK, Refill

LEMMA InitBuckets == ASSUME Init PROVE EarningsKept
  BY CapacityFact DEF Init, EarningsKept, BucketInv, TypeOK, Available

LEMMA BucketStep ==
  ASSUME EarningsKept, [Next]_vars
  PROVE  EarningsKept'
  <1>0. /\ TypeOK /\ granted \in [Keys -> Nat] /\ Interval \in Nat
        /\ \A k \in Keys : spent[k] + Available(k) <= Capacity + (now - opened[k])
        /\ \A k \in known :
             granted[k] <= lastSeen[k] /\ lastSeen[k] - granted[k] <= tokens[k]
    BY RateLimiterAssumption DEF EarningsKept, BucketInv
  <1>1. CASE Tick
    BY <1>0, <1>1, CapacityFact
       DEF Tick, EarningsKept, BucketInv, TypeOK, Available, Refill
  <1>2. ASSUME NEW k \in Keys, AllowFirst(k) PROVE EarningsKept'
    BY <1>0, <1>2, CapacityFact
       DEF AllowFirst, Grant, EarningsKept, BucketInv, TypeOK, Available, Refill
  <1>3. ASSUME NEW k \in Keys, Allow(k) PROVE EarningsKept'
    BY <1>0, <1>3, CapacityFact, RefillFact
       DEF Allow, Grant, EarningsKept, BucketInv, TypeOK, Available, Refill
  <1>4. ASSUME NEW k \in Keys, Deny(k) PROVE EarningsKept'
    BY <1>0, <1>4, CapacityFact, RefillFact
       DEF Deny, EarningsKept, BucketInv, TypeOK, Available, Refill
  <1>5. ASSUME NEW k \in Keys, StartCounting(k) PROVE EarningsKept'
    BY <1>0, <1>5, CapacityFact, RefillFact
       DEF StartCounting, EarningsKept, BucketInv, TypeOK, Available, Refill
  <1>6. CASE UNCHANGED vars
    BY <1>0, <1>6
       DEF vars, EarningsKept, BucketInv, TypeOK, Available, Refill
  <1> QED BY <1>1, <1>2, <1>3, <1>4, <1>5, <1>6 DEF Next

(* In any stretch of time a key is granted at most its burst and one call  *)
(* per interval (ratelimit.go:35-58).                                      *)
THEOREM RateIsBounded == Spec => []RateBounded
  <1>1. EarningsKept => RateBounded
    <2> SUFFICES ASSUME EarningsKept, NEW k \in Keys
                 PROVE  spent[k] <= Capacity + (now - opened[k])
      BY DEF RateBounded
    <2>1. Available(k) \in Nat
      BY CapacityFact, RefillFact DEF Available
    <2> QED BY <2>1, CapacityFact DEF EarningsKept, BucketInv, TypeOK
  <1> QED BY <1>1, InitBuckets, BucketStep, PTL DEF Spec

(* A call is refused only within one interval of the last granted one      *)
(* (ratelimit.go:46-55).                                                   *)
THEOREM PatienceIsRewarded == Spec => PatienceRewarded
  <1>1. ASSUME EarningsKept, [Next]_vars, NEW k \in known,
               lastSeen'[k] # lastSeen[k], spent'[k] = spent[k]
        PROVE  now - granted[k] < Interval
    <2>0. k \in Keys /\ TypeOK /\ Interval \in Nat \ {0}
      BY <1>1, RateLimiterAssumption DEF EarningsKept, BucketInv, TypeOK
    <2>1. Deny(k)
      BY <1>1, <2>0
         DEF Next, vars, Tick, AllowFirst, Allow, Grant, Deny, StartCounting, TypeOK
    <2> QED BY <1>1, <2>0, <2>1, RefillFact, CapacityFact
            DEF Deny, EarningsKept, TypeOK
  <1>2. EarningsKept /\ [Next]_vars =>
          [\A k \in known :
             lastSeen'[k] # lastSeen[k] /\ spent'[k] = spent[k]
               => now - granted[k] < Interval]_vars
    BY <1>1
  <1> QED BY <1>2, InitBuckets, BucketStep, PTL DEF Spec, PatienceRewarded
=============================================================================
