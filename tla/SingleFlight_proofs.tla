------------------------ MODULE SingleFlight_proofs ------------------------
(* Facts about the lock that the proofs of every component using it cite.  *)
EXTENDS SingleFlight, TLAPS

(* The commands of the lock keep it in its type.                           *)
LEMMA LockTypes ==
    ASSUME NEW l \in LockState, NEW t \in Token, NEW v
    PROVE  /\ AfterAcquire(l, t) \in LockState
           /\ AfterClaim(l, t) \in LockState
           /\ AfterRelease(l, v) \in LockState
           /\ AfterTick(l) \in LockState
<1>1. FreeLock \in LockState
  BY LockTtlAssumption DEF FreeLock, LockState, LockValue, NoValue
<1>2. Held(Queued(t)) \in LockState /\ Held(Running(t)) \in LockState
  BY LockTtlAssumption DEF Held, Queued, Running, LockState, LockValue
<1>3. l.ttl > 1 => [l EXCEPT !.ttl = @ - 1] \in LockState
  BY LockTtlAssumption DEF LockState
<1>4. AfterAcquire(l, t) \in LockState
  BY <1>2 DEF AfterAcquire
<1>5. AfterClaim(l, t) \in LockState
  BY <1>2 DEF AfterClaim
<1>6. AfterRelease(l, v) \in LockState
  BY <1>1 DEF AfterRelease
<1>7. AfterTick(l) \in LockState
  BY <1>1, <1>3, LockTtlAssumption DEF AfterTick, LockState
<1> QED
  BY <1>4, <1>5, <1>6, <1>7

(* The values of different holders, and of no holder, are different.       *)
LEMMA LockValues ==
    ASSUME NEW s \in Token, NEW t \in Token
    PROVE  /\ Queued(s) # Running(t)
           /\ Queued(s) # NoValue
           /\ Running(s) # NoValue
           /\ Queued(s) = Queued(t) => s = t
           /\ Running(s) = Running(t) => s = t
BY DEF Queued, Running, NoValue
=============================================================================
