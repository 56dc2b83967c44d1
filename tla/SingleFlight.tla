---------------------------- MODULE SingleFlight ----------------------------
(***************************************************************************)
(* The value of one Redis key used as a single-flight lock, and what the   *)
(* commands of forestry/services/single_flight.py do to it.                *)
(*                                                                         *)
(* The key holds nothing, the random token of a dispatcher (a reservation  *)
(* made by acquire) or "running:" followed by that token (made by          *)
(* claim_queued_or_recover).  Every write renews the key's time to live;   *)
(* the command scripts are atomic, so each is one operator on the lock.    *)
(***************************************************************************)
EXTENDS Naturals

CONSTANTS
    Token,      \* the random tokens of lock objects
    NoToken,    \* stands for the token of a key that does not exist
    LockTtl     \* FORESTIQ_SINGLE_FLIGHT_LOCK_TTL_SECONDS, in time units

ASSUME TokenAssumption == NoToken \notin Token
ASSUME LockTtlAssumption == LockTtl \in Nat \ {0}

NoValue    == [mode |-> "free", token |-> NoToken]
Queued(t)  == [mode |-> "queued", token |-> t]
Running(t) == [mode |-> "running", token |-> t]

LockValue == {NoValue} \cup [mode : {"queued", "running"}, token : Token]
LockState == [value : LockValue, ttl : 0 .. LockTtl]

FreeLock == [value |-> NoValue, ttl |-> 0]
Held(v)  == [value |-> v, ttl |-> LockTtl]

(* SET key token NX EX ttl *)
CanAcquireWithoutNX(l) == l \in LockState   \* mutant: SET without NX
CanAcquire(l)      == l.value = NoValue
AfterAcquire(l, t) == IF CanAcquire(l) THEN Held(Queued(t)) ELSE l

(* The Lua script that exchanges the reservation of t for its running      *)
(* value, or takes a key that no longer exists.                            *)
CanClaimTwice(l, t) == l.value \in {Queued(t), Running(t), NoValue}   \* mutant
CanClaim(l, t)   == l.value \in {Queued(t), NoValue}
AfterClaim(l, t) == IF CanClaim(l, t) THEN Held(Running(t)) ELSE l

(* The Lua script that deletes the key only while it holds owned.          *)
AfterReleaseUnchecked(l, owned) == FreeLock   \* mutant: DEL without the check
AfterRelease(l, owned) == IF l.value = owned THEN FreeLock ELSE l

(* One time unit of the key's expiry.                                      *)
AfterTickWithoutExpiry(l) == l   \* mutant: SET without EX
AfterTickPastZero(l) == [l EXCEPT !.ttl = @ - 1]   \* mutant: never removed
AfterTick(l) == IF l.ttl <= 1 THEN FreeLock ELSE [l EXCEPT !.ttl = @ - 1]
=============================================================================
