----------------------------- MODULE RateLimiter -----------------------------
(***************************************************************************)
(* IpRateLimiter of util/rate-limit.ts: at most MaxRequests per key in any *)
(* window, in the memory of one process.  check() is synchronous, so calls *)
(* do not overlap; what moves between them is the clock, which is taken to *)
(* be monotonic.                                                           *)
(***************************************************************************)
EXTENDS RequestBudget

CONSTANTS
    MaxTime,        \* bound: ticks of the clock
    MaxSteps        \* bound: the clock may jump this far at once

ASSUME RateLimiterAssumption ==
    /\ MaxRequests \in Nat \ {0} /\ WindowMs \in Nat \ {0}
    /\ MaxTime \in Nat \ {0} /\ MaxSteps \in Nat

vars == <<now, hits, passed, retryAt>>

TypeOK ==
    /\ now \in 1..MaxTime
    /\ hits \in [Keys -> Seq(1..MaxTime)]
    /\ \A k \in Keys : Len(hits[k]) <= MaxRequests
    /\ passed \in [Keys -> Seq(1..MaxTime)]
    /\ retryAt \in [Keys -> Nat]

Init ==
    /\ now = 1
    /\ hits = [k \in Keys |-> <<>>]
    /\ passed = [k \in Keys |-> <<>>]
    /\ retryAt = [k \in Keys |-> 0]

Check(k) ==
    LET result == RecordHit(hits[k], now, WindowMs, MaxRequests) IN
    /\ hits' = [hits EXCEPT ![k] = result.stamps]
    /\ passed' = IF result.allowed THEN [passed EXCEPT ![k] = Append(@, now)] ELSE passed
    /\ retryAt' = [retryAt EXCEPT ![k] = IF result.allowed THEN 0 ELSE now + result.retryAfter]
    /\ UNCHANGED now

\* reset(key), or reset() for all keys; their budget starts anew.
Reset(ks) ==
    /\ hits' = [k \in Keys |-> IF k \in ks THEN <<>> ELSE hits[k]]
    /\ passed' = [k \in Keys |-> IF k \in ks THEN <<>> ELSE passed[k]]
    /\ retryAt' = [k \in Keys |-> IF k \in ks THEN 0 ELSE retryAt[k]]
    /\ UNCHANGED now

Tick ==
    /\ now < MaxTime
    /\ \E d \in 1..MaxSteps : now + d <= MaxTime /\ now' = now + d
    /\ UNCHANGED <<hits, passed, retryAt>>

Next == Tick \/ Reset(Keys) \/ \E k \in Keys : Check(k) \/ Reset({k})

Spec == Init /\ [][Next]_vars

=============================================================================
