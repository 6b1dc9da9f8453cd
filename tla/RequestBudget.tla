---------------------------- MODULE RequestBudget ----------------------------
(***************************************************************************)
(* What IpRateLimiter (util/rate-limit.ts) keeps and has answered, and     *)
(* what its clients may rely on.  RateLimiter says how it changes.         *)
(***************************************************************************)
EXTENDS SlidingWindow

CONSTANTS
    Keys,           \* client addresses
    MaxRequests, WindowMs

VARIABLES
    hits,       \* the map from key to timestamps; <<>> when there is no entry
    (* history *)
    passed,     \* when each key's requests were allowed
    retryAt     \* what the last answer promised: a time, or 0 after "allowed"

\* No window of length WindowMs, wherever it begins, holds more than
\* MaxRequests allowed requests of one key.
WithinBudget ==
    \A k \in Keys : \A i \in 1..Len(passed[k]) :
        Cardinality({j \in i..Len(passed[k]) : passed[k][j] < passed[k][i] + WindowMs})
            <= MaxRequests

\* Retry-After is exact: a blocked key stays blocked until then, and a request
\* at that moment is allowed.
RetryAfterIsExact ==
    \A k \in Keys : retryAt[k] # 0 =>
        (RecordHit(hits[k], now, WindowMs, MaxRequests).allowed <=> now >= retryAt[k])

=============================================================================
