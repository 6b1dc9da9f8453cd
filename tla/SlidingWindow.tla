--------------------------- MODULE SlidingWindow ---------------------------
(***************************************************************************)
(* The sliding-window arithmetic of util/rate-limit.ts, shared by the      *)
(* in-memory limiter and the persistent throttle, and the clock that both  *)
(* go by.  A time is a natural number of ticks.                            *)
(***************************************************************************)
EXTENDS Naturals, Sequences, FiniteSets

VARIABLE now

\* timestamps.filter(...): the elements at the given indices, in their order.
ElementsAt(stamps, indices) ==
    [n \in 1..Cardinality(indices) |->
        stamps[CHOOSE i \in indices : Cardinality({j \in indices : j <= i}) = n]]

\* pruneSlidingWindowTimestamps: keeps now - window < t <= now.
PruneKeepsBoundary(stamps, t, window) ==           \* mutant
    ElementsAt(stamps, {i \in 1..Len(stamps) : stamps[i] + window >= t /\ stamps[i] <= t})
Prune(stamps, t, window) ==
    ElementsAt(stamps, {i \in 1..Len(stamps) : stamps[i] + window > t /\ stamps[i] <= t})

\* recordSlidingWindowHit: blocked when the window is full, and for how long;
\* what is kept is younger than the window, so that is at least one tick.
HitsLate(stamps, t, window, max) ==                \* mutant
    LET kept == Prune(stamps, t, window) IN
    IF Len(kept) > max
    THEN [allowed |-> FALSE, retryAfter |-> Head(kept) + window - t, stamps |-> kept]
    ELSE [allowed |-> TRUE, retryAfter |-> 0, stamps |-> Append(kept, t)]
HitsLastOut(stamps, t, window, max) ==             \* mutant
    LET kept == Prune(stamps, t, window) IN
    IF Len(kept) >= max
    THEN [allowed |-> FALSE, retryAfter |-> kept[Len(kept)] + window - t, stamps |-> kept]
    ELSE [allowed |-> TRUE, retryAfter |-> 0, stamps |-> Append(kept, t)]
RecordHit(stamps, t, window, max) ==
    LET kept == Prune(stamps, t, window) IN
    IF Len(kept) >= max
    THEN [allowed |-> FALSE, retryAfter |-> Head(kept) + window - t, stamps |-> kept]
    ELSE [allowed |-> TRUE, retryAfter |-> 0, stamps |-> Append(kept, t)]

=============================================================================
