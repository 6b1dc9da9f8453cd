---------------------------- MODULE MCRateLimiter ----------------------------
(* Two clients; a window of 3 ticks and a budget of 2. *)
EXTENDS RateLimiter
CONSTANTS a, b
TwoKeys == {a, b}

\* Prune is the filter of the source, on times in any order.
ASSUME PruneIsFilter ==
    \A n \in 0..4 : \A stamps \in [1..n -> 1..4], t \in 1..5, w \in 1..3 :
        Prune(stamps, t, w) = SelectSeq(stamps, LAMBDA s : s + w > t /\ s <= t)
=============================================================================
