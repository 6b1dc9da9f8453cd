------------------------------- MODULE JobPool -------------------------------
(***************************************************************************)
(* What scripts/worker-pool.ts promises a user whose jobs push jobs: an    *)
(* accepted job waits, runs once and settles; at most Limit run at a time; *)
(* the pool shuts when it is idle, halted or closed, and is done when it   *)
(* is shut and nothing waits or runs.  WorkerPool implements it, and       *)
(* SitemapCrawl is built on it.                                            *)
(***************************************************************************)
EXTENDS Naturals, FiniteSets

CONSTANTS Job, Limit

VARIABLES
    pending,    \* accepted, not started
    running,    \* started, not settled
    state       \* "open", "shut" (push is a no-op), "halted", "done"

poolVars == <<pending, running, state>>

PoolInit == pending = {} /\ running = {} /\ state = "open"

\* push(), for a set of jobs that a job or the user pushes at a stroke.
AcceptAll(new) ==
    pending' = IF state = "open" THEN pending \cup new ELSE pending

Start(j) ==
    /\ j \in pending /\ Cardinality(running) < Limit
    /\ pending' = pending \ {j}
    /\ running' = running \cup {j}
    /\ UNCHANGED state

\* A job settles with nothing else pending or running: the pool shuts itself.
IdleAfter(j, waiting) == waiting = {} /\ running = {j}

\* A job settles having pushed the jobs in new.
Settle(j, new) ==
    /\ j \in running
    /\ AcceptAll(new)
    /\ running' = running \ {j}
    /\ state' = IF state = "open" /\ IdleAfter(j, pending') THEN "shut" ELSE state

\* A failure reaches a limit: the queue is dropped, jobs already handed to a
\* worker are not.
Halt(j) ==
    /\ j \in running
    /\ running' = running \ {j}
    /\ pending' \in SUBSET pending
    /\ state' = "halted"

Close ==
    /\ state = "open"
    /\ state' = "shut"
    /\ UNCHANGED <<pending, running>>

Finish ==
    /\ state \in {"shut", "halted"} /\ pending = {} /\ running = {}
    /\ state' = "done"
    /\ UNCHANGED <<pending, running>>

PoolNext ==
    \/ Close \/ Finish
    \/ \E j \in Job : Start(j) \/ Settle(j, {}) \/ Halt(j)
    \/ \E j \in Job : AcceptAll({j}) /\ UNCHANGED <<running, state>>

PoolSpec == PoolInit /\ [][PoolNext]_poolVars

=============================================================================
