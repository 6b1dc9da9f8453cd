----------------------------- MODULE WorkerPool -----------------------------
(***************************************************************************)
(* scripts/worker-pool.ts: NumWorkers workers take jobs from one queue,    *)
(* pause between jobs, and stop when the queue is drained, when the pool   *)
(* is closed or when too many jobs have failed.                            *)
(*                                                                         *)
(* The pool's own callbacks are microtasks, kept in the order in which     *)
(* JavaScript runs them (micro).  Timers, pushes from outside, close() and *)
(* the input/output that jobs wait for are taken only when micro is empty. *)
(***************************************************************************)
EXTENDS Naturals, Sequences, FiniteSets

CONSTANTS
    NumWorkers,     \* options.workers
    Jobs,           \* each is pushed at most once
    NoJob,          \* the null a worker gets when the pool is closed
    Roots,          \* jobs pushed by the pool's user
    Later,          \* jobs the user passes to pushDelayed
    Children,       \* the jobs a job pushes before it succeeds
    MaxFailures,    \* options.maxFailures
    MaxConsecutive, \* options.maxConsecutiveFailures
    Delays,         \* whether options.delayMs > 0: delayed is one of them
    MaxHops         \* bound: microtasks a job may take before it settles

Workers == 1..NumWorkers

ASSUME WorkerPoolAssumption ==
    /\ NumWorkers \in Nat \ {0}
    /\ NoJob \notin Jobs
    /\ Roots \subseteq Jobs /\ Later \subseteq Jobs
    /\ Children \in [Jobs -> Seq(Jobs)]
    /\ MaxFailures \in Nat \ {0} /\ MaxConsecutive \in Nat \ {0}
    /\ Delays \subseteq BOOLEAN
    /\ MaxHops \in Nat

\* A job is one call of push(): by the user, by a timer, or by one other job.
ASSUME PushedOnce ==
    /\ Roots \cap Later = {}
    /\ \A p \in Jobs : \A n \in 1..Len(Children[p]) :
          /\ Children[p][n] \notin Roots \cup Later
          /\ \A q \in Jobs : \A k \in 1..Len(Children[q]) :
                Children[p][n] = Children[q][k] => p = q /\ n = k

VARIABLES
    delayed,    \* does a worker pause between two jobs?
    (* the pool's fields *)
    queue, waiters, closed, halted, activeCount, workerCount,
    failureCount, consecutiveFailures,
    done,       \* what donePromise led to: "no", or the callback dispatched
    (* the event loop *)
    micro,      \* queued microtasks
    pc,         \* where each worker is
    job,        \* the job it is running, or ran last
    timers,     \* jobs whose pushDelayed timer is running
    closeCalled,\* the user has called close()
    (* history *)
    offered,    \* jobs handed to push() or pushDelayed() so far
    accepted,   \* jobs push() put on the queue or gave to a waiter
    runs        \* how often each job was started

pool == <<queue, waiters, closed, halted, activeCount, workerCount,
          failureCount, consecutiveFailures, done>>
vars == <<delayed, pool, micro, pc, job, timers, closeCalled, offered, accepted, runs>>

\* start: a worker's getNext() has resolved.  work: a job continues, pushing
\* its children from number "at" on.  then, catch, finally: the job's chain.
Tasks ==
    [kind : {"start"}, w : Workers, job : Jobs \cup {NoJob}]
    \cup [kind : {"work"}, w : Workers, ok : BOOLEAN, hops : 0..MaxHops, at : Nat \ {0}]
    \cup [kind : {"then", "catch", "finally"}, w : Workers, ok : BOOLEAN]

TypeOK ==
    /\ delayed \in Delays
    /\ queue \in Seq(Jobs) /\ waiters \in Seq(Workers)
    /\ closed \in BOOLEAN /\ halted \in BOOLEAN
    /\ activeCount \in 0..NumWorkers /\ workerCount \in 0..NumWorkers
    /\ failureCount \in Nat /\ consecutiveFailures \in Nat
    /\ done \in {"no", "finished", "halted"}
    /\ micro \in Seq(Tasks)
    /\ pc \in [Workers -> {"new", "waiting", "handed", "running", "settling",
                           "pausing", "exited"}]
    /\ job \in [Workers -> Jobs \cup {NoJob}]
    /\ timers \subseteq Later /\ closeCalled \in BOOLEAN
    /\ offered \subseteq Jobs /\ accepted \subseteq Jobs
    /\ runs \in [Jobs -> Nat]

Init ==
    /\ delayed \in Delays
    /\ queue = <<>> /\ waiters = <<>> /\ closed = FALSE /\ halted = FALSE
    /\ activeCount = 0 /\ workerCount = 0
    /\ failureCount = 0 /\ consecutiveFailures = 0 /\ done = "no"
    /\ micro = <<>>
    /\ pc = [w \in Workers |-> "new"]
    /\ job = [w \in Workers |-> NoJob]
    /\ timers = {} /\ closeCalled = FALSE
    /\ offered = {} /\ accepted = {}
    /\ runs = [j \in Jobs |-> 0]

Start(w, j) == [kind |-> "start", w |-> w, job |-> j]

-----------------------------------------------------------------------------
(* The pool's methods.  Each takes the microtasks already queued, rest, and *)
(* says what becomes of the queue, the waiters and the microtasks.          *)

\* push(): dropped when closed, given to a waiting worker, or queued.
Push(j, rest) ==
    /\ offered' = offered \cup {j}
    /\ IF closed
       THEN micro' = rest /\ UNCHANGED <<queue, waiters, pc, accepted>>
       ELSE /\ accepted' = accepted \cup {j}
            /\ IF waiters # <<>>
               THEN /\ micro' = Append(rest, Start(Head(waiters), j))
                    /\ waiters' = Tail(waiters)
                    /\ pc' = [pc EXCEPT ![Head(waiters)] = "handed"]
                    /\ UNCHANGED queue
               ELSE queue' = Append(queue, j) /\ micro' = rest /\ UNCHANGED <<waiters, pc>>

\* getNext(): the queue first, then null if closed, else wait.
GetNext(w, rest) ==
    IF queue # <<>>
    THEN /\ micro' = Append(rest, Start(w, Head(queue)))
         /\ queue' = Tail(queue)
         /\ pc' = [pc EXCEPT ![w] = "handed"]
         /\ UNCHANGED waiters
    ELSE IF closed
    THEN /\ micro' = Append(rest, Start(w, NoJob))
         /\ pc' = [pc EXCEPT ![w] = "handed"]
         /\ UNCHANGED <<queue, waiters>>
    ELSE /\ waiters' = Append(waiters, w)
         /\ pc' = [pc EXCEPT ![w] = "waiting"]
         /\ micro' = rest
         /\ UNCHANGED queue

\* closed = true and maybeWakeWaiters(), the queue becoming q.
CloseWithoutWaking(q, rest) ==                       \* mutant
    closed' = TRUE /\ queue' = q /\ micro' = rest /\ UNCHANGED <<waiters, pc>>
Shut(q, rest) ==
    /\ closed' = TRUE
    /\ queue' = q
    /\ IF q = <<>>
       THEN /\ micro' = rest \o [i \in 1..Len(waiters) |-> Start(waiters[i], NoJob)]
            /\ waiters' = <<>>
            /\ pc' = [w \in Workers |-> IF pc[w] = "waiting" THEN "handed" ELSE pc[w]]
       ELSE micro' = rest /\ UNCHANGED <<waiters, pc>>

-----------------------------------------------------------------------------
(* Events from outside *)

Quiet == micro = <<>>

\* run(): every worker asks for its first job.
Run ==
    /\ Quiet /\ \A w \in Workers : pc[w] = "new"
    /\ workerCount' = NumWorkers
    /\ LET n == IF Len(queue) < NumWorkers THEN Len(queue) ELSE NumWorkers
           first(w) == IF w <= n THEN queue[w] ELSE NoJob
           asking == IF closed THEN NumWorkers ELSE n
       IN  /\ micro' = [w \in 1..asking |-> Start(w, first(w))]
           /\ queue' = SubSeq(queue, n + 1, Len(queue))
           /\ waiters' = [i \in 1..(NumWorkers - asking) |-> asking + i]
           /\ pc' = [w \in Workers |-> IF w <= asking THEN "handed" ELSE "waiting"]
    /\ UNCHANGED <<closed, halted, activeCount, failureCount, consecutiveFailures, done,
                   timers, job, closeCalled, offered, accepted, runs>>

UserPushes(j) ==
    /\ Quiet /\ j \in Roots \ offered
    /\ Push(j, micro)
    /\ UNCHANGED <<closed, halted, activeCount, workerCount, failureCount,
                   consecutiveFailures, done, timers, job, closeCalled, runs>>

\* pushDelayed(): a no-op when already closed, else a timer.
UserPushesLater(j) ==
    /\ Quiet /\ j \in Later \ (offered \cup timers) /\ ~closed
    /\ timers' = timers \cup {j}
    /\ UNCHANGED <<pool, micro, pc, job, closeCalled, offered, accepted, runs>>

PushTimerFires(j) ==
    /\ Quiet /\ j \in timers
    /\ timers' = timers \ {j}
    /\ Push(j, micro)
    /\ UNCHANGED <<closed, halted, activeCount, workerCount, failureCount,
                   consecutiveFailures, done, job, closeCalled, runs>>

UserCloses ==
    /\ Quiet /\ ~closeCalled
    /\ closeCalled' = TRUE
    /\ Shut(queue, micro)
    /\ UNCHANGED <<halted, activeCount, workerCount, failureCount, consecutiveFailures,
                   done, job, timers, offered, accepted, runs>>

\* The pause between two jobs is over.
DelayOver(w) ==
    /\ Quiet /\ pc[w] = "pausing"
    /\ GetNext(w, micro)
    /\ UNCHANGED <<closed, halted, activeCount, workerCount, failureCount,
                   consecutiveFailures, done, timers, job, closeCalled, offered, accepted, runs>>

Working(w) == \E i \in 1..Len(micro) : micro[i].kind = "work" /\ micro[i].w = w

\* What a job waits for arrives: it continues and will succeed or fail, h
\* microtasks later.  One event may resume several jobs, so this is also
\* possible while other jobs that were resumed by it are still queued.
JobResumes(w, ok, h) ==
    /\ pc[w] = "running" /\ ~Working(w)
    /\ \A i \in 1..Len(micro) : micro[i].kind = "work"
    /\ micro' = Append(micro, [kind |-> "work", w |-> w, ok |-> ok, hops |-> h, at |-> 1])
    /\ UNCHANGED <<pool, pc, timers, job, closeCalled, offered, accepted, runs>>

-----------------------------------------------------------------------------
(* Microtasks *)

Task(kind) == micro # <<>> /\ Head(micro).kind = kind

\* A worker got a job, or null: it starts the job, or leaves; the last one
\* to leave resolves donePromise, and dispatchDone picks the callback.
Starts ==
    /\ Task("start") /\ Head(micro).job # NoJob
    /\ LET t == Head(micro) IN
       /\ pc' = [pc EXCEPT ![t.w] = "running"]
       /\ job' = [job EXCEPT ![t.w] = t.job]
       /\ runs' = [runs EXCEPT ![t.job] = @ + 1]
    /\ activeCount' = activeCount + 1
    /\ micro' = Tail(micro)
    /\ UNCHANGED <<queue, waiters, closed, halted, workerCount, failureCount,
                   consecutiveFailures, done, timers, closeCalled, offered, accepted>>

DoneWithFirst == TRUE                                \* mutant
LastLeaves == workerCount = 1

Leaves ==
    /\ Task("start") /\ Head(micro).job = NoJob
    /\ pc' = [pc EXCEPT ![Head(micro).w] = "exited"]
    /\ workerCount' = workerCount - 1
    /\ done' = IF done = "no" /\ LastLeaves
               THEN (IF halted THEN "halted" ELSE "finished") ELSE done
    /\ micro' = Tail(micro)
    /\ UNCHANGED <<queue, waiters, closed, halted, activeCount, failureCount,
                   consecutiveFailures, timers, job, closeCalled, offered, accepted, runs>>

\* One synchronous piece of a job: hop, push the next child, or settle.
Works ==
    /\ Task("work")
    /\ LET t == Head(micro) IN
       IF t.hops > 0
       THEN /\ micro' = Append(Tail(micro), [t EXCEPT !.hops = @ - 1])
            /\ UNCHANGED <<queue, waiters, pc, offered, accepted>>
       ELSE IF t.ok /\ t.at <= Len(Children[job[t.w]])
       THEN Push(Children[job[t.w]][t.at], [micro EXCEPT ![1].at = @ + 1])
       ELSE /\ micro' = Append(Tail(micro), [kind |-> "then", w |-> t.w, ok |-> t.ok])
            /\ pc' = [pc EXCEPT ![t.w] = "settling"]
            /\ UNCHANGED <<queue, waiters, offered, accepted>>
    /\ UNCHANGED <<closed, halted, activeCount, workerCount, failureCount,
                   consecutiveFailures, done, timers, job, closeCalled, runs>>

\* The chain moves on: after then comes catch, after catch comes finally.
Onward(kind) == Append(Tail(micro), [Head(micro) EXCEPT !.kind = kind])

\* No job is queued and none but the settling one is active.
LastQueueOnly(q) == q = <<>>                         \* mutant
Drained(q) == q = <<>> /\ activeCount = 1

OneLess == activeCount - 1

Fulfilled ==
    /\ Task("then") /\ Head(micro).ok
    /\ consecutiveFailures' = 0
    /\ activeCount' = OneLess
    /\ IF Drained(queue) THEN Shut(queue, Onward("catch"))
       ELSE micro' = Onward("catch") /\ UNCHANGED <<queue, waiters, closed, pc>>
    /\ UNCHANGED <<halted, workerCount, failureCount, done, timers, job, closeCalled,
                   offered, accepted, runs>>

\* shouldStop(), with the failure just counted.
StopsLate ==                                         \* mutant
    failureCount >= MaxFailures \/ consecutiveFailures >= MaxConsecutive
ShouldStop ==
    \/ failureCount + 1 >= MaxFailures
    \/ consecutiveFailures + 1 >= MaxConsecutive

Rejected ==
    /\ Task("catch") /\ ~Head(micro).ok
    /\ failureCount' = failureCount + 1
    /\ consecutiveFailures' = consecutiveFailures + 1
    /\ halted' = (halted \/ ShouldStop)
    /\ activeCount' = OneLess
    /\ LET q == IF ShouldStop THEN <<>> ELSE queue IN
       IF ShouldStop \/ Drained(q) THEN Shut(q, Onward("finally"))
       ELSE micro' = Onward("finally") /\ UNCHANGED <<queue, waiters, closed, pc>>
    /\ UNCHANGED <<workerCount, done, timers, job, closeCalled, offered, accepted, runs>>

\* then() has no rejection handler, and catch() passes a success on.
PassesOn ==
    /\ \/ Task("then") /\ ~Head(micro).ok /\ micro' = Onward("catch")
       \/ Task("catch") /\ Head(micro).ok /\ micro' = Onward("finally")
    /\ UNCHANGED <<pool, pc, timers, job, closeCalled, offered, accepted, runs>>

\* finally(): the worker pauses, or goes on at once.
Finally ==
    /\ Task("finally")
    /\ IF delayed
       THEN /\ pc' = [pc EXCEPT ![Head(micro).w] = "pausing"]
            /\ micro' = Tail(micro)
            /\ UNCHANGED <<queue, waiters>>
       ELSE GetNext(Head(micro).w, Tail(micro))
    /\ UNCHANGED <<closed, halted, activeCount, workerCount, failureCount,
                   consecutiveFailures, done, timers, job, closeCalled, offered, accepted, runs>>

Microtask ==
    Starts \/ Leaves \/ Works \/ Fulfilled \/ Rejected \/ PassesOn \/ Finally

-----------------------------------------------------------------------------

Outside(j) == UserPushes(j) \/ UserPushesLater(j) \/ PushTimerFires(j)
JobEnds(w) == \E ok \in BOOLEAN, h \in 0..MaxHops : JobResumes(w, ok, h)

Next ==
    /\ \/ Run \/ UserCloses \/ Microtask
       \/ \E j \in Jobs : Outside(j)
       \/ \E w \in Workers : DelayOver(w) \/ JobEnds(w)
    /\ UNCHANGED delayed

\* Microtasks run, timers fire and jobs settle.  The user owes nothing: he
\* need not push, close or run.
Spec ==
    /\ Init /\ [][Next]_vars
    /\ WF_vars(Microtask /\ UNCHANGED delayed)
    /\ \A w \in Workers :
         /\ WF_vars(DelayOver(w) /\ UNCHANGED delayed)
         /\ WF_vars(JobEnds(w) /\ UNCHANGED delayed)

-----------------------------------------------------------------------------
(* Properties *)

Started == \A w \in Workers : pc[w] # "new"

\* No job runs twice, and when run() resolves every worker has left, nothing
\* is queued or in flight, and unless the pool halted every accepted job ran.
DoneIsComplete ==
    /\ \A j \in Jobs : runs[j] <= 1
    /\ done # "no" =>
         /\ \A w \in Workers : pc[w] = "exited"
         /\ queue = <<>> /\ activeCount = 0
         /\ (done = "finished" => \A j \in accepted : runs[j] = 1)

\* The limits hold up to the jobs already taken when the last one failed.
FailuresBounded ==
    /\ failureCount <= MaxFailures + NumWorkers - 1
    /\ (Started /\ failureCount >= MaxFailures) => halted

\* run() resolves once there has been a job or a close(): no worker is left
\* waiting for a wake-up that does not come.
RunResolves == (Started /\ (closed \/ accepted # {})) ~> done # "no"

-----------------------------------------------------------------------------
(* Refinement *)

\* In flight: started and not yet taken off activeCount.
Counted(w) ==
    \/ pc[w] = "running"
    \/ \E i \in 1..Len(micro) :
          /\ micro[i].kind = "then" \/ (micro[i].kind = "catch" /\ ~micro[i].ok)
          /\ micro[i].w = w

\* Queued, or on its way to a worker.
Waiting(j) ==
    \/ \E i \in 1..Len(queue) : queue[i] = j
    \/ \E i \in 1..Len(micro) : micro[i].kind = "start" /\ micro[i].job = j

JP == INSTANCE JobPool WITH
        Job <- Jobs, Limit <- NumWorkers,
        pending <- {j \in Jobs : Waiting(j)},
        running <- {job[w] : w \in {v \in Workers : Counted(v)}},
        state <- IF done # "no" THEN "done"
                 ELSE IF halted THEN "halted" ELSE IF closed THEN "shut" ELSE "open"

\* With a pause between jobs the pool is the abstract one: an accepted job
\* runs once, and the pool shuts only when idle, halted or closed.
ImplementsJobPool == JP!PoolInit /\ [][delayed => JP!PoolNext]_(JP!poolVars)

=============================================================================
