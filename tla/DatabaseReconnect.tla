------------------------- MODULE DatabaseReconnect -------------------------
(***************************************************************************)
(* One website's database connection: the attempt made while the site is   *)
(* loaded, the background retry schedule that follows a failed one,        *)
(* reloadDatabase() called by site code, and closeDatabase().              *)
(*                                                                         *)
(* The program is single-threaded JavaScript.  An action is the code that  *)
(* runs from one await to the next.  What an await waits for is either the *)
(* outside world (an import, a query, a timer, a call from site code) or a *)
(* promise of this program; a continuation of the second kind is a         *)
(* microtask and runs before the event loop hands over the next outside    *)
(* event, which is what Quiet says.                                        *)
(*                                                                         *)
(* A definition marked "mutant" is a plausible slip in the definition that *)
(* follows it; the specification does not use it.                          *)
(***************************************************************************)
EXTENDS Naturals, FiniteSets

CONSTANTS
    Dbs,        \* identities of ThaliaDatabase objects; one per attempt
    NoDb,       \* website.db, or the mutex, when it holds nothing
    NumDelays,  \* length of the resolved retry schedule
    Callers,    \* site code that calls reloadDatabase()
    Closers     \* calls of closeDatabase()

ASSUME DatabaseReconnectAssumption ==
    /\ NoDb \notin Dbs
    /\ NumDelays \in Nat \ {0}

VARIABLES
    (* the Website's fields *)
    bootPc,     \* Website.create(): "start", "connecting", "exposed"
    db,         \* website.db
    inFlight,   \* dbReconnectInFlight: whose attempt holds the mutex
    aborted,    \* dbReconnectAborted
    status,     \* dbReconnectStatus, nextAttemptAt abstracted to "is set"
    (* the ThaliaDatabase objects and the attempt that made each of them *)
    phase,      \* where the attempt is, or the value its promise settled to
    pool,       \* "none" until drizzle is assigned, then "open", "ended"
    poolClosed, \* mysqlPoolClosed
    ends,       \* how often pool.end() was called
    (* the processes *)
    loopPc,     \* runDatabaseReconnectSchedule
    loopIndex,  \* number of the attempt the schedule is at
    callerPc,   \* one reloadDatabase() caller, and what it was answered
    closerPc,   \* one closeDatabase() call
    closerDb    \* the object whose pool that call is ending

objects == <<phase, pool, poolClosed, ends>>
loop    == <<loopPc, loopIndex>>
closers == <<closerPc, closerDb>>
vars == <<bootPc, db, inFlight, aborted, status, objects, loop, callerPc, closers>>

Running == {"importing", "probing", "machines", "ending"}
Settled == {"true", "false"}

Idle == [reconnecting |-> FALSE, attemptIndex |-> 0,
         nextAttempt |-> FALSE, scheduleExhausted |-> FALSE]

Statuses == [reconnecting : BOOLEAN, attemptIndex : 0..NumDelays,
             nextAttempt : BOOLEAN, scheduleExhausted : BOOLEAN]

TypeOK ==
    /\ bootPc \in {"start", "connecting", "exposed"}
    /\ db \in Dbs \cup {NoDb}
    /\ inFlight \in Dbs \cup {NoDb}
    /\ aborted \in BOOLEAN
    /\ status \in Statuses
    /\ phase \in [Dbs -> {"unused"} \cup Running \cup Settled]
    /\ pool \in [Dbs -> {"none", "open", "ended"}]
    /\ poolClosed \in [Dbs -> BOOLEAN]
    /\ ends \in [Dbs -> Nat]
    /\ loopPc \in {"idle", "sleeping", "woken", "attempting", "succeeded", "failed"}
    /\ loopIndex \in 0..NumDelays
    /\ callerPc \in [Callers -> {"idle", "awaiting", "true", "false"}]
    /\ closerPc \in [Closers -> {"idle", "draining", "ending", "done"}]
    /\ closerDb \in [Closers -> Dbs \cup {NoDb}]

Init ==
    /\ bootPc = "start"
    /\ db = NoDb /\ inFlight = NoDb /\ aborted = FALSE /\ status = Idle
    /\ phase = [d \in Dbs |-> "unused"]
    /\ pool = [d \in Dbs |-> "none"]
    /\ poolClosed = [d \in Dbs |-> FALSE]
    /\ ends = [d \in Dbs |-> 0]
    /\ loopPc = "idle" /\ loopIndex = 0
    /\ callerPc = [c \in Callers |-> "idle"]
    /\ closerPc = [k \in Closers |-> "idle"]
    /\ closerDb = [k \in Closers |-> NoDb]

-----------------------------------------------------------------------------
(* The event loop *)

\* hasLiveDatabase(): the object is attached and drizzle has been assigned,
\* which init() does before its first query.
HasLiveDatabase == db # NoDb /\ pool[db] # "none"

AnyRunning == \E d \in Dbs : phase[d] \in Running

BootReady == bootPc = "connecting" /\ ~AnyRunning
LoopReady == loopPc \in {"woken", "succeeded", "failed"}

\* Promise.all over the mutex and the schedule: both have settled.
DrainedIgnoringInFlight == loopPc = "idle"          \* mutant
DrainedAtOnce == TRUE                                \* mutant
Drained == inFlight = NoDb /\ loopPc = "idle"

CloserReady(k) == closerPc[k] = "draining" /\ Drained

\* No continuation is queued, so the event loop takes an outside event.
Quiet == ~BootReady /\ ~LoopReady /\ \A k \in Closers : ~CloserReady(k)

-----------------------------------------------------------------------------
(* attemptDatabaseConnect and ThaliaDatabase.init *)

\* A new ThaliaDatabase.  The identity of an object whose attempt failed and
\* whose pool is gone is used again: nothing refers to it any more.
Fresh(d) == phase[d] \in {"unused", "false"} /\ pool[d] # "open"

\* new ThaliaDatabase, the optimistic assignment of website.db, and init() up
\* to its import of drizzle.config.ts.
BeginAttempt(d) ==
    /\ Fresh(d)
    /\ db' = d
    /\ phase' = [phase EXCEPT ![d] = "importing"]
    /\ pool' = [pool EXCEPT ![d] = "none"]
    /\ poolClosed' = [poolClosed EXCEPT ![d] = FALSE]
    /\ ends' = [ends EXCEPT ![d] = 0]

\* The attempt's promise settles.  With it the mutex is released, whoever
\* awaited the mutex learns the answer, and an attempt that failed detaches
\* its object.
Settle(d, ok) ==
    LET answer == IF ok THEN "true" ELSE "false" IN
    /\ phase' = [phase EXCEPT ![d] = answer]
    /\ db' = IF ok THEN db ELSE NoDb
    /\ inFlight' = IF inFlight = d THEN NoDb ELSE inFlight
    /\ callerPc' = [c \in Callers |->
                      IF callerPc[c] = "awaiting" THEN answer ELSE callerPc[c]]
    /\ loopPc' = IF loopPc = "attempting"
                 THEN (IF ok THEN "succeeded" ELSE "failed") ELSE loopPc
    /\ UNCHANGED <<bootPc, aborted, loopIndex, closers>>

\* init() resumes after the import: drizzle() creates the pool.
ImportResolves(d) ==
    /\ Quiet /\ phase[d] = "importing"
    /\ phase' = [phase EXCEPT ![d] = "probing"]
    /\ pool' = [pool EXCEPT ![d] = "open"]
    /\ UNCHANGED <<bootPc, db, inFlight, aborted, status, poolClosed, ends,
                   loop, callerPc, closers>>

\* drizzle.config.ts is missing or throws: closeMysqlPool finds no drizzle,
\* sets its flag and returns, and the attempt fails without another await.
ImportRejects(d) ==
    /\ Quiet /\ phase[d] = "importing"
    /\ poolClosed' = [poolClosed EXCEPT ![d] = TRUE]
    /\ Settle(d, FALSE)
    /\ UNCHANGED <<status, pool, ends>>

\* SELECT 1 and the row estimates have answered; the machines' init() hooks run.
ProbeSucceeds(d) ==
    /\ Quiet /\ phase[d] = "probing"
    /\ phase' = [phase EXCEPT ![d] = "machines"]
    /\ UNCHANGED <<bootPc, db, inFlight, aborted, status, pool, poolClosed, ends,
                   loop, callerPc, closers>>

\* closeMysqlPool with a pool and the flag unset: end() is called, and the
\* flag is set only when it has resolved.
EndPool(d) ==
    /\ phase' = [phase EXCEPT ![d] = "ending"]
    /\ ends' = [ends EXCEPT ![d] = @ + 1]
    /\ UNCHANGED <<bootPc, db, inFlight, aborted, status, pool, poolClosed,
                   loop, callerPc, closers>>

\* A query or a machine's init() fails: init() closes the pool.
ForgetsPool(d) ==                                    \* mutant
    /\ Quiet /\ phase[d] \in {"probing", "machines"}
    /\ Settle(d, FALSE)
    /\ UNCHANGED <<status, pool, poolClosed, ends>>
InitFails(d) ==
    /\ Quiet /\ phase[d] \in {"probing", "machines"}
    /\ EndPool(d)

\* init() succeeded while the site is being closed: the late pool is closed.
LateSuccess(d) ==
    /\ Quiet /\ phase[d] = "machines" /\ aborted
    /\ EndPool(d)

ResetStatus == status' = Idle

Connected(d) ==
    /\ Quiet /\ phase[d] = "machines" /\ ~aborted
    /\ ResetStatus
    /\ Settle(d, TRUE)
    /\ UNCHANGED <<pool, poolClosed, ends>>

\* end() has resolved; the attempt's own closeMysqlPool is then a no-op.
AttemptPoolEnded(d) ==
    /\ Quiet /\ phase[d] = "ending"
    /\ pool' = [pool EXCEPT ![d] = "ended"]
    /\ poolClosed' = [poolClosed EXCEPT ![d] = TRUE]
    /\ Settle(d, FALSE)
    /\ UNCHANGED <<status, ends>>

AttemptStep(d) ==
    \/ ImportResolves(d) \/ ImportRejects(d) \/ ProbeSucceeds(d) \/ InitFails(d)
    \/ LateSuccess(d) \/ Connected(d) \/ AttemptPoolEnded(d)

-----------------------------------------------------------------------------
(* loadDatabase, during Website.create *)

\* The first attempt is made outside the mutex.
BootConnects(d) ==
    /\ bootPc = "start"
    /\ bootPc' = "connecting"
    /\ BeginAttempt(d)
    /\ UNCHANGED <<inFlight, aborted, status, loop, callerPc, closers>>

-----------------------------------------------------------------------------
(* runDatabaseReconnectSchedule *)

\* From the head of the loop, with i attempts made, to its next await or to
\* its end.
HeadPastTheEnd(i) ==                                 \* mutant
    IF aborted THEN loopPc' = "idle" /\ UNCHANGED <<loopIndex, status>>
    ELSE /\ loopPc' = "sleeping"
         /\ loopIndex' = i + 1
         /\ status' = [Idle EXCEPT !.reconnecting = TRUE, !.nextAttempt = TRUE,
                                   !.attemptIndex = i + 1]
HeadNeverAdvances(i) ==                              \* mutant
    IF aborted THEN loopPc' = "idle" /\ UNCHANGED <<loopIndex, status>>
    ELSE /\ loopPc' = "sleeping"
         /\ loopIndex' = i
         /\ status' = [Idle EXCEPT !.reconnecting = TRUE, !.nextAttempt = TRUE]
HeadForgetsExhausted(i) ==                           \* mutant
    IF aborted \/ i = NumDelays THEN loopPc' = "idle" /\ UNCHANGED <<loopIndex, status>>
    ELSE HeadPastTheEnd(i)
LoopHead(i) ==
    IF aborted THEN loopPc' = "idle" /\ UNCHANGED <<loopIndex, status>>
    ELSE IF i = NumDelays THEN
         /\ loopPc' = "idle"
         /\ status' = [Idle EXCEPT !.attemptIndex = NumDelays, !.scheduleExhausted = TRUE]
         /\ UNCHANGED loopIndex
    ELSE IF HasLiveDatabase THEN loopPc' = "idle" /\ status' = Idle /\ UNCHANGED loopIndex
    ELSE /\ loopPc' = "sleeping"
         /\ loopIndex' = i + 1
         /\ status' = [Idle EXCEPT !.reconnecting = TRUE, !.nextAttempt = TRUE,
                                   !.attemptIndex = i + 1]

\* Website.create resolves; after a failed attempt startDatabaseReconnect
\* has started the schedule.
BootResumes ==
    /\ BootReady
    /\ bootPc' = "exposed"
    /\ IF db # NoDb THEN UNCHANGED <<loop, status>> ELSE LoopHead(0)
    /\ UNCHANGED <<db, inFlight, aborted, objects, callerPc, closers>>

\* dbBootSleep is over.
TimerFires ==
    /\ Quiet /\ loopPc = "sleeping"
    /\ loopPc' = "woken"
    /\ UNCHANGED <<bootPc, db, inFlight, aborted, status, objects, loopIndex,
                   callerPc, closers>>

\* The two checks after the sleep.
LoopStops ==
    /\ loopPc = "woken" /\ (aborted \/ HasLiveDatabase)
    /\ loopPc' = "idle"
    /\ status' = IF aborted THEN status ELSE Idle
    /\ UNCHANGED <<bootPc, db, inFlight, aborted, objects, loopIndex, callerPc, closers>>

\* What reloadDatabase requires before it starts an attempt of its own.
StartsWithoutMutex == ~aborted /\ ~HasLiveDatabase   \* mutant
StartsOverLive == ~aborted /\ inFlight = NoDb        \* mutant
MayStart == ~aborted /\ ~HasLiveDatabase /\ inFlight = NoDb

\* The schedule's call of reloadDatabase finds an attempt in flight, or
\* starts one.
LoopJoins ==
    /\ loopPc = "woken" /\ ~aborted /\ ~HasLiveDatabase /\ inFlight # NoDb
    /\ loopPc' = "attempting"
    /\ status' = [status EXCEPT !.nextAttempt = FALSE]
    /\ UNCHANGED <<bootPc, db, inFlight, aborted, objects, loopIndex, callerPc, closers>>

LoopStarts(d) ==
    /\ loopPc = "woken" /\ MayStart
    /\ loopPc' = "attempting"
    /\ status' = [status EXCEPT !.nextAttempt = FALSE]
    /\ inFlight' = d
    /\ BeginAttempt(d)
    /\ UNCHANGED <<bootPc, aborted, loopIndex, callerPc, closers>>

LoopResumes ==
    /\ loopPc \in {"succeeded", "failed"}
    /\ IF loopPc = "succeeded"
       THEN /\ loopPc' = "idle"
            /\ status' = IF aborted THEN status ELSE Idle
            /\ UNCHANGED loopIndex
       ELSE LoopHead(loopIndex)
    /\ UNCHANGED <<bootPc, db, inFlight, aborted, objects, callerPc, closers>>

LoopStep == LoopStops \/ LoopJoins \/ (\E d \in Dbs : LoopStarts(d)) \/ LoopResumes

-----------------------------------------------------------------------------
(* reloadDatabase, called by site code *)

MayCall(c) == Quiet /\ bootPc = "exposed" /\ callerPc[c] # "awaiting"

ReloadRefused(c) ==
    /\ MayCall(c) /\ aborted
    /\ callerPc' = [callerPc EXCEPT ![c] = "false"]
    /\ UNCHANGED <<bootPc, db, inFlight, aborted, status, objects, loop, closers>>

ReloadFindsLive(c) ==
    /\ MayCall(c) /\ ~aborted /\ HasLiveDatabase
    /\ callerPc' = [callerPc EXCEPT ![c] = "true"]
    /\ UNCHANGED <<bootPc, db, inFlight, aborted, status, objects, loop, closers>>

ReloadJoins(c) ==
    /\ MayCall(c) /\ ~aborted /\ ~HasLiveDatabase /\ inFlight # NoDb
    /\ callerPc' = [callerPc EXCEPT ![c] = "awaiting"]
    /\ UNCHANGED <<bootPc, db, inFlight, aborted, status, objects, loop, closers>>

ReloadStarts(c, d) ==
    /\ MayCall(c) /\ MayStart
    /\ callerPc' = [callerPc EXCEPT ![c] = "awaiting"]
    /\ inFlight' = d
    /\ BeginAttempt(d)
    /\ UNCHANGED <<bootPc, aborted, status, loop, closers>>

-----------------------------------------------------------------------------
(* closeDatabase *)

\* What abortDatabaseReconnect does to the status and to a sleeping schedule.
AbortedStatusKept == status                          \* mutant
AbortedStatus ==
    IF status.reconnecting
    THEN [status EXCEPT !.reconnecting = FALSE, !.nextAttempt = FALSE]
    ELSE status

AbortLeavesSleeper == loopPc                         \* mutant
AbortedLoop == IF loopPc = "sleeping" THEN "woken" ELSE loopPc

\* The rest of closeDatabase, once nothing is pending.
FinishOrEnd(k) ==
    IF db # NoDb /\ ~poolClosed[db] /\ pool[db] # "none"
    THEN /\ closerPc' = [closerPc EXCEPT ![k] = "ending"]
         /\ closerDb' = [closerDb EXCEPT ![k] = db]
         /\ ends' = [ends EXCEPT ![db] = @ + 1]
         /\ UNCHANGED db
    ELSE /\ closerPc' = [closerPc EXCEPT ![k] = "done"]
         /\ db' = NoDb
         /\ UNCHANGED <<closerDb, ends>>

CallClose(k) ==
    /\ Quiet /\ bootPc = "exposed" /\ closerPc[k] = "idle"
    /\ aborted' = TRUE
    /\ status' = AbortedStatus
    /\ loopPc' = AbortedLoop
    /\ IF Drained THEN FinishOrEnd(k)
       ELSE /\ closerPc' = [closerPc EXCEPT ![k] = "draining"]
            /\ UNCHANGED <<db, ends, closerDb>>
    /\ UNCHANGED <<bootPc, inFlight, phase, pool, poolClosed, loopIndex, callerPc>>

CloserResumes(k) ==
    /\ CloserReady(k)
    /\ FinishOrEnd(k)
    /\ UNCHANGED <<bootPc, inFlight, aborted, status, phase, pool, poolClosed,
                   loop, callerPc>>

CloserPoolEnded(k) ==
    /\ Quiet /\ closerPc[k] = "ending"
    /\ pool' = [pool EXCEPT ![closerDb[k]] = "ended"]
    /\ poolClosed' = [poolClosed EXCEPT ![closerDb[k]] = TRUE]
    /\ db' = NoDb
    /\ closerPc' = [closerPc EXCEPT ![k] = "done"]
    /\ UNCHANGED <<bootPc, inFlight, aborted, status, phase, ends, loop,
                   callerPc, closerDb>>

CloserStep(k) == CloserResumes(k) \/ CloserPoolEnded(k)

-----------------------------------------------------------------------------

Next ==
    \/ \E d \in Dbs : BootConnects(d) \/ AttemptStep(d)
    \/ BootResumes \/ TimerFires \/ LoopStep
    \/ \E c \in Callers :
         \/ ReloadRefused(c) \/ ReloadFindsLive(c) \/ ReloadJoins(c)
         \/ \E d \in Dbs : ReloadStarts(c, d)
    \/ \E k \in Closers : CallClose(k) \/ CloserStep(k)

Spec == Init /\ [][Next]_vars

\* Promises of the program settle: continuations run, imports and queries
\* answer or fail, machine init() hooks return, pool.end() resolves.  Nothing
\* is assumed of the callers, nor of the backoff timer: a property that needs
\* it says so.
FairSpec ==
    /\ Spec
    /\ WF_vars(BootResumes) /\ WF_vars(LoopStep)
    /\ WF_vars(\E d \in Dbs : AttemptStep(d))
    /\ \A k \in Closers : WF_vars(CloserStep(k))

-----------------------------------------------------------------------------
(* Safety *)

\* "Mutexed so only one attempt runs": whatever the schedule, the callers and
\* a closer do between two awaits, two attempts never overlap.
AtMostOneAttempt ==
    \A d, e \in Dbs : phase[d] \in Running /\ phase[e] \in Running => d = e

\* Every open pool is the one website.db leads to, so closeDatabase can reach
\* it: no failed, superseded or late attempt leaves one behind.
OpenPoolIsAttached ==
    \A d \in Dbs : pool[d] = "open" => db = d

\* When closeDatabase has returned, no attempt runs, no pool is open and none
\* is attached: a late success does not leave a pool behind after teardown.
NoPoolAfterClose ==
    (\E k \in Closers : closerPc[k] = "done") =>
        /\ ~AnyRunning
        /\ \A d \in Dbs : pool[d] # "open"
        /\ db = NoDb

\* What /health shows while the schedule runs is backed by a schedule: an
\* announced next attempt has a sleeper, "reconnecting" has a live schedule.
StatusHasSchedule ==
    /\ status.reconnecting => loopPc # "idle" /\ ~aborted
    /\ status.nextAttempt => loopPc \in {"sleeping", "woken"}

\* One attempt's pool is ended once, whichever of init(), the attempt and
\* closeDatabase gets there, as long as there is one closeDatabase: two
\* concurrent calls both find the flag unset.
PoolEndedOnce ==
    (\A k, l \in Closers : closerPc[k] # "idle" /\ closerPc[l] # "idle" => k = l)
        => \A d \in Dbs : ends[d] <= 1

\* While site code has not called reloadDatabase, the background schedule
\* retries until the database is connected or the schedule is exhausted.
RetriesUntilDone ==
    bootPc = "exposed" /\ ~aborted /\ (\A c \in Callers : callerPc[c] = "idle") =>
        \/ loopPc # "idle" \/ AnyRunning
        \/ db # NoDb /\ phase[db] = "true"
        \/ status.scheduleExhausted

\* reloadDatabase answers true only when website.db is attached to a
\* connection whose initialisation has completed.
TrueMeansConnected ==
    [][\A c \in Callers : callerPc'[c] = "true" /\ callerPc[c] # "true"
          => db' # NoDb /\ phase'[db'] = "true"]_vars

-----------------------------------------------------------------------------
(* Liveness *)

\* closeDatabase returns although no backoff timer need ever fire.
CloseCompletes ==
    \A k \in Closers : closerPc[k] # "idle" ~> closerPc[k] = "done"

\* If timers fire, the schedule ends: connected, exhausted or aborted.
TimersFire == WF_vars(TimerFires)
ScheduleSettles == TimersFire => (loopPc # "idle" ~> loopPc = "idle")

-----------------------------------------------------------------------------
(* Refinement *)

Link ==
    IF \E k \in Closers : closerPc[k] = "done" THEN "closed"
    ELSE IF aborted THEN "closing"
    ELSE IF \E d \in Dbs : db = d /\ phase[d] = "true" THEN "online"
    ELSE "offline"

DL == INSTANCE DatabaseLink WITH link <- Link, held <- \E d \in Dbs : pool[d] = "open"

\* The connection as a whole behaves as DatabaseLink: once online it stays
\* online until closed, and nothing opens a pool after the close.
ImplementsLink == DL!Spec

=============================================================================
