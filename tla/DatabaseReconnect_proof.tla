---------------------- MODULE DatabaseReconnect_proof ----------------------
(***************************************************************************)
(* DatabaseReconnect's safety, proved for every set of objects, callers    *)
(* and closers and every schedule length.                                  *)
(***************************************************************************)
EXTENDS DatabaseReconnect, TLAPS

(* The attempt that runs is the one website.db leads to, and what is      *)
(* attached is either running or connected.                               *)
Attached ==
    /\ \A d \in Dbs : phase[d] \in Running => db = d
    /\ db # NoDb => phase[db] \in Running \cup {"true"}

(* A pool is open exactly from the import to the end of the attempt, or   *)
(* for as long as the connection is attached.                             *)
PoolFollowsPhase ==
    \A d \in Dbs :
      /\ pool[d] = "open" => db = d /\ ~poolClosed[d]
      /\ phase[d] = "importing" => pool[d] = "none" /\ ~poolClosed[d]
      /\ phase[d] \in {"probing", "machines", "ending"} => pool[d] = "open"
      /\ db = d /\ phase[d] = "true" => pool[d] = "open"

(* Once the site is exposed, the running attempt holds the mutex.         *)
MutexHeld ==
    /\ inFlight # NoDb => phase[inFlight] \in Running
    /\ bootPc = "exposed" => \A d \in Dbs : phase[d] \in Running => inFlight = d
    /\ bootPc = "start" => db = NoDb /\ \A d \in Dbs : phase[d] = "unused"
    /\ bootPc # "exposed" => ~aborted /\ loopPc = "idle" /\ inFlight = NoDb
    /\ loopPc = "attempting" => inFlight # NoDb

(* A closer that has drained finds the program at rest.                   *)
ClosedIsQuiet ==
    \A k \in Closers :
      /\ closerPc[k] # "idle" => aborted /\ bootPc = "exposed"
      /\ closerPc[k] \in {"ending", "done"} => loopPc = "idle" /\ inFlight = NoDb
      /\ closerPc[k] = "ending" => closerDb[k] \in Dbs /\ db \in {closerDb[k], NoDb}
      /\ closerPc[k] = "done" => db = NoDb

IInv == TypeOK /\ Attached /\ PoolFollowsPhase /\ MutexHeld /\ ClosedIsQuiet

USE DatabaseReconnectAssumption
USE DEF IInv, Attached, PoolFollowsPhase, MutexHeld, ClosedIsQuiet

LEMMA IdleIsStatus == Idle \in Statuses
BY DEF Idle, Statuses

(* Whatever the loop head decides, the schedule's variables keep their    *)
(* types, and an aborted schedule stops.                                  *)
LEMMA LoopHeadStep ==
    ASSUME TypeOK, NEW i \in 0..NumDelays, LoopHead(i)
    PROVE  /\ loopPc' \in {"idle", "sleeping"} /\ (aborted => loopPc' = "idle")
           /\ loopIndex' \in 0..NumDelays
           /\ status' \in Statuses
<1>1. CASE aborted
  BY <1>1 DEF TypeOK, LoopHead
<1>2. CASE ~aborted /\ i = NumDelays
  BY <1>2 DEF TypeOK, LoopHead, Idle, Statuses
<1>3. CASE ~aborted /\ i # NumDelays /\ HasLiveDatabase
  BY <1>3, IdleIsStatus DEF TypeOK, LoopHead
<1>4. CASE ~aborted /\ i # NumDelays /\ ~HasLiveDatabase
  <2>1. i + 1 \in 0..NumDelays
    BY <1>4
  <2> QED BY <1>4, <2>1 DEF TypeOK, LoopHead, Idle, Statuses
<1> QED BY <1>1, <1>2, <1>3, <1>4

LEMMA InitEstablishes == Init => IInv
<1> SUFFICES ASSUME Init PROVE IInv
  OBVIOUS
<1>1. 0 \in 0..NumDelays /\ status \in Statuses
  BY IdleIsStatus DEF Init
<1>2. TypeOK
  BY <1>1 DEF Init, TypeOK
<1> QED BY <1>2 DEF Init, Running

LEMMA BootConnectsStep ==
    ASSUME IInv, NEW d \in Dbs, BootConnects(d) PROVE IInv'
BY DEF TypeOK, Running, Settled, objects, loop, closers, BootConnects, BeginAttempt, Fresh

LEMMA ImportResolvesStep ==
    ASSUME IInv, NEW d \in Dbs, ImportResolves(d) PROVE IInv'
BY DEF TypeOK, Running, Settled, objects, loop, closers, ImportResolves

LEMMA ImportRejectsStep ==
    ASSUME IInv, NEW d \in Dbs, ImportRejects(d) PROVE IInv'
BY DEF TypeOK, Running, Settled, objects, loop, closers, ImportRejects, Settle

LEMMA ProbeSucceedsStep ==
    ASSUME IInv, NEW d \in Dbs, ProbeSucceeds(d) PROVE IInv'
BY DEF TypeOK, Running, Settled, objects, loop, closers, ProbeSucceeds

LEMMA InitFailsStep ==
    ASSUME IInv, NEW d \in Dbs, InitFails(d) PROVE IInv'
BY DEF TypeOK, Running, Settled, objects, loop, closers, InitFails, EndPool

LEMMA LateSuccessStep ==
    ASSUME IInv, NEW d \in Dbs, LateSuccess(d) PROVE IInv'
BY DEF TypeOK, Running, Settled, objects, loop, closers, LateSuccess, EndPool

LEMMA ConnectedStep ==
    ASSUME IInv, NEW d \in Dbs, Connected(d) PROVE IInv'
BY IdleIsStatus DEF TypeOK, Running, Settled, objects, loop, closers, Connected, Settle,
                    ResetStatus

LEMMA AttemptPoolEndedStep ==
    ASSUME IInv, NEW d \in Dbs, AttemptPoolEnded(d) PROVE IInv'
BY DEF TypeOK, Running, Settled, objects, loop, closers, AttemptPoolEnded, Settle

LEMMA BootResumesStep ==
    ASSUME IInv, BootResumes PROVE IInv'
BY LoopHeadStep DEF TypeOK, Running, Settled, objects, loop, closers, BootResumes,
    BootReady, AnyRunning

LEMMA TimerFiresStep ==
    ASSUME IInv, TimerFires PROVE IInv'
BY DEF TypeOK, Running, Settled, objects, loop, closers, TimerFires

LEMMA LoopStopsStep ==
    ASSUME IInv, LoopStops PROVE IInv'
BY IdleIsStatus DEF TypeOK, Running, Settled, objects, loop, closers, LoopStops

LEMMA LoopJoinsStep ==
    ASSUME IInv, LoopJoins PROVE IInv'
BY DEF TypeOK, Running, Settled, objects, loop, closers, LoopJoins, Statuses

LEMMA LoopStartsStep ==
    ASSUME IInv, NEW d \in Dbs, LoopStarts(d) PROVE IInv'
<1> USE DEF TypeOK, Running, Settled, objects, loop, closers, LoopStarts, MayStart,
            BeginAttempt, Fresh, HasLiveDatabase
<1>1. db = NoDb /\ bootPc = "exposed" /\ \A e \in Dbs : phase[e] \notin Running
  OBVIOUS
<1>2. TypeOK'
  BY DEF Statuses
<1> QED BY <1>1, <1>2

LEMMA LoopResumesStep ==
    ASSUME IInv, LoopResumes PROVE IInv'
<1> USE DEF Running, Settled, objects, loop, closers
<1>1. CASE loopPc = "succeeded"
  BY <1>1, IdleIsStatus DEF LoopResumes, TypeOK
<1>2. CASE loopPc # "succeeded"
  <2>1. LoopHead(loopIndex) /\ loopIndex \in 0..NumDelays
    BY <1>2 DEF LoopResumes, TypeOK
  <2>2. TypeOK'
    BY <2>1, LoopHeadStep DEF LoopResumes, TypeOK
  <2> QED BY <1>2, <2>1, <2>2, LoopHeadStep DEF LoopResumes, TypeOK
<1> QED BY <1>1, <1>2

LEMMA ReloadRefusedStep ==
    ASSUME IInv, NEW c \in Callers, ReloadRefused(c) PROVE IInv'
BY DEF TypeOK, Running, Settled, objects, loop, closers, ReloadRefused, MayCall

LEMMA ReloadFindsLiveStep ==
    ASSUME IInv, NEW c \in Callers, ReloadFindsLive(c) PROVE IInv'
BY DEF TypeOK, Running, Settled, objects, loop, closers, ReloadFindsLive, MayCall

LEMMA ReloadJoinsStep ==
    ASSUME IInv, NEW c \in Callers, ReloadJoins(c) PROVE IInv'
BY DEF TypeOK, Running, Settled, objects, loop, closers, ReloadJoins, MayCall

LEMMA ReloadStartsStep ==
    ASSUME IInv, NEW c \in Callers, NEW d \in Dbs, ReloadStarts(c, d) PROVE IInv'
BY DEF TypeOK, Running, Settled, objects, loop, closers, ReloadStarts,
    MayCall, MayStart, BeginAttempt, Fresh, HasLiveDatabase

LEMMA CallCloseStep ==
    ASSUME IInv, NEW k \in Closers, CallClose(k) PROVE IInv'
<1> USE DEF Running, Settled, objects, loop, closers, CallClose
<1>1. status' \in Statuses /\ loopPc' \in {loopPc, "woken"}
  BY DEF TypeOK, AbortedStatus, AbortedLoop, Statuses
<1>2. CASE Drained
  <2>1. loopPc' = "idle"
    BY <1>2 DEF Drained, AbortedLoop
  <2> QED BY <1>1, <1>2, <2>1 DEF TypeOK, FinishOrEnd, Drained
<1>3. CASE ~Drained
  BY <1>1, <1>3 DEF TypeOK, AbortedLoop
<1> QED BY <1>2, <1>3

LEMMA CloserResumesStep ==
    ASSUME IInv, NEW k \in Closers, CloserResumes(k) PROVE IInv'
BY DEF TypeOK, Running, Settled, objects, loop, closers, CloserResumes,
    CloserReady, FinishOrEnd, Drained

LEMMA CloserPoolEndedStep ==
    ASSUME IInv, NEW k \in Closers, CloserPoolEnded(k) PROVE IInv'
BY DEF TypeOK, Running, Settled, objects, loop, closers, CloserPoolEnded

-----------------------------------------------------------------------------

LEMMA Inductive == IInv /\ [Next]_vars => IInv'
<1> SUFFICES ASSUME IInv, [Next]_vars PROVE IInv'
  OBVIOUS
<1>1. ASSUME NEW d \in Dbs, BootConnects(d) \/ AttemptStep(d) PROVE IInv'
  BY <1>1, BootConnectsStep, ImportResolvesStep, ImportRejectsStep, ProbeSucceedsStep,
     InitFailsStep, LateSuccessStep, ConnectedStep, AttemptPoolEndedStep DEF AttemptStep
<1>2. ASSUME BootResumes \/ TimerFires \/ LoopStep PROVE IInv'
  BY <1>2, BootResumesStep, TimerFiresStep, LoopStopsStep, LoopJoinsStep, LoopStartsStep,
     LoopResumesStep DEF LoopStep
<1>3. ASSUME NEW c \in Callers,
             \/ ReloadRefused(c) \/ ReloadFindsLive(c) \/ ReloadJoins(c)
             \/ \E d \in Dbs : ReloadStarts(c, d)
      PROVE  IInv'
  BY <1>3, ReloadRefusedStep, ReloadFindsLiveStep, ReloadJoinsStep, ReloadStartsStep
<1>4. ASSUME NEW k \in Closers, CallClose(k) \/ CloserStep(k) PROVE IInv'
  BY <1>4, CallCloseStep, CloserResumesStep, CloserPoolEndedStep DEF CloserStep
<1>5. CASE UNCHANGED vars
  BY <1>5 DEF vars, objects, loop, closers, TypeOK, Running, Settled
<1> QED BY <1>1, <1>2, <1>3, <1>4, <1>5 DEF Next

LEMMA InvariantHolds == Spec => []IInv
BY InitEstablishes, Inductive, PTL DEF Spec

\* Every variable keeps the values the code gives it.
THEOREM TypeCorrect == Spec => []TypeOK
<1>1. IInv => TypeOK
  OBVIOUS
<1> QED BY <1>1, InvariantHolds, PTL

\* However the schedule, any number of reloadDatabase() callers and any number
\* of closeDatabase() calls interleave, two connection attempts never overlap.
THEOREM OneAttempt == Spec => []AtMostOneAttempt
<1>1. IInv => AtMostOneAttempt
  BY DEF AtMostOneAttempt
<1> QED BY <1>1, InvariantHolds, PTL

\* Every open pool is the one website.db leads to.
THEOREM PoolsAttached == Spec => []OpenPoolIsAttached
<1>1. IInv => OpenPoolIsAttached
  BY DEF OpenPoolIsAttached
<1> QED BY <1>1, InvariantHolds, PTL

\* Once any closeDatabase() call has returned, nothing runs and no pool is open.
THEOREM ClosedIsClean == Spec => []NoPoolAfterClose
<1>1. IInv => NoPoolAfterClose
  <2> SUFFICES ASSUME IInv, NEW k \in Closers, closerPc[k] = "done"
               PROVE  ~AnyRunning /\ (\A d \in Dbs : pool[d] # "open") /\ db = NoDb
    BY DEF NoPoolAfterClose
  <2>1. db = NoDb /\ inFlight = NoDb /\ bootPc = "exposed"
    OBVIOUS
  <2> QED BY <2>1 DEF AnyRunning
<1> QED BY <1>1, InvariantHolds, PTL

-----------------------------------------------------------------------------
(* Refinement of DatabaseLink *)

Held == \E d \in Dbs : pool[d] = "open"

(* A step that leaves both abstract variables alone is a stutter.         *)
LEMMA Stutters ==
    ASSUME Link' = Link, Held' = Held PROVE [DL!Next]_DL!vars
BY DEF Held, DL!vars

LEMMA StartIsStutter ==
    ASSUME IInv, NEW d \in Dbs, BeginAttempt(d), db = NoDb, ~aborted,
           aborted' = aborted, closerPc' = closerPc
    PROVE  Link' = Link /\ Held' = Held
<1>1. Link = "offline" /\ Link' = "offline"
  BY DEF BeginAttempt, Link, TypeOK, ClosedIsQuiet
<1>2. \A e \in Dbs : pool[e] # "open"
  OBVIOUS
<1>3. \A e \in Dbs : pool'[e] # "open"
  BY <1>2 DEF BeginAttempt, TypeOK
<1> QED BY <1>1, <1>2, <1>3 DEF Held

(* The step of the abstract link that each step of an attempt is.         *)
LEMMA AttemptLink ==
    ASSUME IInv, NEW d \in Dbs, AttemptStep(d) PROVE [DL!Next]_DL!vars
<1> USE DEF TypeOK, Running, Settled, objects, loop, closers
<1>0. db = d \/ ~(phase[d] \in Running)
  OBVIOUS
<1>1. CASE ImportResolves(d)
  <2>1. Link \in {"offline", "closing"} /\ ~Held /\ Link' = Link /\ Held'
    BY <1>1 DEF ImportResolves, Link, Held
  <2> QED BY <2>1 DEF DL!Next, DL!OpenPool, Held
<1>2. CASE ImportRejects(d)
  <2>1. Link' = Link /\ Held' = Held
    BY <1>2 DEF ImportRejects, Settle, Link, Held
  <2> QED BY <2>1, Stutters
<1>3. CASE ProbeSucceeds(d) \/ InitFails(d) \/ LateSuccess(d)
  <2>1. Link' = Link /\ Held' = Held
    BY <1>3 DEF ProbeSucceeds, InitFails, LateSuccess, EndPool, Link, Held
  <2> QED BY <2>1, Stutters
<1>4. CASE Connected(d)
  <2>1. Link = "offline" /\ Link' = "online" /\ Held /\ Held'
    BY <1>4 DEF Connected, Settle, Link, Held
  <2> QED BY <2>1 DEF DL!Next, DL!GoOnline, Held
<1>5. CASE AttemptPoolEnded(d)
  <2>1. Link \in {"offline", "closing"} /\ Held /\ Link' = Link /\ ~Held'
    BY <1>5 DEF AttemptPoolEnded, Settle, Link, Held
  <2> QED BY <2>1 DEF DL!Next, DL!GiveUpPool, Held
<1> QED BY <1>1, <1>2, <1>3, <1>4, <1>5 DEF AttemptStep

LEMMA CloseLink ==
    ASSUME IInv, NEW k \in Closers, CallClose(k) \/ CloserStep(k)
    PROVE  [DL!Next]_DL!vars
<1> USE DEF TypeOK, Running, Settled, objects, loop, closers
<1> DEFINE Done == \E j \in Closers : closerPc[j] = "done"
<1>1. CASE CallClose(k)
  <2>1. Held' = Held
    BY <1>1 DEF CallClose, Held
  <2>2. CASE Done
    <3>1. Link = "closed" /\ Link' = "closed"
      BY <1>1, <2>2 DEF CallClose, FinishOrEnd, Link
    <3> QED BY <2>1, <3>1, Stutters
  <2>3. CASE ~Done /\ ~(\E j \in Closers : closerPc'[j] = "done")
    <3>1. Link' = "closing" /\ Link \in {"closing", "offline", "online"}
      BY <1>1, <2>3 DEF CallClose, Link
    <3> QED BY <2>1, <3>1, Stutters DEF DL!Next, DL!BeginClose, Held
  <2>4. CASE ~Done /\ \E j \in Closers : closerPc'[j] = "done"
    <3>1. Link' = "closed"
      BY <2>4 DEF Link
    <3>2. closerPc'[k] = "done"
      BY <1>1, <2>4 DEF CallClose, FinishOrEnd
    <3>3. db = NoDb \/ poolClosed[db] \/ pool[db] = "none"
      BY <1>1, <3>2 DEF CallClose, FinishOrEnd
    <3>4. db = NoDb
      BY <1>1, <3>2, <3>3 DEF CallClose, FinishOrEnd, Drained
    <3>5. ~Held /\ Link \in {"closing", "offline"}
      BY <2>4, <3>4 DEF Held, Link
    <3> QED BY <2>1, <3>1, <3>5 DEF DL!Next, DL!FinishClose, Held
  <2> QED BY <2>2, <2>3, <2>4
<1>2. CASE CloserResumes(k)
  <2>1. Held' = Held
    BY <1>2 DEF CloserResumes, FinishOrEnd, Held
  <2>2. CASE Link' = Link
    BY <2>1, <2>2, Stutters
  <2>3. CASE Link' # Link
    <3>1. ~Done /\ closerPc'[k] = "done" /\ Link = "closing" /\ Link' = "closed"
      BY <1>2, <2>3 DEF CloserResumes, CloserReady, FinishOrEnd, Link
    <3>2. db = NoDb
      BY <1>2, <3>1 DEF CloserResumes, CloserReady, FinishOrEnd, Drained
    <3>3. ~Held
      BY <3>2 DEF Held
    <3> QED BY <2>1, <3>1, <3>3 DEF DL!Next, DL!FinishClose, Held
  <2> QED BY <2>2, <2>3
<1>3. CASE CloserPoolEnded(k)
  <2>1. Link \in {"closing", "closed"} /\ Link' = "closed"
    BY <1>3 DEF CloserPoolEnded, Link
  <2>2. ~Held'
    BY <1>3 DEF CloserPoolEnded, Held
  <2>3. CASE Link = "closing"
    BY <2>1, <2>2, <2>3 DEF DL!Next, DL!FinishClose, Held
  <2>4. CASE Link = "closed"
    <3>1. PICK j \in Closers : closerPc[j] = "done"
      BY <2>4 DEF Link
    <3>2. db = NoDb /\ \A e \in Dbs : pool[e] # "open"
      BY <3>1
    <3> QED BY <2>1, <2>2, <2>4, <3>2, Stutters DEF Held
  <2> QED BY <2>1, <2>3, <2>4
<1> QED BY <1>1, <1>2, <1>3 DEF CloserStep

(* The schedule and the callers move the link only through attempts.      *)
LEMMA OtherLink ==
    ASSUME IInv,
           \/ BootResumes \/ TimerFires \/ LoopStops \/ LoopJoins \/ LoopResumes
           \/ \E c \in Callers : ReloadRefused(c) \/ ReloadFindsLive(c) \/ ReloadJoins(c)
           \/ UNCHANGED vars
    PROVE  [DL!Next]_DL!vars
<1>1. UNCHANGED <<db, aborted, objects, closers>>
  BY DEF BootResumes, TimerFires, LoopStops, LoopJoins, LoopResumes, ReloadRefused,
         ReloadFindsLive, ReloadJoins, vars
<1>2. Link' = Link /\ Held' = Held
  BY <1>1 DEF objects, closers, Link, Held
<1> QED BY <1>2, Stutters

LEMMA LinkStep == IInv /\ [Next]_vars => [DL!Next]_DL!vars
<1> SUFFICES ASSUME IInv, [Next]_vars PROVE [DL!Next]_DL!vars
  OBVIOUS
<1>1. ASSUME NEW d \in Dbs, BootConnects(d) PROVE [DL!Next]_DL!vars
  BY <1>1, StartIsStutter, Stutters DEF BootConnects, closers
<1>2. ASSUME NEW d \in Dbs, LoopStarts(d) \/ \E c \in Callers : ReloadStarts(c, d)
      PROVE  [DL!Next]_DL!vars
  <2>1. ~HasLiveDatabase /\ inFlight = NoDb /\ bootPc = "exposed"
    BY <1>2 DEF LoopStarts, ReloadStarts, MayStart, MayCall
  <2>2. db = NoDb
    BY <2>1 DEF HasLiveDatabase, TypeOK
  <2> QED BY <1>2, <2>2, StartIsStutter, Stutters
          DEF LoopStarts, ReloadStarts, MayStart, closers
<1> QED BY <1>1, <1>2, AttemptLink, CloseLink, OtherLink DEF Next, LoopStep

\* The connection lifecycle implements DatabaseLink: a link that went online
\* stays online until the site is closed, and a closed site opens no pool.
THEOREM Refinement == Spec => ImplementsLink
<1>1. Init => DL!Init
  BY DEF Init, DL!Init, Link
<1> QED BY <1>1, LinkStep, InvariantHolds, PTL DEF Spec, ImplementsLink, DL!Spec

-----------------------------------------------------------------------------
(* The published status, the schedule's persistence, and the pools' ends   *)

(* An announced attempt belongs to a schedule that is reconnecting.       *)
Announced == StatusHasSchedule /\ (status.nextAttempt => status.reconnecting)

(* While site code has not called, an attempt after the boot is one that  *)
(* the schedule waits for; and what it learns of a success is still so.   *)
CallersIdle == \A c \in Callers : callerPc[c] = "idle"
ScheduleOwns ==
    /\ bootPc = "exposed" /\ CallersIdle /\ AnyRunning => loopPc = "attempting"
    /\ loopPc = "succeeded" => db # NoDb

(* A pool has been ended by its attempt, or by the one closer.            *)
OneCloses == \A k, l \in Closers : closerPc[k] # "idle" /\ closerPc[l] # "idle" => k = l
EndsFollow ==
    \A d \in Dbs :
      /\ phase[d] \in {"unused", "importing", "probing", "machines"} => ends[d] = 0
      /\ phase[d] = "true" /\ (\A k \in Closers : closerPc[k] \in {"idle", "draining"})
            => ends[d] = 0
      /\ OneCloses => ends[d] <= 1

Extra == Announced /\ ScheduleOwns /\ RetriesUntilDone /\ EndsFollow

LEMMA ExtraAtInit == Init => Extra
BY DEF Init, Extra, Announced, StatusHasSchedule, Idle, ScheduleOwns, RetriesUntilDone,
   EndsFollow, AnyRunning, Running

LEMMA ExhaustedEnds ==
    ASSUME ~aborted, LoopHead(NumDelays)
    PROVE  /\ loopPc' = "idle" /\ status'.scheduleExhausted
           /\ ~status'.reconnecting /\ ~status'.nextAttempt
<1>1. status' = [Idle EXCEPT !.attemptIndex = NumDelays, !.scheduleExhausted = TRUE]
  BY DEF LoopHead
<1>2. status' = [reconnecting |-> FALSE, attemptIndex |-> NumDelays,
                 nextAttempt |-> FALSE, scheduleExhausted |-> TRUE]
  BY <1>1 DEF Idle
<1> QED BY <1>2 DEF LoopHead

LEMMA AnnouncedStep == IInv /\ IInv' /\ Announced /\ [Next]_vars => Announced'
<1> SUFFICES ASSUME IInv, IInv', Announced, [Next]_vars PROVE Announced'
  OBVIOUS
<1> USE DEF Announced, StatusHasSchedule
<1>0. status \in Statuses
  BY DEF TypeOK
<1>1. ASSUME NEW i \in 0..NumDelays, LoopHead(i), aborted' = aborted,
             ~status.nextAttempt
      PROVE  Announced'
  <2>1. CASE aborted
    BY <1>1, <2>1 DEF LoopHead
  <2>2. CASE ~aborted /\ i = NumDelays
    BY <1>1, <2>2, ExhaustedEnds
  <2>3. CASE ~aborted /\ i # NumDelays /\ HasLiveDatabase
    BY <1>1, <2>3 DEF LoopHead, Idle
  <2>4. CASE ~aborted /\ i # NumDelays /\ ~HasLiveDatabase
    BY <1>1, <2>4 DEF LoopHead, Idle
  <2> QED BY <2>1, <2>2, <2>3, <2>4
<1>2. ASSUME NEW d \in Dbs, BootConnects(d) \/ AttemptStep(d) PROVE Announced'
  BY <1>0, <1>2 DEF AttemptStep, BootConnects, ImportResolves, ImportRejects, ProbeSucceeds,
     InitFails, LateSuccess, Connected, AttemptPoolEnded, EndPool, Settle, BeginAttempt,
     ResetStatus, Idle, Statuses, loop, closers
<1>3. CASE BootResumes
  <2>1. ~status.nextAttempt /\ aborted' = aborted
    BY <1>3 DEF BootResumes, BootReady
  <2> QED BY <1>0, <1>1, <1>3, <2>1 DEF BootResumes, loop
<1>4. CASE TimerFires \/ LoopStops \/ LoopJoins \/ \E d \in Dbs : LoopStarts(d)
  BY <1>0, <1>4 DEF TimerFires, LoopStops, LoopJoins, LoopStarts, BeginAttempt, objects,
     Idle, Statuses, loop, closers
<1>5. CASE LoopResumes
  <2>1. ~status.nextAttempt /\ aborted' = aborted
    BY <1>5 DEF LoopResumes
  <2>2. CASE loopPc = "succeeded"
    BY <1>0, <1>5, <2>1, <2>2 DEF LoopResumes, Idle, Statuses
  <2> QED BY <1>1, <1>5, <2>1, <2>2 DEF LoopResumes, TypeOK
<1>6. ASSUME NEW c \in Callers,
             \/ ReloadRefused(c) \/ ReloadFindsLive(c) \/ ReloadJoins(c)
             \/ \E d \in Dbs : ReloadStarts(c, d)
      PROVE  Announced'
  BY <1>6 DEF ReloadRefused, ReloadFindsLive, ReloadJoins, ReloadStarts, BeginAttempt, loop
<1>7. ASSUME NEW k \in Closers, CallClose(k) \/ CloserStep(k) PROVE Announced'
  <2>1. CASE CallClose(k)
    <3>1. ~status'.reconnecting /\ ~status'.nextAttempt
      BY <1>0, <2>1 DEF CallClose, AbortedStatus, Statuses
    <3> QED BY <3>1
  <2>2. CASE CloserStep(k)
    BY <2>2 DEF CloserStep, CloserResumes, CloserPoolEnded, loop
  <2> QED BY <1>7, <2>1, <2>2
<1>8. CASE UNCHANGED vars
  BY <1>8 DEF vars, loop
<1> QED BY <1>2, <1>3, <1>4, <1>5, <1>6, <1>7, <1>8 DEF Next, LoopStep

LEMMA SucceededStep ==
    IInv /\ (loopPc = "succeeded" => db # NoDb) /\ [Next]_vars
        => (loopPc' = "succeeded" => db' # NoDb)
<1> SUFFICES ASSUME IInv, loopPc = "succeeded" => db # NoDb, [Next]_vars, loopPc' = "succeeded"
             PROVE  db' # NoDb
  OBVIOUS
<1>1. ASSUME NEW d \in Dbs, BootConnects(d) \/ AttemptStep(d) PROVE db' # NoDb
  BY <1>1 DEF AttemptStep, BootConnects, BeginAttempt, ImportResolves, ImportRejects,
     ProbeSucceeds, InitFails, LateSuccess, Connected, AttemptPoolEnded, EndPool, Settle,
     Running, TypeOK, loop, Quiet, LoopReady
<1>2. CASE BootResumes
  BY <1>2, LoopHeadStep DEF BootResumes, BootReady, loop
<1>3. CASE TimerFires \/ LoopStep
  <2>1. CASE LoopResumes
    <3>1. loopPc' \in {"idle", "sleeping"}
      BY <2>1, LoopHeadStep DEF LoopResumes, TypeOK
    <3> QED BY <3>1
  <2> QED BY <1>3, <2>1 DEF TimerFires, LoopStep, LoopStops, LoopJoins, LoopStarts
<1>4. ASSUME NEW c \in Callers,
             \/ ReloadRefused(c) \/ ReloadFindsLive(c) \/ ReloadJoins(c)
             \/ \E d \in Dbs : ReloadStarts(c, d)
      PROVE  db' # NoDb
  BY <1>4 DEF ReloadRefused, ReloadFindsLive, ReloadJoins, ReloadStarts, MayCall, Quiet,
     LoopReady, loop
<1>5. ASSUME NEW k \in Closers, CallClose(k) \/ CloserStep(k) PROVE db' # NoDb
  BY <1>5 DEF CallClose, CloserStep, CloserResumes, CloserReady, CloserPoolEnded, Drained,
     AbortedLoop, Quiet, LoopReady, loop
<1>6. CASE UNCHANGED vars
  BY <1>6 DEF vars, loop
<1> QED BY <1>1, <1>2, <1>3, <1>4, <1>5, <1>6 DEF Next

LEMMA ScheduleOwnsStep == IInv /\ IInv' /\ ScheduleOwns /\ [Next]_vars => ScheduleOwns'
<1> SUFFICES ASSUME IInv, IInv', ScheduleOwns, [Next]_vars, bootPc' = "exposed", CallersIdle'
             PROVE  AnyRunning' => loopPc' = "attempting"
  BY SucceededStep DEF ScheduleOwns
<1> USE DEF ScheduleOwns, CallersIdle, AnyRunning
<1>1. ASSUME NEW d \in Dbs, BootConnects(d) \/ AttemptStep(d)
      PROVE  AnyRunning' => loopPc' = "attempting"
  BY <1>1 DEF AttemptStep, BootConnects, ImportResolves, ImportRejects, ProbeSucceeds,
     InitFails, LateSuccess, Connected, AttemptPoolEnded, EndPool, Settle, Running, TypeOK,
     loop, closers
<1>2. CASE BootResumes
  BY <1>2 DEF BootResumes, BootReady, objects
<1>3. CASE TimerFires \/ LoopStep
  BY <1>3 DEF TimerFires, LoopStep, LoopStops, LoopJoins, LoopStarts, LoopResumes, objects
<1>4. ASSUME NEW c \in Callers,
             \/ ReloadRefused(c) \/ ReloadFindsLive(c) \/ ReloadJoins(c)
             \/ \E d \in Dbs : ReloadStarts(c, d)
      PROVE  FALSE
  BY <1>4 DEF ReloadRefused, ReloadFindsLive, ReloadJoins, ReloadStarts, TypeOK
<1>5. ASSUME NEW k \in Closers, CallClose(k) \/ CloserStep(k)
      PROVE  AnyRunning' => loopPc' = "attempting"
  BY <1>5 DEF CallClose, CloserStep, CloserResumes, CloserPoolEnded, AbortedLoop, loop
<1>6. CASE UNCHANGED vars
  BY <1>6 DEF vars, loop, objects
<1> QED BY <1>1, <1>2, <1>3, <1>4, <1>5, <1>6 DEF Next

LEMMA RetriesStep ==
    IInv /\ IInv' /\ ScheduleOwns /\ RetriesUntilDone /\ [Next]_vars => RetriesUntilDone'
<1> SUFFICES ASSUME IInv, IInv', ScheduleOwns, RetriesUntilDone, [Next]_vars,
                    bootPc' = "exposed", ~aborted', CallersIdle'
             PROVE  \/ loopPc' # "idle" \/ AnyRunning'
                    \/ db' # NoDb /\ phase'[db'] = "true"
                    \/ status'.scheduleExhausted
  BY DEF RetriesUntilDone, CallersIdle
<1> DEFINE Goal == \/ loopPc' # "idle" \/ AnyRunning'
                   \/ db' # NoDb /\ phase'[db'] = "true"
                   \/ status'.scheduleExhausted
<1> USE DEF RetriesUntilDone, ScheduleOwns, CallersIdle
<1>0. db' # NoDb => Goal
  BY DEF TypeOK, AnyRunning
<1>1. ASSUME NEW d \in Dbs, BootConnects(d) \/ AttemptStep(d) PROVE Goal
  <2>1. CASE BootConnects(d)
    BY <1>0, <2>1 DEF BootConnects, BeginAttempt
  <2>2. CASE ImportResolves(d) \/ ProbeSucceeds(d) \/ InitFails(d) \/ LateSuccess(d)
    BY <2>2 DEF ImportResolves, ProbeSucceeds, InitFails, LateSuccess, EndPool, AnyRunning,
       Running, TypeOK
  <2>3. CASE Connected(d)
    BY <1>0, <2>3 DEF Connected, Settle, Running
  <2>4. CASE ImportRejects(d) \/ AttemptPoolEnded(d)
    BY <2>4 DEF ImportRejects, AttemptPoolEnded, Settle, AnyRunning, Running, closers
  <2> QED BY <1>1, <2>1, <2>2, <2>3, <2>4 DEF AttemptStep
<1>2. ASSUME NEW i \in 0..NumDelays, LoopHead(i), aborted' = aborted, db' = db PROVE Goal
  <2>1. CASE i = NumDelays
    BY <1>2, <2>1, ExhaustedEnds
  <2>2. CASE i # NumDelays /\ HasLiveDatabase
    BY <1>0, <1>2, <2>2 DEF HasLiveDatabase
  <2>3. CASE i # NumDelays /\ ~HasLiveDatabase
    BY <1>2, <2>3 DEF LoopHead
  <2> QED BY <2>1, <2>2, <2>3
<1>3. CASE BootResumes
  BY <1>0, <1>2, <1>3 DEF BootResumes
<1>4. CASE TimerFires \/ LoopStops \/ LoopJoins \/ \E d \in Dbs : LoopStarts(d)
  BY <1>0, <1>4 DEF TimerFires, LoopStops, LoopJoins, LoopStarts, HasLiveDatabase
<1>5. CASE LoopResumes
  <2>1. CASE loopPc = "succeeded"
    BY <1>0, <1>5, <2>1 DEF LoopResumes
  <2> QED BY <1>2, <1>5, <2>1 DEF LoopResumes, TypeOK
<1>6. ASSUME NEW c \in Callers,
             \/ ReloadRefused(c) \/ ReloadFindsLive(c) \/ ReloadJoins(c)
             \/ \E d \in Dbs : ReloadStarts(c, d)
      PROVE  FALSE
  BY <1>6 DEF ReloadRefused, ReloadFindsLive, ReloadJoins, ReloadStarts, TypeOK
<1>7. ASSUME NEW k \in Closers, CallClose(k) \/ CloserStep(k) PROVE FALSE
  BY <1>7 DEF CallClose, CloserStep, CloserResumes, CloserReady, CloserPoolEnded
<1>8. CASE UNCHANGED vars
  BY <1>8 DEF vars, loop, objects, AnyRunning
<1> QED BY <1>1, <1>3, <1>4, <1>5, <1>6, <1>7, <1>8 DEF Next, LoopStep

LEMMA FinishEnds ==
    ASSUME IInv, IInv', EndsFollow, NEW k \in Closers, FinishOrEnd(k), Drained,
           bootPc = "exposed", closerPc[k] \in {"idle", "draining"},
           UNCHANGED phase
    PROVE  EndsFollow'
<1>1. CASE db # NoDb /\ ~poolClosed[db] /\ pool[db] # "none"
  <2>1. phase[db] = "true" /\ db \in Dbs
    BY <1>1 DEF Drained, TypeOK
  <2>2. closerPc'[k] = "ending" /\ ends' = [ends EXCEPT ![db] = @ + 1]
    BY <1>1 DEF FinishOrEnd, TypeOK
  <2>3. ASSUME OneCloses' PROVE ends[db] = 0
    <3>1. \A l \in Closers : l # k => closerPc'[l] = "idle"
      BY <2>2, <2>3 DEF OneCloses
    <3>2. \A l \in Closers : l # k => closerPc[l] = "idle"
      BY <1>1, <3>1 DEF FinishOrEnd, TypeOK
    <3> QED BY <2>1, <3>2 DEF EndsFollow
  <2>4. OneCloses' => OneCloses
    BY <1>1 DEF OneCloses, FinishOrEnd, TypeOK
  <2>5. \A d \in Dbs : d # db => ends'[d] = ends[d]
    BY <2>1, <2>2 DEF TypeOK
  <2>6. OneCloses' => ends'[db] <= 1
    BY <2>1, <2>2, <2>3 DEF TypeOK
  <2>7. \A l \in Closers : closerPc'[l] \in {"idle", "draining"}
                          => closerPc[l] \in {"idle", "draining"}
    BY <1>1 DEF FinishOrEnd, TypeOK
  <2> QED BY <2>1, <2>2, <2>4, <2>5, <2>6, <2>7 DEF EndsFollow
<1>2. CASE ~(db # NoDb /\ ~poolClosed[db] /\ pool[db] # "none")
  <2>1. closerPc' = [closerPc EXCEPT ![k] = "done"] /\ ends' = ends
    BY <1>2 DEF FinishOrEnd
  <2>2. OneCloses' => OneCloses
    BY <2>1 DEF OneCloses, TypeOK
  <2>3. \A l \in Closers : closerPc'[l] \in {"idle", "draining"}
                          => closerPc[l] \in {"idle", "draining"}
    BY <2>1 DEF TypeOK
  <2> QED BY <2>1, <2>2, <2>3 DEF EndsFollow
<1> QED BY <1>1, <1>2

LEMMA EndsFollowStep == IInv /\ IInv' /\ EndsFollow /\ [Next]_vars => EndsFollow'
<1> SUFFICES ASSUME IInv, IInv', EndsFollow, [Next]_vars PROVE EndsFollow'
  OBVIOUS
<1>1. ASSUME NEW d \in Dbs, AttemptStep(d) PROVE EndsFollow'
  <2>1. closerPc' = closerPc /\ \A e \in Dbs \ {d} : ends'[e] = ends[e] /\ phase'[e] = phase[e]
    BY <1>1 DEF AttemptStep, ImportResolves, ImportRejects, ProbeSucceeds, InitFails,
       LateSuccess, Connected, AttemptPoolEnded, EndPool, Settle, closers, TypeOK
  <2>2. CASE InitFails(d) \/ LateSuccess(d)
    <3>1. ends[d] = 0 /\ ends'[d] = ends[d] + 1 /\ phase'[d] = "ending"
      BY <2>2 DEF InitFails, LateSuccess, EndPool, EndsFollow, TypeOK
    <3> QED BY <2>1, <3>1 DEF EndsFollow, OneCloses
  <2>3. CASE \/ ImportResolves(d) \/ ImportRejects(d) \/ ProbeSucceeds(d)
             \/ Connected(d) \/ AttemptPoolEnded(d)
    <3>1. ends' = ends
      BY <2>3 DEF ImportResolves, ImportRejects, ProbeSucceeds, Connected, AttemptPoolEnded
    <3>2. phase'[d] \in {"probing", "machines", "true"} => ends[d] = 0
      BY <2>3 DEF ImportResolves, ImportRejects, ProbeSucceeds, Connected, AttemptPoolEnded,
         Settle, EndsFollow, TypeOK
    <3>3. phase'[d] \in {"probing", "machines", "true", "false"}
      BY <2>3 DEF ImportResolves, ImportRejects, ProbeSucceeds, Connected, AttemptPoolEnded,
         Settle, TypeOK
    <3> QED BY <2>1, <3>1, <3>2, <3>3 DEF EndsFollow, OneCloses
  <2> QED BY <1>1, <2>2, <2>3 DEF AttemptStep
<1>2. ASSUME NEW d \in Dbs, BeginAttempt(d), UNCHANGED closers PROVE EndsFollow'
  <2>1. ends'[d] = 0 /\ \A e \in Dbs \ {d} : ends'[e] = ends[e] /\ phase'[e] = phase[e]
    BY <1>2 DEF BeginAttempt, TypeOK
  <2> QED BY <1>2, <2>1 DEF EndsFollow, OneCloses, closers
<1>3. CASE \/ BootResumes \/ TimerFires \/ LoopStops \/ LoopJoins \/ LoopResumes
           \/ \E c \in Callers : ReloadRefused(c) \/ ReloadFindsLive(c) \/ ReloadJoins(c)
           \/ UNCHANGED vars
  <2>1. UNCHANGED <<phase, ends, closerPc>>
    BY <1>3 DEF BootResumes, TimerFires, LoopStops, LoopJoins, LoopResumes, ReloadRefused,
       ReloadFindsLive, ReloadJoins, objects, closers, vars
  <2> QED BY <2>1 DEF EndsFollow, OneCloses
<1>4. ASSUME NEW k \in Closers, CallClose(k) PROVE EndsFollow'
  <2>1. CASE Drained
    BY <1>4, <2>1, FinishEnds DEF CallClose
  <2>2. CASE ~Drained
    <3>1. closerPc' = [closerPc EXCEPT ![k] = "draining"] /\ closerPc[k] = "idle"
          /\ UNCHANGED <<phase, ends>>
      BY <1>4, <2>2 DEF CallClose
    <3>2. OneCloses' => OneCloses
      BY <3>1 DEF OneCloses, TypeOK
    <3> QED BY <3>1, <3>2 DEF EndsFollow, TypeOK
  <2> QED BY <2>1, <2>2
<1>5. ASSUME NEW k \in Closers, CloserResumes(k) PROVE EndsFollow'
  BY <1>5, FinishEnds DEF CloserResumes, CloserReady
<1>6. ASSUME NEW k \in Closers, CloserPoolEnded(k) PROVE EndsFollow'
  <2>1. closerPc' = [closerPc EXCEPT ![k] = "done"] /\ closerPc[k] = "ending"
        /\ UNCHANGED <<phase, ends>>
    BY <1>6 DEF CloserPoolEnded
  <2>2. OneCloses' => OneCloses
    BY <2>1 DEF OneCloses, TypeOK
  <2> QED BY <2>1, <2>2 DEF EndsFollow, TypeOK
<1> QED BY <1>1, <1>2, <1>3, <1>4, <1>5, <1>6
        DEF Next, LoopStep, CloserStep, BootConnects, LoopStarts, ReloadStarts

LEMMA ExtraHolds == Spec => []Extra
<1>1. IInv /\ IInv' /\ Extra /\ [Next]_vars => Extra'
  BY AnnouncedStep, ScheduleOwnsStep, RetriesStep, EndsFollowStep DEF Extra
<1> QED BY <1>1, ExtraAtInit, InvariantHolds, PTL DEF Spec

\* For every number of delays, callers and closers, what /health announces is
\* backed by a schedule: a next attempt has a sleeper, "reconnecting" a loop.
THEOREM StatusIsBacked == Spec => []StatusHasSchedule
<1>1. Extra => StatusHasSchedule
  BY DEF Extra, Announced
<1> QED BY <1>1, ExtraHolds, PTL

\* As long as site code stays away, an exposed site without a connection has a
\* schedule that still runs, or one that is exhausted: retries never fade out.
THEOREM ScheduleGoesOn == Spec => []RetriesUntilDone
<1>1. Extra => RetriesUntilDone
  BY DEF Extra
<1> QED BY <1>1, ExtraHolds, PTL

\* However init(), the attempt's clean-up and one closeDatabase interleave, no
\* attempt's pool is ended twice.
THEOREM PoolsEndOnce == Spec => []PoolEndedOnce
<1>1. Extra => PoolEndedOnce
  BY DEF Extra, EndsFollow, PoolEndedOnce, OneCloses
<1> QED BY <1>1, ExtraHolds, PTL

=============================================================================
