---------------------------- MODULE LoginThrottle ----------------------------
(***************************************************************************)
(* One row of auth_login_throttles (security/login-throttle.ts): one       *)
(* client address and one action.  Requests check the row, work, and then  *)
(* record an attempt in a transaction or clear the row; between these the  *)
(* clock moves, other requests run, and one that began later may be        *)
(* recorded first.                                                         *)
(*                                                                         *)
(* The row of action "logon" counts an attempt when the password was       *)
(* wrong, with the time at which the request began.  "form" stands for     *)
(* forgotPassword, resetPassword, setup and createNewUser: every           *)
(* submission counts, before it is worked on.                              *)
(***************************************************************************)
EXTENDS SlidingWindow

CONSTANTS
    Requests,
    MaxAttempts,    \* MAX_BAD_PASSWORD_ATTEMPTS
    Window,         \* BAD_PASSWORD_WINDOW_MS
    LockTime,       \* TEMPORARY_LOCK_MS
    MaxTime         \* bound: ticks of the clock

ASSUME LoginThrottleAssumption ==
    /\ MaxAttempts \in Nat \ {0}
    /\ Window \in Nat \ {0} /\ LockTime \in Nat /\ LockTime >= Window
    /\ MaxTime \in Nat \ {0}

VARIABLES
    action,     \* which row: "logon" or "form"
    failureTimestamps, lockedUntil, \* the row; no row is <<>> and 0
    pc,         \* where each request is
    attemptTime,\* the time it records or checks with
    (* history *)
    recorded,   \* times of the attempts recorded since the row was last cleared
    admitted    \* times of the submissions let through ("form")

row == <<failureTimestamps, lockedUntil>>
vars == <<action, now, row, pc, attemptTime, recorded, admitted>>

Busy == {"checking", "verifying", "recording", "clearing"}
Over == {"idle", "blocked", "refused", "signedIn", "admitted", "unchecked"}

TypeOK ==
    /\ action \in {"logon", "form"}
    /\ now \in 1..MaxTime
    /\ failureTimestamps \in Seq(1..MaxTime) /\ Len(failureTimestamps) <= MaxAttempts
    /\ lockedUntil \in 0..(MaxTime + LockTime)
    /\ pc \in [Requests -> Busy \cup Over]
    /\ attemptTime \in [Requests -> 0..MaxTime]
    /\ recorded \in Seq(1..MaxTime) /\ admitted \in Seq(1..MaxTime)

Init ==
    /\ action \in {"logon", "form"}
    /\ now = 1
    /\ failureTimestamps = <<>> /\ lockedUntil = 0
    /\ pc = [r \in Requests |-> "idle"]
    /\ attemptTime = [r \in Requests |-> 0]
    /\ recorded = <<>> /\ admitted = <<>>

\* isTemporarilyLocked
Locked(until, t) == until > t

-----------------------------------------------------------------------------

\* attemptTime = new Date(), and checkAuthThrottleLimited is called.
Begin(r) ==
    /\ pc[r] \in Over
    /\ pc' = [pc EXCEPT ![r] = "checking"]
    /\ attemptTime' = [attemptTime EXCEPT ![r] = now]
    /\ UNCHANGED <<action, now, row, recorded, admitted>>

\* A request that is not blocked goes on to its form and password, or, when
\* every submission counts, records itself with a clock of its own.
GoesOn(r) ==
    /\ pc' = [pc EXCEPT ![r] = IF action = "form" THEN "recording" ELSE "verifying"]
    /\ attemptTime' = IF action = "form" THEN [attemptTime EXCEPT ![r] = now] ELSE attemptTime

CheckAnswers(r) ==
    /\ pc[r] = "checking"
    /\ IF Locked(lockedUntil, attemptTime[r])
       THEN pc' = [pc EXCEPT ![r] = "blocked"] /\ UNCHANGED attemptTime
       ELSE GoesOn(r)
    /\ UNCHANGED <<action, now, row, recorded, admitted>>

\* No table, no connection: the throttle fails open.
CheckErrs(r) ==
    /\ pc[r] = "checking"
    /\ GoesOn(r)
    /\ UNCHANGED <<action, now, row, recorded, admitted>>

\* The password has been compared; an empty form or a locked account ends the
\* request without recording anything.
Verifies(r, outcome) ==
    /\ pc[r] = "verifying"
    /\ outcome \in {"recording", "clearing", "refused"}
    /\ pc' = [pc EXCEPT ![r] = outcome]
    /\ UNCHANGED <<action, now, row, attemptTime, recorded, admitted>>

\* slice(-MAX_BAD_PASSWORD_ATTEMPTS)
Latest(stamps) ==
    SubSeq(stamps, IF Len(stamps) > MaxAttempts THEN Len(stamps) - MaxAttempts + 1 ELSE 1,
           Len(stamps))

\* nextFailureState, for an attempt made at time t.
Counted(t) == Latest(Append(Prune(failureTimestamps, t, Window), t))

RestartsLock(t) ==                                   \* mutant
    [stamps |-> Counted(t),
     until |-> IF Len(Counted(t)) >= MaxAttempts THEN t + LockTime ELSE 0]
OffByOne(t) ==                                       \* mutant
    IF Locked(lockedUntil, t)
    THEN [stamps |-> failureTimestamps, until |-> lockedUntil]
    ELSE LET stamps == Append(Prune(failureTimestamps, t, Window), t) IN
         [stamps |-> Latest(stamps),
          until |-> IF Len(stamps) > MaxAttempts THEN t + LockTime ELSE 0]
NextFailureState(t) ==
    IF Locked(lockedUntil, t)
    THEN [stamps |-> failureTimestamps, until |-> lockedUntil]
    ELSE [stamps |-> Counted(t),
          until |-> IF Len(Counted(t)) >= MaxAttempts THEN t + LockTime ELSE 0]

\* recordFailure: one transaction.  The answer says whether the row is locked
\* for this attempt, by itself or already.
Records(r) ==
    /\ pc[r] = "recording"
    /\ LET t == attemptTime[r]
           next == NextFailureState(t) IN
       /\ failureTimestamps' = next.stamps
       /\ lockedUntil' = next.until
       /\ recorded' = IF Locked(lockedUntil, t) THEN recorded ELSE Append(recorded, t)
       /\ IF Locked(next.until, t)
          THEN pc' = [pc EXCEPT ![r] = "blocked"] /\ UNCHANGED admitted
          ELSE IF action = "form"
          THEN /\ pc' = [pc EXCEPT ![r] = "admitted"]
               /\ admitted' = Append(admitted, t)
          ELSE pc' = [pc EXCEPT ![r] = "refused"] /\ UNCHANGED admitted
    /\ UNCHANGED <<action, now, attemptTime>>

RecordErrs(r) ==
    /\ pc[r] = "recording"
    /\ pc' = [pc EXCEPT ![r] = IF action = "form" THEN "unchecked" ELSE "refused"]
    /\ UNCHANGED <<action, now, row, attemptTime, recorded, admitted>>

\* clearAuthThrottle after the right password; an error is only logged.
Clears(r) ==
    /\ pc[r] = "clearing"
    /\ pc' = [pc EXCEPT ![r] = "signedIn"]
    /\ failureTimestamps' = <<>> /\ lockedUntil' = 0 /\ recorded' = <<>>
    /\ UNCHANGED <<action, now, attemptTime, admitted>>

\* Somebody at this address changes a password in a profile (profile-password.ts).
ProfileClears ==
    /\ action = "logon"
    /\ failureTimestamps' = <<>> /\ lockedUntil' = 0 /\ recorded' = <<>>
    /\ UNCHANGED <<action, now, pc, attemptTime, admitted>>

ClearErrs(r) ==
    /\ pc[r] = "clearing"
    /\ pc' = [pc EXCEPT ![r] = "signedIn"]
    /\ UNCHANGED <<action, now, row, attemptTime, recorded, admitted>>

Tick ==
    /\ now < MaxTime
    /\ now' = now + 1
    /\ UNCHANGED <<action, row, pc, attemptTime, recorded, admitted>>

Next ==
    \/ Tick \/ ProfileClears
    \/ \E r \in Requests :
         \/ Begin(r) \/ CheckAnswers(r) \/ CheckErrs(r)
         \/ \E outcome \in Busy \cup Over : Verifies(r, outcome)
         \/ Records(r) \/ RecordErrs(r) \/ Clears(r) \/ ClearErrs(r)

Spec == Init /\ [][Next]_vars

-----------------------------------------------------------------------------

\* How many of the times in seq lie in the window that ends at t.
Within(seq, t) == Cardinality({i \in 1..Len(seq) : seq[i] <= t /\ t < seq[i] + Window})

\* The attempts were recorded in the order in which they were made.  When one
\* is overtaken, the later ones are pruned with it: t <= now in Prune.
InOrder(seq) == \A i, j \in 1..Len(seq) : i < j => seq[i] <= seq[j]

\* A recorded attempt that is the MaxAttempts-th within one window locks the
\* row: no attempt is missing from the count, unless one was overtaken.
NthAttemptLocks ==
    [][Len(recorded') > Len(recorded) /\ InOrder(recorded') =>
         \A i \in 1..Len(recorded') :
             LET t == recorded'[i] IN
             Within(recorded', t) >= MaxAttempts /\ Within(recorded, t) < MaxAttempts
                 => lockedUntil' >= t + LockTime]_vars

\* A lock is in force only after MaxAttempts attempts within one window:
\* nobody is locked out by attempts that have left it.
LocksForAReason ==
    lockedUntil # 0 => Within(recorded, lockedUntil - LockTime) >= MaxAttempts

\* A lock in force ends early only when the row of logon is cleared; other
\* attempts, recorded late or in time, and the errors of the store neither
\* shorten nor lengthen it, and no request through a form ends it.
LockStands ==
    [][lockedUntil > now =>
          \/ lockedUntil' = lockedUntil
          \/ action = "logon" /\ row' = <<<<>>, 0>>]_vars

\* Where every submission counts, fewer than MaxAttempts get through in any
\* window, however many are sent at once, unless one was overtaken.
AdmittedBounded ==
    InOrder(recorded) => \A i \in 1..Len(admitted) : Within(admitted, admitted[i]) < MaxAttempts

=============================================================================
