------------------------------ MODULE Accounts ------------------------------
(***************************************************************************)
(* Accounts and sessions (security/thalia-security.ts, profile-password.ts,*)
(* session-revoke.ts, the session lookup of route-guard.ts and the users   *)
(* table's CRUD update).  A handler is one action for each stretch between *)
(* two awaits whose order against other requests matters; the rows it read *)
(* are what it goes on with.                                               *)
(*                                                                         *)
(* A request that is refused changes nothing and is not a step.  The       *)
(* throttle is LoginThrottle's.  A password stands for itself and for its  *)
(* hash: bcrypt compares equal exactly for the password that was hashed.   *)
(***************************************************************************)
EXTENDS Naturals, Sequences, FiniteSets

CONSTANTS
    Emails,         \* an e-mail address: one users row at most (unique column)
    Passwords,
    Clients,        \* one request at a time each
    NoOne,          \* no account, no password
    MaxSessions,    \* bound: sessions ever opened
    MaxTokens,      \* bound: reset links ever mailed
    MaxBoth         \* bound: sessions and reset links together

ASSUME AccountsAssumption ==
    /\ NoOne \notin Emails \cup Passwords
    /\ MaxSessions \in Nat /\ MaxTokens \in Nat /\ MaxBoth \in Nat

VARIABLES
    users,      \* the users table; role "none": no such row
    sessions,   \* the sessions table; the index is the sid; "ended" by
                \* logged_out or by its time of expiry
    req,        \* what each client's handler holds across its awaits
    mailed,     \* whom each reset link was mailed to; the index is the token
    (* history *)
    spent,      \* tokens that have set a password
    opened,     \* the password each session was opened with
    excused     \* sessions no completed revoke was meant to end

vars == <<users, sessions, req, mailed, spent, opened, excused>>

Rows == [role: {"none", "user", "admin"}, password: Passwords \cup {NoOne},
         locked: BOOLEAN, token: 0..MaxTokens, fresh: BOOLEAN]

Places == {"idle", "signingIn", "admitted", "changing", "revokingOthers",
           "resetting", "revokingAll", "settingUp"}

Requests == [at: Places, user: Emails \cup {NoOne}, role: {"none", "user", "admin"},
             password: Passwords \cup {NoOne}, token: 0..MaxTokens, sid: 0..MaxSessions]

Session == [user: Emails, state: {"live", "ended"}]

TypeOK ==
    /\ users \in [Emails -> Rows]
    /\ \A e \in Emails : /\ users[e].role = "none" <=> users[e].password = NoOne
                         /\ users[e].fresh => users[e].token # 0
    /\ sessions \in Seq(Session)
    /\ Len(sessions) <= MaxSessions /\ Len(opened) = Len(sessions)
    /\ req \in [Clients -> Requests]
    /\ \A c \in Clients : req[c].user = NoOne <=> req[c].at \in {"idle", "settingUp"}
    /\ mailed \in Seq(Emails) /\ Len(mailed) <= MaxTokens
    /\ spent \subseteq 1..Len(mailed)
    /\ opened \in Seq(Passwords)
    /\ excused \subseteq 1..Len(sessions)

Row(r, p) == [role |-> r, password |-> p, locked |-> FALSE, token |-> 0, fresh |-> FALSE]
NoRow == Row("none", NoOne)

Request(place, e, r, p, t, s) ==
    [at |-> place, user |-> e, role |-> r, password |-> p, token |-> t, sid |-> s]
Idle == Request("idle", NoOne, "none", NoOne, 0, 0)

Init ==
    /\ users = [e \in Emails |-> NoRow]
    /\ sessions = <<>> /\ mailed = <<>>
    /\ req = [c \in Clients |-> Idle]
    /\ spent = {} /\ opened = <<>> /\ excused = {}

-----------------------------------------------------------------------------
(* Tables *)

Registered(e) == users[e].role # "none"

NewRow(e, r, p) ==
    /\ ~Registered(e)
    /\ users' = [users EXCEPT ![e] = Row(r, p)]

Sids == 1..Len(sessions)
Live(s) == sessions[s].state = "live"

\* getSessionUserAuth finds a user and not a guest.
IgnoresLock(s) == Live(s)                                 \* mutant
Authenticates(s) == Live(s) /\ ~users[sessions[s].user].locked

\* UPDATE sessions SET logged_out = true WHERE sid in S
LogOut(S) ==
    sessions' = [s \in Sids |-> IF s \in S THEN [sessions[s] EXCEPT !.state = "ended"]
                                           ELSE sessions[s]]

SessionsOf(e) == {s \in Sids : sessions[s].user = e}

\* UPDATE users SET password = p and no reset token WHERE id = e
SetPassword(e, p) ==
    users' = [users EXCEPT ![e] = [@ EXCEPT !.password = p, !.token = 0, !.fresh = FALSE]]

ActiveAdminExists ==                                      \* mutant
    \E e \in Emails : users[e].role = "admin" /\ ~users[e].locked
AdminExists == \E e \in Emails : users[e].role = "admin"

Room == Len(sessions) + Len(mailed) < MaxBoth

At(c, place) == req[c].at = place
Goes(c, next) == req' = [req EXCEPT ![c] = next]

-----------------------------------------------------------------------------
(* Signing in and out *)

\* The row is read, the password compared with it, and the row's lock tested.
LogonReads(c, e, p) ==
    /\ At(c, "idle") /\ Registered(e) /\ users[e].password = p /\ ~users[e].locked
    /\ Goes(c, Request("signingIn", e, "none", p, 0, 0))
    /\ UNCHANGED <<users, sessions, mailed, spent, opened, excused>>

\* Requests that have set a password of e and have yet to revoke sessions.
Revoking(e) ==
    {c \in Clients : req[c].user = e /\ req[c].at \in {"revokingAll", "revokingOthers"}}

\* A sign-in that was overtaken by a password is no concern of a revoke that
\* is already over.
Overtaken(c) == req[c].password # users[req[c].user].password /\ Revoking(req[c].user) = {}

LogonInserts(c) ==
    /\ At(c, "signingIn") /\ Len(sessions) < MaxSessions /\ Room
    /\ sessions' = Append(sessions, [user |-> req[c].user, state |-> "live"])
    /\ opened' = Append(opened, req[c].password)
    /\ excused' = IF Overtaken(c) THEN excused \cup {Len(sessions) + 1} ELSE excused
    /\ Goes(c, Idle)
    /\ UNCHANGED <<users, mailed, spent>>

Logout(s) ==
    /\ s \in Sids /\ Live(s) /\ LogOut({s})
    /\ UNCHANGED <<users, req, mailed, spent, opened, excused>>

SessionExpires(s) ==
    /\ s \in Sids /\ Live(s)
    /\ sessions' = [sessions EXCEPT ![s].state = "ended"]
    /\ UNCHANGED <<users, req, mailed, spent, opened, excused>>

-----------------------------------------------------------------------------
(* Forgotten passwords *)

\* Mutant of Forgot: a row that has a fresh token keeps it.
ForgotKeepsToken(e) ==
    /\ Registered(e) /\ Len(mailed) < MaxTokens /\ Room
    /\ mailed' = Append(mailed, e)
    /\ users' = [users EXCEPT ![e] = [@ EXCEPT !.token = IF users[e].fresh THEN @ ELSE Len(mailed) + 1,
                                               !.fresh = TRUE]]
    /\ UNCHANGED <<sessions, req, spent, opened, excused>>

\* The select and the update of forgotPassword: nothing the update writes
\* depends on what was read but the row's id, which never changes.
Forgot(e) ==
    /\ Registered(e) /\ Len(mailed) < MaxTokens /\ Room
    /\ mailed' = Append(mailed, e)
    /\ users' = [users EXCEPT ![e] = [@ EXCEPT !.token = Len(mailed) + 1, !.fresh = TRUE]]
    /\ UNCHANGED <<sessions, req, spent, opened, excused>>

TokenExpires(e) ==
    /\ users[e].fresh
    /\ users' = [users EXCEPT ![e].fresh = FALSE]
    /\ UNCHANGED <<sessions, req, mailed, spent, opened, excused>>

\* A link opens the account that holds its token.
Opens(t, e) == users[e].token = t /\ users[e].fresh

ResetReads(c, t, e, p) ==
    /\ At(c, "idle") /\ Opens(t, e)
    /\ Goes(c, Request("resetting", e, "none", p, t, 0))
    /\ UNCHANGED <<users, sessions, mailed, spent, opened, excused>>

ForgetsSessions(c) ==                                     \* mutant
    /\ At(c, "resetting")
    /\ SetPassword(req[c].user, req[c].password)
    /\ spent' = spent \cup {req[c].token}
    /\ Goes(c, Idle)
    /\ UNCHANGED <<sessions, mailed, opened, excused>>
ResetUpdates(c) ==
    /\ At(c, "resetting")
    /\ SetPassword(req[c].user, req[c].password)
    /\ spent' = spent \cup {req[c].token}
    /\ Goes(c, [req[c] EXCEPT !.at = "revokingAll"])
    /\ UNCHANGED <<sessions, mailed, opened, excused>>

ResetRevokes(c) ==
    /\ At(c, "revokingAll")
    /\ LogOut(SessionsOf(req[c].user))
    /\ Goes(c, Idle)
    /\ UNCHANGED <<users, mailed, spent, opened, excused>>

-----------------------------------------------------------------------------
(* Requests of a signed-in user *)

\* The guard looks the session up once; the handler keeps what it found.
Admits(c, s) ==
    /\ At(c, "idle") /\ s \in Sids /\ Authenticates(s)
    /\ LET e == sessions[s].user IN Goes(c, Request("admitted", e, users[e].role, NoOne, 0, s))
    /\ UNCHANGED <<users, sessions, mailed, spent, opened, excused>>

\* The current password p is compared with a row that is read anew.
ChangeReads(c, p, q) ==
    /\ At(c, "admitted") /\ q # p
    /\ users[req[c].user].password = p /\ ~users[req[c].user].locked
    /\ Goes(c, [req[c] EXCEPT !.at = "changing", !.password = q])
    /\ UNCHANGED <<users, sessions, mailed, spent, opened, excused>>

ChangeUpdates(c) ==
    /\ At(c, "changing")
    /\ SetPassword(req[c].user, req[c].password)
    /\ Goes(c, [req[c] EXCEPT !.at = "revokingOthers"])
    /\ UNCHANGED <<sessions, mailed, spent, opened, excused>>

ChangeRevokes(c) ==
    /\ At(c, "revokingOthers")
    /\ LogOut(SessionsOf(req[c].user) \ {req[c].sid})
    /\ excused' = excused \cup {req[c].sid}
    /\ Goes(c, Idle)
    /\ UNCHANGED <<users, mailed, spent, opened>>

\* POST /users/update/<id> with the field locked.
EditLocks(c, e, b) ==
    /\ At(c, "admitted") /\ req[c].role = "admin" /\ Registered(e)
    /\ users' = [users EXCEPT ![e].locked = b]
    /\ Goes(c, Idle)
    /\ UNCHANGED <<sessions, mailed, spent, opened, excused>>

-----------------------------------------------------------------------------
(* New accounts *)

SetupChecks(c) ==
    /\ At(c, "idle") /\ ~AdminExists
    /\ Goes(c, Request("settingUp", NoOne, "none", NoOne, 0, 0))
    /\ UNCHANGED <<users, sessions, mailed, spent, opened, excused>>

SetupInserts(c, e, p) ==
    /\ At(c, "settingUp") /\ NewRow(e, "admin", p)
    /\ Goes(c, Idle)
    /\ UNCHANGED <<sessions, mailed, spent, opened, excused>>

CreateNewUser(e, p) ==
    /\ NewRow(e, "user", p)
    /\ UNCHANGED <<sessions, req, mailed, spent, opened, excused>>

-----------------------------------------------------------------------------

\* A handler answers without its next step: a form it refuses, or a query that
\* fails and is caught.  What was done stays done, a missing revoke too.
GivesUp(c) ==
    /\ ~At(c, "idle")
    /\ excused' = IF c \in Revoking(req[c].user) THEN excused \cup SessionsOf(req[c].user) ELSE excused
    /\ Goes(c, Idle)
    /\ UNCHANGED <<users, sessions, mailed, spent, opened>>

HandlerStep(c) ==
    \/ \E e \in Emails, p \in Passwords : LogonReads(c, e, p) \/ SetupInserts(c, e, p)
    \/ LogonInserts(c)
    \/ \E t \in 1..Len(mailed), e \in Emails, p \in Passwords : ResetReads(c, t, e, p)
    \/ ResetUpdates(c) \/ ResetRevokes(c)
    \/ \E s \in Sids : Admits(c, s)
    \/ \E p, q \in Passwords : ChangeReads(c, p, q)
    \/ ChangeUpdates(c) \/ ChangeRevokes(c)
    \/ \E e \in Emails, b \in BOOLEAN : EditLocks(c, e, b)
    \/ SetupChecks(c) \/ GivesUp(c)

Next ==
    \/ \E c \in Clients : HandlerStep(c)
    \/ \E s \in Sids : Logout(s) \/ SessionExpires(s)
    \/ \E e \in Emails : Forgot(e) \/ TokenExpires(e)
    \/ \E e \in Emails, p \in Passwords : CreateNewUser(e, p)

Spec == Init /\ [][Next]_vars

-----------------------------------------------------------------------------
(* Properties *)

\* A session that was opened with a password no longer in force is live only
\* while a request that set a password is about to revoke, or if it was kept
\* by the change of its own user, signed in across the change, or if the
\* revoke failed: sessions are revoked by every path that sets a password.
StaleSessionsExplained ==
    \A s \in Sids :
        Live(s) /\ opened[s] # users[sessions[s].user].password
            => s \in excused \/ Revoking(sessions[s].user) # {}

\* A link opens only the account it was mailed to, while it has not set a
\* password and no later one was mailed there: however requests overlap, an
\* older link never opens an account and a used one never opens it again.
OnlyLatestLinkOpens ==
    \A t \in 1..Len(mailed), e \in Emails :
        Opens(t, e) => /\ mailed[t] = e /\ t \notin spent
                       /\ \A later \in (t + 1)..Len(mailed) : mailed[later] # e

\* Requests that may yet open a session of e or set its password, the reset
\* links aside.
Entering(e) == {c \in Clients : req[c].user = e /\ req[c].at \in {"signingIn", "admitted", "changing"}}

\* Nobody new gets in while an account is locked.  The requests that were on
\* their way in at the time may still end, in one session or one change of
\* the password each; after that there is no session, and no password but
\* one set by a reset link, until an admin unlocks the account.
LockHolds ==
    [][\A e \in Emails : users[e].locked /\ users'[e].locked =>
        /\ Entering(e)' \subseteq Entering(e)
        /\ SessionsOf(e)' # SessionsOf(e) => Entering(e)' # Entering(e)
        /\ users'[e].password # users[e].password =>
              Entering(e)' # Entering(e) \/ \E c \in Clients : ResetUpdates(c)]_vars

Admins == {e \in Emails : users[e].role = "admin"}
PastCheck == {c \in Clients : At(c, "settingUp")}

\* From the first admin on, no submission of the first-run form, which is open
\* to everyone, passes its check; those that had passed it before make one
\* admin each at the most.  (What admins write to the column role is not
\* modelled.)
SetupStaysClosed ==
    [][Admins # {} =>
        /\ Admins \subseteq Admins' /\ PastCheck' \subseteq PastCheck
        /\ Admins' # Admins => \E c \in PastCheck, e \in Emails :
                                 Admins' = Admins \cup {e} /\ PastCheck' = PastCheck \ {c}]_vars

=============================================================================
