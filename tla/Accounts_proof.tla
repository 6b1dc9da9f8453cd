--------------------------- MODULE Accounts_proof ---------------------------
(***************************************************************************)
(* The properties of Accounts, for any number of accounts, passwords,      *)
(* requests, sessions and reset links.  The inductive invariant adds to    *)
(* the properties what a request still knows when it resumes: its account  *)
(* exists, its token was mailed to that account, its session is one of     *)
(* that account's.                                                         *)
(***************************************************************************)
EXTENDS Accounts, TLAPS

\* What is referred to exists.
Referents ==
    /\ \A s \in Sids : Registered(sessions[s].user)
    /\ \A c \in Clients : req[c].user # NoOne => Registered(req[c].user)
    /\ \A e \in Emails : users[e].token # 0 => Registered(e)

\* A submission of a reset link holds a token that was mailed to its account.
Submissions ==
    \A c \in Clients : At(c, "resetting") =>
        /\ req[c].token \in 1..Len(mailed)
        /\ mailed[req[c].token] = req[c].user
        /\ req[c].password # NoOne

\* A handler that writes a password or a session has one to write.
Handlers ==
    \A c \in Clients :
        /\ req[c].at \in {"signingIn", "changing"} => req[c].password # NoOne
        /\ req[c].at \in {"admitted", "changing", "revokingOthers"} => req[c].sid \in Sids

\* The token an account holds was mailed to it, later than any other, and has
\* not set a password.
TokensAreLatest ==
    \A e \in Emails : LET t == users[e].token IN
        t # 0 => /\ t <= Len(mailed) /\ mailed[t] = e /\ t \notin spent
                 /\ \A later \in (t + 1)..Len(mailed) : mailed[later] # e

IInv == TypeOK /\ Referents /\ Submissions /\ Handlers /\ StaleSessionsExplained
            /\ TokensAreLatest

-----------------------------------------------------------------------------
(* What the shared updates do *)

\* Logging out ends the sessions named and leaves the others as they are.
LEMMA LogOutEnds ==
    ASSUME TypeOK, NEW S \in SUBSET Sids, LogOut(S)
    PROVE  /\ sessions' \in Seq(Session) /\ Len(sessions') = Len(sessions)
           /\ \A s \in Sids : sessions'[s].user = sessions[s].user
           /\ \A s \in Sids : Live(s)' => s \notin S /\ Live(s)
<1>1. sessions \in Seq(Session)
  BY DEF TypeOK
<1>2. \A s \in Sids : sessions[s] \in Session
  BY <1>1 DEF Sids
<1>3. sessions' = [s \in 1..Len(sessions) |->
                     IF s \in S THEN [sessions[s] EXCEPT !.state = "ended"] ELSE sessions[s]]
  BY DEF LogOut, Sids
<1>4. \A s \in 1..Len(sessions) : [sessions[s] EXCEPT !.state = "ended"] \in Session
  BY <1>2 DEF Sids, Session
<1>5. sessions' \in [1..Len(sessions) -> Session]
  BY <1>2, <1>3, <1>4 DEF Sids
<1>6. Len(sessions) \in Nat
  BY <1>1
<1>7. sessions' \in Seq(Session) /\ Len(sessions') = Len(sessions)
  BY <1>5, <1>6
<1>8. \A s \in Sids : /\ sessions'[s].user = sessions[s].user
                      /\ sessions'[s].state = "live" => s \notin S /\ sessions[s].state = "live"
  BY <1>2, <1>3 DEF Sids, Session
<1> QED BY <1>7, <1>8 DEF Live, Sids

\* A password is set on one row, which loses its reset token.
LEMMA SetPasswordSets ==
    ASSUME TypeOK, NEW e \in Emails, NEW p \in Passwords, Registered(e), SetPassword(e, p)
    PROVE  /\ users' \in [Emails -> Rows]
           /\ users'[e].password = p /\ users'[e].token = 0 /\ ~users'[e].fresh
           /\ \A f \in Emails : users'[f].role = users[f].role /\ users'[f].locked = users[f].locked
           /\ \A f \in Emails \ {e} : users'[f] = users[f]
<1>1. /\ users[e] \in Rows /\ 0 \in 0..MaxTokens
  BY AccountsAssumption DEF TypeOK
<1>2. [users[e] EXCEPT !.password = p, !.token = 0, !.fresh = FALSE] \in Rows
  BY <1>1 DEF Rows
<1>3. users' = [users EXCEPT ![e] = [users[e] EXCEPT !.password = p, !.token = 0, !.fresh = FALSE]]
  BY DEF SetPassword
<1>4. users' \in [Emails -> Rows] /\ \A f \in Emails \ {e} : users'[f] = users[f]
  BY <1>2, <1>3 DEF TypeOK
<1>5. users'[e] = [users[e] EXCEPT !.password = p, !.token = 0, !.fresh = FALSE]
  BY <1>3 DEF TypeOK
<1>6. /\ users'[e].password = p /\ users'[e].token = 0 /\ users'[e].fresh = FALSE
      /\ users'[e].role = users[e].role /\ users'[e].locked = users[e].locked
  BY <1>1, <1>5 DEF Rows
<1> QED BY <1>4, <1>6

\* Rows of the sessions table.
LEMMA SessionRows ==
    ASSUME TypeOK
    PROVE  /\ \A s \in Sids : /\ sessions[s] \in Session
                              /\ sessions[s].user \in Emails /\ sessions[s].user # NoOne
           /\ Len(sessions) \in Nat
<1>1. sessions \in Seq(Session)
  BY DEF TypeOK
<1>2. \A s \in Sids : sessions[s] \in Session
  BY <1>1 DEF Sids
<1> QED BY <1>1, <1>2, AccountsAssumption DEF Session

\* A handler goes on; the others do not notice.
LEMMA GoesOn ==
    ASSUME TypeOK, NEW c \in Clients, NEW next \in Requests, Goes(c, next)
    PROVE  /\ req' \in [Clients -> Requests] /\ req'[c] = next
           /\ \A d \in Clients \ {c} : req'[d] = req[d]
  BY DEF TypeOK, Goes

\* The idle handler is a request like any other.
LEMMA IdleIsRequest ==
    /\ Idle \in Requests /\ Idle.at = "idle" /\ Idle.user = NoOne
  BY AccountsAssumption DEF Idle, Request, Requests, Places

LEMMA InitInv == Init => IInv
<1> SUFFICES ASSUME Init PROVE IInv
  OBVIOUS
<1>1. users \in [Emails -> Rows] /\ req \in [Clients -> Requests]
  BY AccountsAssumption DEF Init, NoRow, Row, Idle, Request, Rows, Requests, Places
<1>2. /\ sessions \in Seq([user: Emails, state: {"live", "ended"}]) /\ mailed \in Seq(Emails)
      /\ opened \in Seq(Passwords) /\ Len(sessions) = 0 /\ Len(opened) = 0 /\ Len(mailed) = 0
  BY DEF Init
<1>3. /\ \A e \in Emails : users[e].role = "none" /\ users[e].password = NoOne /\ ~users[e].fresh
      /\ \A c \in Clients : req[c].user = NoOne /\ req[c].at = "idle"
  BY DEF Init, NoRow, Row, Idle, Request
<1>4. spent = {} /\ excused = {}
  BY DEF Init
<1>5. TypeOK
  BY <1>1, <1>2, <1>3, <1>4, AccountsAssumption DEF TypeOK
<1>6. \A e \in Emails : users[e].token = 0
  BY DEF Init, NoRow, Row
<1> QED BY <1>2, <1>3, <1>5, <1>6
        DEF IInv, Referents, Submissions, Handlers, StaleSessionsExplained,
            TokensAreLatest, Sids, At

-----------------------------------------------------------------------------
(* The handlers preserve the invariant *)

\* A handler that has only read, or refuses and ends.
LEMMA ReadInv ==
    ASSUME IInv, NEW c \in Clients, NEW next \in Requests, Goes(c, next),
           UNCHANGED <<users, sessions, mailed, spent, opened, excused>>,
           req[c].at \notin {"revokingAll", "revokingOthers"},
           next.at \notin {"revokingAll", "revokingOthers"},
           next.user = NoOne <=> next.at \in {"idle", "settingUp"},
           next.user # NoOne => Registered(next.user),
           next.at = "resetting" => /\ next.token \in 1..Len(mailed)
                                    /\ mailed[next.token] = next.user,
           next.at \in {"signingIn", "resetting", "changing"} => next.password # NoOne,
           next.at \in {"admitted", "changing"} => next.sid \in Sids
    PROVE  IInv'
<1>1. /\ req' \in [Clients -> Requests] /\ req'[c] = next
      /\ \A d \in Clients \ {c} : req'[d] = req[d]
  BY GoesOn DEF IInv
<1>2. TypeOK'
  BY <1>1 DEF IInv, TypeOK
<1>3. Referents' /\ Submissions' /\ Handlers'
  BY <1>1 DEF IInv, Referents, Submissions, Handlers, Registered, Sids, At
<1>4. StaleSessionsExplained' /\ TokensAreLatest'
  BY <1>1 DEF IInv, StaleSessionsExplained, TokensAreLatest, Revoking, Sids, Live
<1> QED BY <1>2, <1>3, <1>4 DEF IInv

LEMMA LogonInsertsInv ==
    ASSUME IInv, NEW c \in Clients, LogonInserts(c)
    PROVE  IInv'
<1> DEFINE e == req[c].user
           n == Len(sessions) + 1
           new == [user |-> e, state |-> "live"]
<1>1. /\ req' \in [Clients -> Requests] /\ req'[c] = Idle
      /\ \A d \in Clients \ {c} : req'[d] = req[d]
  BY IdleIsRequest, GoesOn DEF LogonInserts, IInv
<1>2. /\ UNCHANGED <<users, mailed, spent>> /\ req[c].at = "signingIn" /\ n <= MaxSessions
      /\ sessions' = Append(sessions, new) /\ opened' = Append(opened, req[c].password)
      /\ excused' = IF Overtaken(c) THEN excused \cup {n} ELSE excused
  BY AccountsAssumption DEF LogonInserts, At, IInv, TypeOK
<1>3. /\ req[c] \in Requests /\ e \in Emails /\ e # NoOne /\ req[c].password \in Passwords
  BY <1>2, AccountsAssumption DEF IInv, TypeOK, Requests, Handlers
<1>4. /\ sessions' \in Seq(Session) /\ Len(sessions') = n /\ sessions'[n] = new
      /\ \A s \in Sids : sessions'[s] = sessions[s]
      /\ Sids' = Sids \cup {n} /\ n \notin Sids
  BY <1>2, <1>3 DEF IInv, TypeOK, Sids, Session
<1>5. /\ opened' \in Seq(Passwords) /\ Len(opened') = n /\ opened'[n] = req[c].password
      /\ \A s \in Sids : opened'[s] = opened[s]
  BY <1>2, <1>3 DEF IInv, TypeOK, Sids
<1>6. TypeOK'
  BY <1>1, <1>2, <1>4, <1>5, IdleIsRequest DEF IInv, TypeOK, Session, Sids
<1>7. Referents' /\ Submissions' /\ Handlers'
  <2>1. Referents'
    <3>1. \A f : Registered(f)' <=> Registered(f)
      BY <1>2 DEF Registered
    <3>2. Registered(e)
      BY <1>3 DEF IInv, Referents
    <3>3. \A s \in Sids' : Registered(sessions'[s].user)
      <4>1. sessions'[n].user = e
        BY <1>4
      <4> QED BY <1>4, <3>2, <4>1 DEF IInv, Referents
    <3>4. \A d \in Clients : req'[d].user # NoOne => Registered(req'[d].user)
      BY <1>1, IdleIsRequest DEF IInv, Referents
    <3> QED BY <1>2, <3>1, <3>3, <3>4 DEF IInv, Referents
  <2>2. Submissions'
    BY <1>1, <1>2, IdleIsRequest DEF IInv, Submissions, At
  <2>3. Handlers'
    BY <1>1, <1>4, IdleIsRequest DEF IInv, Handlers
  <2> QED BY <2>1, <2>2, <2>3
<1>8. \A f \in Emails : Revoking(f)' = Revoking(f)
  <2> SUFFICES ASSUME NEW f \in Emails, NEW d \in Clients
               PROVE  (d \in Revoking(f))' <=> d \in Revoking(f)
    BY DEF Revoking
  <2>1. CASE d = c
    BY <1>1, <1>2, IdleIsRequest, <2>1 DEF Revoking
  <2>2. CASE d # c
    BY <1>1, <2>2 DEF Revoking
  <2> QED BY <2>1, <2>2
<1>9. ASSUME NEW s \in Sids', sessions'[s].state = "live",
              opened'[s] # users'[sessions'[s].user].password
       PROVE  s \in excused' \/ Revoking(sessions[s].user)' # {}
  <2>1. CASE s = n
    <3>1. sessions'[n].user = e /\ opened'[n] # users[e].password
      <4>1. sessions'[n].user = e
        BY <1>4
      <4> QED BY <1>2, <1>9, <2>1, <4>1
    <3>2. CASE Overtaken(c)
      BY <1>2, <2>1, <3>2
    <3>3. CASE ~Overtaken(c)
      BY <1>3, <1>5, <1>8, <2>1, <3>1, <3>3 DEF Overtaken
    <3> QED BY <3>2, <3>3
  <2>2. CASE s \in Sids
    <3>1. sessions[s].user \in Emails
      BY <2>2, SessionRows DEF IInv
    <3>2. Live(s) /\ sessions'[s] = sessions[s] /\ opened[s] # users[sessions[s].user].password
      BY <1>2, <1>4, <1>5, <1>9, <2>2 DEF Live
    <3>3. s \in excused \/ Revoking(sessions[s].user) # {}
      BY <2>2, <3>2 DEF IInv, StaleSessionsExplained
    <3> QED BY <1>2, <1>8, <3>1, <3>2, <3>3
  <2> QED BY <1>4, <2>1, <2>2
<1>10. StaleSessionsExplained'
  BY <1>9 DEF StaleSessionsExplained, Live
<1>11. TokensAreLatest'
  BY <1>2 DEF IInv, TokensAreLatest
<1> QED BY <1>6, <1>7, <1>10, <1>11 DEF IInv

\* A handler that has set a password has the sessions of that account to revoke.
LEMMA PasswordInv ==
    ASSUME IInv, NEW c \in Clients, ResetUpdates(c) \/ ChangeUpdates(c)
    PROVE  IInv'
<1> DEFINE e == req[c].user
           p == req[c].password
           k == IF At(c, "resetting") THEN "revokingAll" ELSE "revokingOthers"
           next == [req[c] EXCEPT !.at = k]
<1>1. /\ req[c] \in Requests /\ e \in Emails /\ e # NoOne /\ p \in Passwords /\ Registered(e)
      /\ req[c].at \in {"resetting", "changing"}
  BY AccountsAssumption
  DEF IInv, TypeOK, Requests, Handlers, Submissions, Referents, ResetUpdates, ChangeUpdates, At
<1>2. /\ SetPassword(e, p) /\ Goes(c, next) /\ UNCHANGED <<sessions, mailed, opened, excused>>
      /\ spent' = spent \/ (At(c, "resetting") /\ spent' = spent \cup {req[c].token})
  BY <1>1 DEF ResetUpdates, ChangeUpdates, At
<1>3. /\ next \in Requests /\ next.at = k /\ next.user = e /\ next.sid = req[c].sid
      /\ k \in {"revokingAll", "revokingOthers"}
      /\ k = "revokingOthers" => req[c].at = "changing"
  BY <1>1 DEF Requests, Places, At
<1> HIDE DEF next, k
<1>4. /\ req' \in [Clients -> Requests] /\ req'[c] = next
      /\ \A d \in Clients \ {c} : req'[d] = req[d]
  BY <1>2, <1>3, GoesOn DEF IInv
<1>5. /\ users' \in [Emails -> Rows]
      /\ users'[e].password = p /\ users'[e].token = 0 /\ ~users'[e].fresh
      /\ \A f \in Emails : users'[f].role = users[f].role
      /\ \A f \in Emails \ {e} : users'[f] = users[f]
  BY <1>1, <1>2, SetPasswordSets DEF IInv
<1>6. At(c, "resetting") => req[c].token \in 1..Len(mailed) /\ mailed[req[c].token] = e
  BY DEF IInv, Submissions
<1>7. TypeOK'
  <2>1. \A f \in Emails : /\ users'[f].role = "none" <=> users'[f].password = NoOne
                          /\ users'[f].fresh => users'[f].token # 0
    BY <1>1, <1>5, AccountsAssumption DEF IInv, TypeOK, Registered
  <2>2. spent' \subseteq 1..Len(mailed)
    BY <1>2, <1>6 DEF IInv, TypeOK
  <2>3. \A d \in Clients : req'[d].user = NoOne <=> req'[d].at \in {"idle", "settingUp"}
    BY <1>1, <1>3, <1>4 DEF IInv, TypeOK
  <2> QED BY <1>2, <1>4, <1>5, <2>1, <2>2, <2>3 DEF IInv, TypeOK
<1>8. Referents' /\ Submissions' /\ Handlers'
  <2>1. Referents'
    <3>1. \A f \in Emails : users'[f].role = users[f].role
      BY <1>5
    <3>2. \A s \in Sids : users'[sessions[s].user].role # "none"
      BY <3>1, SessionRows DEF IInv, Referents, Registered
    <3>3. \A d \in Clients : req'[d].user = req[d].user /\ req[d].user \in Emails \cup {NoOne}
      BY <1>3, <1>4 DEF IInv, TypeOK, Requests
    <3>4. \A d \in Clients : req'[d].user # NoOne => users'[req'[d].user].role # "none"
      BY <3>1, <3>3 DEF IInv, Referents, Registered
    <3>5. \A f \in Emails : users'[f].token # 0 => users'[f].role # "none"
      BY <1>5 DEF IInv, Referents, Registered
    <3> QED BY <1>2, <3>2, <3>4, <3>5 DEF Referents, Registered, Sids
  <2>2. Submissions' /\ Handlers'
    BY <1>2, <1>3, <1>4 DEF IInv, Submissions, Handlers, At, Sids
  <2> QED BY <2>1, <2>2
<1>9. StaleSessionsExplained'
  <2> SUFFICES ASSUME NEW s \in Sids, Live(s), opened[s] # users'[sessions[s].user].password
               PROVE  s \in excused \/ Revoking(sessions[s].user)' # {}
    BY <1>2 DEF StaleSessionsExplained, Live, Sids
  <2>1. CASE sessions[s].user = e
    <3>1. c \in Revoking(sessions[s].user)'
      BY <1>2, <1>3, <1>4, <2>1 DEF Revoking
    <3> QED BY <3>1
  <2>2. CASE sessions[s].user # e
    <3>1. s \in excused \/ Revoking(sessions[s].user) # {}
      BY <1>5, <2>2, SessionRows DEF IInv, StaleSessionsExplained
    <3>2. Revoking(sessions[s].user) \subseteq Revoking(sessions[s].user)'
      BY <1>1, <1>2, <1>4, <2>2 DEF Revoking
    <3> QED BY <3>1, <3>2
  <2> QED BY <2>1, <2>2
<1>10. TokensAreLatest'
  <2> SUFFICES ASSUME NEW f \in Emails, users'[f].token # 0
               PROVE  LET t == users'[f].token IN
                      /\ t <= Len(mailed) /\ mailed[t] = f /\ t \notin spent'
                      /\ \A later \in (t + 1)..Len(mailed) : mailed[later] # f
    BY <1>2 DEF TokensAreLatest
  <2>1. f # e /\ users'[f] = users[f]
    BY <1>5
  <2> QED BY <1>2, <1>6, <2>1 DEF IInv, TokensAreLatest
<1> QED BY <1>7, <1>8, <1>9, <1>10 DEF IInv

\* A revoke ends every session of the account but those it keeps; what it
\* leaves undone is excused.
LEMMA RevokeInv ==
    ASSUME IInv, NEW c \in Clients, req[c].at \in {"revokingAll", "revokingOthers"},
           NEW kept \in SUBSET Sids, NEW S \in SUBSET Sids, LogOut(S),
           SessionsOf(req[c].user) \subseteq S \cup kept,
           excused' = excused \cup kept, Goes(c, Idle), UNCHANGED <<users, mailed, spent, opened>>
    PROVE  IInv'
<1>1. /\ req' \in [Clients -> Requests] /\ req'[c] = Idle
      /\ \A d \in Clients \ {c} : req'[d] = req[d]
  BY IdleIsRequest, GoesOn DEF IInv
<1>2. /\ sessions' \in Seq(Session) /\ Len(sessions') = Len(sessions) /\ Sids' = Sids
      /\ \A s \in Sids : sessions'[s].user = sessions[s].user
      /\ \A s \in Sids : Live(s)' => s \notin S /\ Live(s)
  BY LogOutEnds DEF IInv, Sids
<1>3. TypeOK'
  BY <1>1, <1>2, IdleIsRequest DEF IInv, TypeOK, Sids
<1>4. Referents' /\ Submissions' /\ Handlers'
  BY <1>1, <1>2, IdleIsRequest DEF IInv, Referents, Submissions, Handlers, Registered, At
<1>5. StaleSessionsExplained'
  <2> SUFFICES ASSUME NEW s \in Sids, Live(s), s \notin S,
                      opened[s] # users[sessions[s].user].password
               PROVE  s \in excused' \/ \E d \in Clients : d \in Revoking(sessions[s].user)'
    BY <1>2 DEF StaleSessionsExplained, Revoking
  <2>1. CASE sessions[s].user = req[c].user
    BY <2>1 DEF SessionsOf
  <2>2. CASE sessions[s].user # req[c].user
    <3>1. s \in excused \/ \E d \in Clients : d \in Revoking(sessions[s].user)
      BY DEF IInv, StaleSessionsExplained, Revoking
    <3>2. \A d \in Clients : d \in Revoking(sessions[s].user) => d \in Revoking(sessions[s].user)'
      BY <1>1, <1>2, <2>2 DEF Revoking
    <3> QED BY <3>1, <3>2
  <2> QED BY <2>1, <2>2
<1>6. TokensAreLatest'
  BY DEF IInv, TokensAreLatest
<1> QED BY <1>3, <1>4, <1>5, <1>6 DEF IInv

\* Sessions may end for reasons of their own.
LEMMA EndInv ==
    ASSUME IInv, NEW s \in Sids, LogOut({s}), UNCHANGED <<users, req, mailed, spent, opened, excused>>
    PROVE  IInv'
<1>1. /\ sessions' \in Seq(Session) /\ Len(sessions') = Len(sessions) /\ Sids' = Sids
      /\ \A r \in Sids : sessions'[r].user = sessions[r].user
      /\ \A r \in Sids : Live(r)' => Live(r)
  BY LogOutEnds DEF IInv, Sids
<1>2. TypeOK'
  BY <1>1 DEF IInv, TypeOK
<1>3. Referents' /\ Submissions' /\ Handlers'
  BY <1>1 DEF IInv, Referents, Submissions, Handlers, Registered, At
<1>4. StaleSessionsExplained' /\ TokensAreLatest'
  BY <1>1 DEF IInv, StaleSessionsExplained, TokensAreLatest, Revoking
<1> QED BY <1>2, <1>3, <1>4 DEF IInv

LEMMA ExpiryEnds ==
    ASSUME TypeOK, NEW s \in Sids, SessionExpires(s)
    PROVE  LogOut({s})
<1>1. sessions \in Seq(Session) /\ \A r \in Sids : sessions[r] \in Session
  BY SessionRows DEF TypeOK
<1>2. sessions = [r \in Sids |-> sessions[r]]
  BY <1>1 DEF Sids
<1> QED BY <1>2 DEF SessionExpires, LogOut

-----------------------------------------------------------------------------
(* Steps on the users table alone *)

LEMMA ForgotInv ==
    ASSUME IInv, NEW e \in Emails, Forgot(e)
    PROVE  IInv'
<1> DEFINE t == Len(mailed) + 1
           row == [users[e] EXCEPT !.token = t, !.fresh = TRUE]
<1>1. /\ UNCHANGED <<sessions, req, spent, opened, excused>> /\ Registered(e)
      /\ mailed' = Append(mailed, e) /\ users' = [users EXCEPT ![e] = row]
      /\ users[e] \in Rows /\ Len(mailed) \in Nat /\ t \in 1..MaxTokens
  BY AccountsAssumption DEF Forgot, IInv, TypeOK
<1>2. t = Len(mailed) + 1 /\ t # 0 /\ t \in 0..MaxTokens
  BY <1>1
<1> HIDE DEF t
<1>3. /\ row \in Rows /\ row.token = t /\ row.role = users[e].role /\ row.password = users[e].password
  BY <1>1, <1>2 DEF Rows
<1> HIDE DEF row
<1>4. /\ users' \in [Emails -> Rows] /\ users'[e] = row
      /\ \A f \in Emails \ {e} : users'[f] = users[f]
  BY <1>1, <1>3 DEF IInv, TypeOK
<1>5. /\ mailed' \in Seq(Emails) /\ Len(mailed') = t /\ mailed'[t] = e
      /\ \A i \in 1..Len(mailed) : mailed'[i] = mailed[i]
  BY <1>1, <1>2 DEF IInv, TypeOK
<1>6. TypeOK'
  BY <1>1, <1>3, <1>4, <1>5, <1>2 DEF IInv, TypeOK
<1>7. \A f \in Emails : users'[f].role = users[f].role /\ users'[f].password = users[f].password
  BY <1>3, <1>4
<1>8. Referents'
  <2>1. \A s \in Sids : users'[sessions[s].user].role # "none"
    BY <1>7, SessionRows DEF IInv, Referents, Registered
  <2>2. \A d \in Clients : req[d].user \in Emails \cup {NoOne}
    BY DEF IInv, TypeOK, Requests
  <2>3. \A d \in Clients : req[d].user # NoOne => users'[req[d].user].role # "none"
    BY <1>7, <2>2 DEF IInv, Referents, Registered
  <2>4. \A f \in Emails : users'[f].token # 0 => users'[f].role # "none"
    BY <1>1, <1>3, <1>4 DEF IInv, Referents, Registered
  <2> QED BY <1>1, <2>1, <2>3, <2>4 DEF Referents, Registered, Sids
<1>9. Submissions' /\ Handlers'
  BY <1>1, <1>5, <1>2 DEF IInv, Submissions, Handlers, At, Sids
<1>10. StaleSessionsExplained'
  BY <1>1, <1>7, SessionRows DEF IInv, StaleSessionsExplained, Revoking, Live, Sids
<1>11. TokensAreLatest'
  <2> SUFFICES ASSUME NEW f \in Emails, users'[f].token # 0
               PROVE  LET u == users'[f].token IN
                      /\ u <= Len(mailed') /\ mailed'[u] = f /\ u \notin spent
                      /\ \A later \in (u + 1)..Len(mailed') : mailed'[later] # f
    BY <1>1 DEF TokensAreLatest
  <2>1. CASE f = e
    BY <1>1, <1>3, <1>4, <1>5, <1>2, <2>1 DEF IInv, TypeOK
  <2>2. CASE f # e
    <3>1. /\ users'[f].token = users[f].token /\ users[f].token \in 1..Len(mailed)
          /\ mailed[users[f].token] = f /\ users[f].token \notin spent
          /\ \A later \in (users[f].token + 1)..Len(mailed) : mailed[later] # f
      BY <1>1, <1>4, <2>2 DEF IInv, TypeOK, Rows, TokensAreLatest
    <3> QED BY <1>5, <1>2, <2>2, <3>1
  <2> QED BY <2>1, <2>2
<1> QED BY <1>6, <1>8, <1>9, <1>10, <1>11 DEF IInv

\* A new row, or one with the same password and token, whatever its lock.
LEMMA RowInv ==
    ASSUME IInv, NEW e \in Emails, NEW row \in Rows,
           users' = [users EXCEPT ![e] = row],
           row.role = "none" <=> row.password = NoOne,
           Registered(e) => row.role # "none" /\ row.password = users[e].password,
           row.token \in {0, users[e].token},
           row.fresh => row.token # 0,
           req' \in [Clients -> Requests],
           \A c \in Clients :
              req'[c] # req[c] => req'[c] = Idle /\ req[c].at \notin {"revokingAll", "revokingOthers"},
           UNCHANGED <<sessions, mailed, spent, opened, excused>>
    PROVE  IInv'
<1>1. /\ users' \in [Emails -> Rows] /\ users'[e] = row
      /\ \A f \in Emails \ {e} : users'[f] = users[f]
  BY DEF IInv, TypeOK
<1>2. TypeOK'
  BY <1>1, IdleIsRequest DEF IInv, TypeOK
<1>3. \A f \in Emails : Registered(f) =>
          users'[f].role # "none" /\ users'[f].password = users[f].password
  BY <1>1 DEF Registered
<1>4. Referents'
  <2>1. \A s \in Sids : users'[sessions[s].user].role # "none"
    BY <1>3, SessionRows DEF IInv, Referents
  <2>2. \A d \in Clients : req[d].user \in Emails \cup {NoOne}
    BY DEF IInv, TypeOK, Requests
  <2>3. \A d \in Clients : req'[d].user # NoOne => users'[req'[d].user].role # "none"
    BY <1>3, <2>2, IdleIsRequest DEF IInv, Referents
  <2>4. \A f \in Emails : users'[f].token # 0 => users'[f].role # "none"
    BY <1>1, <1>3 DEF IInv, Referents
  <2> QED BY <2>1, <2>3, <2>4 DEF Referents, Registered, Sids
<1>5. Submissions' /\ Handlers'
  BY IdleIsRequest DEF IInv, Submissions, Handlers, At, Sids
<1>6. StaleSessionsExplained'
  <2> SUFFICES ASSUME NEW s \in Sids, Live(s), opened[s] # users'[sessions[s].user].password
               PROVE  s \in excused \/ \E d \in Clients : d \in Revoking(sessions[s].user)'
    BY DEF StaleSessionsExplained, Live, Sids, Revoking
  <2>1. s \in excused \/ \E d \in Clients : d \in Revoking(sessions[s].user)
    BY <1>3, SessionRows DEF IInv, StaleSessionsExplained, Referents, Revoking
  <2>2. \A d \in Clients : d \in Revoking(sessions[s].user) => d \in Revoking(sessions[s].user)'
    BY DEF Revoking
  <2> QED BY <2>1, <2>2
<1>7. TokensAreLatest'
  <2>1. \A f \in Emails : users'[f].token \in {0, users[f].token}
    BY <1>1
  <2> QED BY <2>1 DEF IInv, TokensAreLatest
<1> QED BY <1>2, <1>4, <1>5, <1>6, <1>7 DEF IInv

-----------------------------------------------------------------------------
(* Every step preserves the invariant *)

LEMMA StepInv == IInv /\ [Next]_vars => IInv'
<1> SUFFICES ASSUME IInv, [Next]_vars PROVE IInv'
  OBVIOUS
<1>1. ASSUME NEW c \in Clients, NEW e \in Emails, NEW p \in Passwords, LogonReads(c, e, p)
      PROVE  IInv'
  <2> DEFINE next == Request("signingIn", e, "none", p, 0, 0)
  <2>1. /\ next \in Requests /\ next.at = "signingIn" /\ next.user = e /\ next.password = p
        /\ e # NoOne /\ p # NoOne
    BY AccountsAssumption DEF Request, Requests, Places
  <2> HIDE DEF next
  <2> QED BY <1>1, <2>1, ReadInv DEF LogonReads, At, next
<1>2. ASSUME NEW c \in Clients, NEW e \in Emails, NEW p \in Passwords, SetupInserts(c, e, p)
      PROVE  IInv'
  <2> DEFINE row == Row("admin", p)
  <2>1. /\ row \in Rows /\ row.role = "admin" /\ row.password = p /\ row.token = 0
        /\ row.fresh = FALSE /\ p # NoOne
    BY AccountsAssumption DEF Row, Rows
  <2> HIDE DEF row
  <2>2. /\ req' \in [Clients -> Requests] /\ req'[c] = Idle
        /\ \A d \in Clients \ {c} : req'[d] = req[d]
    BY <1>2, IdleIsRequest, GoesOn DEF SetupInserts, IInv
  <2> QED BY <1>2, <2>1, <2>2, RowInv DEF SetupInserts, NewRow, At, row
<1>3. ASSUME NEW c \in Clients, NEW t \in 1..Len(mailed), NEW e \in Emails, NEW p \in Passwords,
             ResetReads(c, t, e, p)
      PROVE  IInv'
  <2> DEFINE next == Request("resetting", e, "none", p, t, 0)
  <2>1. t # 0 /\ t \in 0..MaxTokens /\ e # NoOne /\ p # NoOne
    BY AccountsAssumption DEF IInv, TypeOK
  <2>2. /\ next \in Requests /\ next.at = "resetting" /\ next.user = e /\ next.password = p
        /\ next.token = t
    BY <2>1, AccountsAssumption DEF Request, Requests, Places
  <2> HIDE DEF next
  <2>3. Registered(e) /\ mailed[t] = e
    <3>1. users[e].token = t /\ users[e].fresh
      BY <1>3 DEF ResetReads, Opens
    <3>2. mailed[t] = e
      BY <2>1, <3>1 DEF IInv, TokensAreLatest
    <3> QED BY <2>1, <3>1, <3>2 DEF IInv, Referents
  <2> QED BY <1>3, <2>1, <2>2, <2>3, ReadInv DEF ResetReads, At, next
<1>4. ASSUME NEW c \in Clients, NEW s \in Sids, Admits(c, s)
      PROVE  IInv'
  <2> DEFINE e == sessions[s].user
             next == Request("admitted", e, users[e].role, NoOne, 0, s)
  <2>1. e \in Emails /\ e # NoOne /\ users[e].role \in {"none", "user", "admin"} /\ s \in 0..MaxSessions
    BY SessionRows, AccountsAssumption DEF IInv, TypeOK, Rows, Sids
  <2>2. /\ next \in Requests /\ next.at = "admitted" /\ next.user = e /\ next.sid = s
    BY <2>1, AccountsAssumption DEF Request, Requests, Places
  <2>3. Registered(e)
    BY DEF IInv, Referents
  <2> HIDE DEF next
  <2> QED BY <1>4, <2>1, <2>2, <2>3, ReadInv DEF Admits, At, next
<1>5. ASSUME NEW c \in Clients, NEW p \in Passwords, NEW q \in Passwords, ChangeReads(c, p, q)
      PROVE  IInv'
  <2> DEFINE next == [req[c] EXCEPT !.at = "changing", !.password = q]
  <2>1. req[c] \in Requests /\ req[c].at = "admitted" /\ q # NoOne
    BY <1>5, AccountsAssumption DEF IInv, TypeOK, ChangeReads, At
  <2>2. /\ next \in Requests /\ next.at = "changing" /\ next.user = req[c].user
        /\ next.password = q /\ next.sid = req[c].sid
    BY <2>1 DEF Requests, Places
  <2>3. req[c].user # NoOne /\ Registered(req[c].user) /\ req[c].sid \in Sids
    BY <2>1 DEF IInv, TypeOK, Referents, Handlers
  <2> HIDE DEF next
  <2> QED BY <1>5, <2>1, <2>2, <2>3, ReadInv DEF ChangeReads, next
<1>6. ASSUME NEW c \in Clients, NEW e \in Emails, NEW b \in BOOLEAN, EditLocks(c, e, b)
      PROVE  IInv'
  <2> DEFINE row == [users[e] EXCEPT !.locked = b]
  <2>1. users[e] \in Rows
    BY DEF IInv, TypeOK
  <2>2. /\ row \in Rows /\ row.role = users[e].role /\ row.password = users[e].password
        /\ row.token = users[e].token /\ row.fresh = users[e].fresh
    BY <2>1 DEF Rows
  <2>3. users' = [users EXCEPT ![e] = row]
    BY <1>6 DEF EditLocks
  <2> HIDE DEF row
  <2>4. /\ req' \in [Clients -> Requests] /\ req'[c] = Idle
        /\ \A d \in Clients \ {c} : req'[d] = req[d]
    BY <1>6, IdleIsRequest, GoesOn DEF EditLocks, IInv
  <2>5. /\ users[e].role = "none" <=> users[e].password = NoOne
        /\ users[e].fresh => users[e].token # 0
    BY DEF IInv, TypeOK
  <2>6. /\ req[c].at = "admitted" /\ UNCHANGED <<sessions, mailed, spent, opened, excused>>
    BY <1>6 DEF EditLocks, At
  <2>7. \A d \in Clients :
              req'[d] # req[d] => req'[d] = Idle /\ req[d].at \notin {"revokingAll", "revokingOthers"}
    BY <2>4, <2>6
  <2>8. /\ row.role = "none" <=> row.password = NoOne
        /\ Registered(e) => row.role # "none" /\ row.password = users[e].password
        /\ row.token \in {0, users[e].token}
        /\ row.fresh => row.token # 0
    BY <2>2, <2>5 DEF Registered
  <2> QED BY <2>2, <2>3, <2>4, <2>6, <2>7, <2>8, RowInv
<1>7. ASSUME NEW c \in Clients, SetupChecks(c)
      PROVE  IInv'
  <2> DEFINE next == Request("settingUp", NoOne, "none", NoOne, 0, 0)
  <2>1. next \in Requests /\ next.at = "settingUp" /\ next.user = NoOne
    BY AccountsAssumption DEF Request, Requests, Places
  <2> HIDE DEF next
  <2> QED BY <1>7, <2>1, ReadInv DEF SetupChecks, At, next
<1>8. ASSUME NEW c \in Clients, ResetRevokes(c)
      PROVE  IInv'
  <2>1. SessionsOf(req[c].user) \in SUBSET Sids /\ {} \in SUBSET Sids /\ excused = excused \cup {}
    BY DEF SessionsOf
  <2> QED BY <1>8, <2>1, RevokeInv DEF ResetRevokes, At
<1>9. ASSUME NEW c \in Clients, ChangeRevokes(c)
      PROVE  IInv'
  <2>1. req[c].at = "revokingOthers" /\ req[c].sid \in Sids
    BY <1>9 DEF ChangeRevokes, At, IInv, Handlers
  <2>2. SessionsOf(req[c].user) \ {req[c].sid} \in SUBSET Sids /\ {req[c].sid} \in SUBSET Sids
    BY <2>1 DEF SessionsOf
  <2> QED BY <1>9, <2>1, <2>2, RevokeInv DEF ChangeRevokes
<1>10. ASSUME NEW c \in Clients, GivesUp(c)
       PROVE  IInv'
  <2>1. CASE req[c].at \in {"revokingAll", "revokingOthers"}
    <3>1. c \in Revoking(req[c].user)
      BY <2>1 DEF Revoking
    <3>2. SessionsOf(req[c].user) \in SUBSET Sids /\ {} \in SUBSET Sids
      BY DEF SessionsOf
    <3>3. LogOut({})
      <4>1. sessions = [r \in Sids |-> sessions[r]]
        BY DEF IInv, TypeOK, Sids
      <4> QED BY <1>10, <4>1 DEF GivesUp, LogOut
    <3> QED BY <1>10, <2>1, <3>1, <3>2, <3>3, RevokeInv DEF GivesUp
  <2>2. CASE req[c].at \notin {"revokingAll", "revokingOthers"}
    <3>1. c \notin Revoking(req[c].user)
      BY <2>2 DEF Revoking
    <3> QED BY <1>10, <2>2, <3>1, IdleIsRequest, ReadInv DEF GivesUp
  <2> QED BY <2>1, <2>2
<1>11. ASSUME NEW s \in Sids, Logout(s) \/ SessionExpires(s)
       PROVE  IInv'
  BY <1>11, ExpiryEnds, EndInv DEF Logout, SessionExpires, IInv
<1>12. ASSUME NEW e \in Emails, TokenExpires(e)
       PROVE  IInv'
  <2> DEFINE row == [users[e] EXCEPT !.fresh = FALSE]
  <2>1. /\ users[e] \in Rows
        /\ users[e].role = "none" <=> users[e].password = NoOne
    BY DEF IInv, TypeOK
  <2>2. /\ row \in Rows /\ row.role = users[e].role /\ row.password = users[e].password
        /\ row.token = users[e].token /\ row.fresh = FALSE
    BY <2>1 DEF Rows
  <2>3. users' = [users EXCEPT ![e] = row] /\ req' \in [Clients -> Requests]
    BY <1>12 DEF TokenExpires, IInv, TypeOK
  <2> HIDE DEF row
  <2> QED BY <1>12, <2>1, <2>2, <2>3, RowInv DEF TokenExpires, Registered
<1>13. ASSUME NEW e \in Emails, NEW p \in Passwords, CreateNewUser(e, p)
       PROVE  IInv'
  <2> DEFINE row == Row("user", p)
  <2>1. /\ row \in Rows /\ row.role = "user" /\ row.password = p /\ row.token = 0
        /\ row.fresh = FALSE /\ p # NoOne
    BY AccountsAssumption DEF Row, Rows
  <2>2. users' = [users EXCEPT ![e] = row] /\ ~Registered(e) /\ req' \in [Clients -> Requests]
    BY <1>13 DEF CreateNewUser, NewRow, IInv, TypeOK
  <2> HIDE DEF row
  <2> QED BY <1>13, <2>1, <2>2, RowInv DEF CreateNewUser
<1>14. CASE UNCHANGED vars
  BY <1>14 DEF vars, IInv, TypeOK, Referents, Submissions, Handlers, StaleSessionsExplained,
               TokensAreLatest, Registered, Revoking, Sids, Live, At
<1> QED BY <1>1, <1>2, <1>3, <1>4, <1>5, <1>6, <1>7, <1>8, <1>9, <1>10, <1>11, <1>12, <1>13,
           <1>14, LogonInsertsInv, PasswordInv, ForgotInv DEF Next, HandlerStep

-----------------------------------------------------------------------------
(* The theorems *)

\* The tables and what handlers hold stay in their types.
THEOREM TypeCorrect == Spec => []TypeOK
<1>1. IInv => TypeOK
  BY DEF IInv
<1> QED BY <1>1, InitInv, StepInv, PTL DEF Spec

\* Sign-ins, resets and password changes, however they overlap and wherever
\* they fail, leave no session live on an old password but those excused.
THEOREM SessionsAreRevoked == Spec => []StaleSessionsExplained
<1>1. IInv => StaleSessionsExplained
  BY DEF IInv
<1> QED BY <1>1, InitInv, StepInv, PTL DEF Spec

\* Only the latest unused link an address was mailed opens its account.
THEOREM LinksAreExclusive == Spec => []OnlyLatestLinkOpens
<1>1. IInv => OnlyLatestLinkOpens
  BY DEF IInv, TypeOK, TokensAreLatest, OnlyLatestLinkOpens, Opens
<1> QED BY <1>1, InitInv, StepInv, PTL DEF Spec

\* Who is on the way into an account that is locked was so before, and gets
\* in by ending.
LEMMA LockStep ==
    ASSUME IInv, [Next]_vars, NEW e \in Emails, users[e].locked, users'[e].locked
    PROVE  /\ Entering(e)' \subseteq Entering(e)
           /\ SessionsOf(e)' # SessionsOf(e) => Entering(e)' # Entering(e)
           /\ users'[e].password # users[e].password =>
                 Entering(e)' # Entering(e) \/ \E c \in Clients : ResetUpdates(c)
<1> DEFINE Inside == {"signingIn", "admitted", "changing"}
           Kept == \A d \in Clients : req'[d].user = e /\ req'[d].at \in Inside
                                         => req[d].user = e /\ req[d].at \in Inside
           Left(c) == req[c].user = e /\ req[c].at \in Inside /\ req'[c].at \notin Inside
           SamePassword == users'[e].password = users[e].password
           SameSessions == SessionsOf(e)' = SessionsOf(e)
           Goal == /\ Kept
                   /\ SameSessions \/ \E c \in Clients : Left(c)
                   /\ SamePassword \/ (\E c \in Clients : Left(c)) \/ \E c \in Clients : ResetUpdates(c)
<1>1. /\ users \in [Emails -> Rows] /\ req \in [Clients -> Requests]
      /\ e # NoOne /\ Idle.at = "idle"
  BY IdleIsRequest, AccountsAssumption DEF IInv, TypeOK
\* A request that goes on keeps the others as they are.
<1>2. ASSUME NEW c \in Clients, NEW next, Goes(c, next),
             next.user = e /\ next.at \in Inside => req[c].user = e /\ req[c].at \in Inside
      PROVE  Kept
  BY <1>1, <1>2 DEF Goes
<1>3. \A k, f, r, p, t, s : Request(k, f, r, p, t, s).at = k /\ Request(k, f, r, p, t, s).user = f
  BY DEF Request
<1>4. UNCHANGED sessions => SameSessions
  BY DEF SessionsOf, Sids
<1>5. UNCHANGED users => SamePassword
  OBVIOUS
<1>6. UNCHANGED req => Kept
  OBVIOUS
<1>7. ASSUME NEW c \in Clients, NEW f \in Emails, NEW p \in Passwords, LogonReads(c, f, p)
      PROVE  Goal
  <2>1. f # e
    BY <1>7 DEF LogonReads
  <2>2. Kept
    BY <1>2, <1>3, <1>7, <2>1 DEF LogonReads
  <2> QED BY <1>4, <1>5, <1>7, <2>2 DEF LogonReads
<1>8. ASSUME NEW c \in Clients, NEW f \in Emails, NEW p \in Passwords, SetupInserts(c, f, p)
      PROVE  Goal
  <2>1. SamePassword
    BY <1>1, <1>8 DEF SetupInserts, NewRow, Row
  <2>2. Kept
    BY <1>1, <1>2, <1>8 DEF SetupInserts
  <2> QED BY <1>4, <1>8, <2>1, <2>2 DEF SetupInserts
<1>9. ASSUME NEW c \in Clients, LogonInserts(c)
      PROVE  Goal
  <2>1. Kept
    BY <1>1, <1>2, <1>9 DEF LogonInserts
  <2>2. CASE req[c].user = e
    <3>1. Left(c)
      BY <1>1, <1>9, <2>2 DEF LogonInserts, At, Goes
    <3> QED BY <1>5, <1>9, <2>1, <3>1 DEF LogonInserts
  <2>3. CASE req[c].user # e
    <3>1. /\ Sids' = Sids \cup {Len(sessions) + 1}
          /\ sessions'[Len(sessions) + 1].user = req[c].user
          /\ \A s \in Sids : sessions'[s] = sessions[s]
      BY <1>9 DEF LogonInserts, IInv, TypeOK, Sids
    <3>2. SameSessions
      BY <2>3, <3>1 DEF SessionsOf
    <3> QED BY <1>5, <1>9, <2>1, <3>2 DEF LogonInserts
  <2> QED BY <2>2, <2>3
<1>10. ASSUME NEW c \in Clients, NEW t \in 1..Len(mailed), NEW f \in Emails, NEW p \in Passwords,
              ResetReads(c, t, f, p)
       PROVE  Goal
  <2>1. Kept
    BY <1>2, <1>3, <1>10 DEF ResetReads
  <2> QED BY <1>4, <1>5, <1>10, <2>1 DEF ResetReads
<1>11. ASSUME NEW c \in Clients, ResetUpdates(c)
       PROVE  Goal
  <2>1. [req[c] EXCEPT !.at = "revokingAll"].at \notin Inside
    BY <1>1 DEF Requests
  <2>2. Kept
    BY <1>2, <1>11, <2>1 DEF ResetUpdates
  <2> QED BY <1>4, <1>11, <2>2 DEF ResetUpdates
<1>12. ASSUME NEW c \in Clients, ResetRevokes(c) \/ ChangeRevokes(c)
       PROVE  Goal
  <2>1. /\ Len(sessions') = Len(sessions) /\ \A s \in Sids : sessions'[s].user = sessions[s].user
    BY <1>12, LogOutEnds DEF ResetRevokes, ChangeRevokes, SessionsOf, IInv
  <2>2. SameSessions
    BY <2>1 DEF SessionsOf, Sids
  <2>3. Kept
    BY <1>1, <1>2, <1>12 DEF ResetRevokes, ChangeRevokes
  <2> QED BY <1>5, <1>12, <2>2, <2>3 DEF ResetRevokes, ChangeRevokes
<1>13. ASSUME NEW c \in Clients, NEW s \in Sids, Admits(c, s)
       PROVE  Goal
  <2>1. sessions[s].user # e
    BY <1>13 DEF Admits, Authenticates
  <2>2. Kept
    BY <1>2, <1>3, <1>13, <2>1 DEF Admits
  <2> QED BY <1>4, <1>5, <1>13, <2>2 DEF Admits
<1>14. ASSUME NEW c \in Clients, NEW p \in Passwords, NEW q \in Passwords, ChangeReads(c, p, q)
       PROVE  Goal
  <2>1. [req[c] EXCEPT !.at = "changing", !.password = q].user = req[c].user
    BY <1>1 DEF Requests
  <2>2. Kept
    BY <1>2, <1>14, <2>1 DEF ChangeReads, At
  <2> QED BY <1>4, <1>5, <1>14, <2>2 DEF ChangeReads
<1>15. ASSUME NEW c \in Clients, ChangeUpdates(c)
       PROVE  Goal
  <2>1. [req[c] EXCEPT !.at = "revokingOthers"].at = "revokingOthers"
    BY <1>1 DEF Requests
  <2>2. Kept
    BY <1>2, <1>15, <2>1 DEF ChangeUpdates
  <2>3. req[c].user = e => Left(c)
    BY <1>1, <1>15, <2>1 DEF ChangeUpdates, At, Goes
  <2>4. req[c].user # e => SamePassword
    BY <1>1, <1>15 DEF ChangeUpdates, SetPassword
  <2> QED BY <1>4, <1>15, <2>2, <2>3, <2>4 DEF ChangeUpdates
<1>16. ASSUME NEW c \in Clients, NEW f \in Emails, NEW b \in BOOLEAN, EditLocks(c, f, b)
       PROVE  Goal
  <2>1. SamePassword
    BY <1>1, <1>16 DEF EditLocks, Rows
  <2>2. Kept
    BY <1>1, <1>2, <1>16 DEF EditLocks
  <2> QED BY <1>4, <1>16, <2>1, <2>2 DEF EditLocks
<1>17. ASSUME NEW c \in Clients, SetupChecks(c) \/ GivesUp(c)
       PROVE  Goal
  <2>1. Kept
    BY <1>1, <1>2, <1>3, <1>17 DEF SetupChecks, GivesUp
  <2> QED BY <1>4, <1>5, <1>17, <2>1 DEF SetupChecks, GivesUp
<1>18. ASSUME NEW s \in Sids, Logout(s) \/ SessionExpires(s)
       PROVE  Goal
  <2>1. Len(sessions') = Len(sessions) /\ \A r \in Sids : sessions'[r].user = sessions[r].user
    BY <1>18, ExpiryEnds, LogOutEnds DEF Logout, IInv
  <2>2. SameSessions
    BY <2>1 DEF SessionsOf, Sids
  <2> QED BY <1>5, <1>6, <1>18, <2>2 DEF Logout, SessionExpires
<1>19. ASSUME NEW f \in Emails, Forgot(f) \/ TokenExpires(f)
       PROVE  Goal
  <2>1. SamePassword
    <3>1. users[e] \in Rows
      BY <1>1
    <3>2. CASE Forgot(f)
      <4> DEFINE row == [users[f] EXCEPT !.token = Len(mailed) + 1, !.fresh = TRUE]
      <4>1. users' = [users EXCEPT ![f] = row]
        BY <3>2 DEF Forgot
      <4>2. f = e => row.password = users[e].password
        BY <3>1 DEF Rows
      <4> HIDE DEF row
      <4> QED BY <1>1, <4>1, <4>2
    <3>3. CASE TokenExpires(f)
      BY <1>1, <3>1, <3>3 DEF TokenExpires, Rows
    <3> QED BY <1>19, <3>2, <3>3
  <2> QED BY <1>4, <1>6, <1>19, <2>1 DEF Forgot, TokenExpires
<1>20. ASSUME NEW f \in Emails, NEW p \in Passwords, CreateNewUser(f, p)
       PROVE  Goal
  <2>1. SamePassword
    BY <1>1, <1>20 DEF CreateNewUser, NewRow, Row
  <2> QED BY <1>4, <1>6, <1>20, <2>1 DEF CreateNewUser
<1>21. ASSUME UNCHANGED vars
       PROVE  Goal
  BY <1>4, <1>5, <1>6, <1>21 DEF vars
<1> HIDE DEF Goal
<1>22. Goal
  <2>1. ASSUME NEW c \in Clients, HandlerStep(c) PROVE Goal
    BY <1>7, <1>8, <1>9, <1>10, <1>11, <1>12, <1>13, <1>14, <1>15, <1>16, <1>17, <2>1
    DEF HandlerStep
  <2> QED BY <1>18, <1>19, <1>20, <1>21, <2>1 DEF Next
<1>23. Entering(e)' \subseteq Entering(e)
  BY <1>22 DEF Entering, Goal
<1>24. ASSUME NEW c \in Clients, Left(c) PROVE Entering(e)' # Entering(e)
  BY <1>24 DEF Entering
<1> QED BY <1>22, <1>23, <1>24 DEF Goal

\* A lock lets nobody in who was not on the way, and each of those once.
THEOREM LocksHold == Spec => LockHolds
<1>1. IInv /\ [Next]_vars =>
        [\A e \in Emails : users[e].locked /\ users'[e].locked =>
            /\ Entering(e)' \subseteq Entering(e)
            /\ SessionsOf(e)' # SessionsOf(e) => Entering(e)' # Entering(e)
            /\ users'[e].password # users[e].password =>
                  Entering(e)' # Entering(e) \/ \E c \in Clients : ResetUpdates(c)]_vars
  BY LockStep
<1> QED BY <1>1, InitInv, StepInv, PTL DEF Spec, LockHolds

\* Roles are given when a row is made, and only setup makes an admin.
LEMMA RolesStep ==
    ASSUME IInv, [Next]_vars
    PROVE  \/ Admins' = Admins
           \/ \E c \in Clients, e \in Emails, p \in Passwords :
                 SetupInserts(c, e, p) /\ Admins' = Admins \cup {e}
<1> DEFINE RolesKept == \A e \in Emails : users'[e].role = "admin" <=> users[e].role = "admin"
           Made(c, e) == \E p \in Passwords : SetupInserts(c, e, p) /\ Admins' = Admins \cup {e}
<1>1. users \in [Emails -> Rows] /\ req \in [Clients -> Requests]
  BY DEF IInv, TypeOK
<1>2. RolesKept \/ \E c \in Clients, e \in Emails : Made(c, e)
  <2>1. CASE UNCHANGED users
    BY <2>1
  <2>2. ASSUME NEW c \in Clients, ResetUpdates(c) \/ ChangeUpdates(c)
        PROVE  RolesKept
    <3>1. req[c] \in Requests /\ req[c].user \in Emails /\ req[c].password \in Passwords
          /\ Registered(req[c].user) /\ SetPassword(req[c].user, req[c].password)
      BY <2>2, AccountsAssumption
      DEF IInv, TypeOK, Requests, Handlers, Submissions, Referents, ResetUpdates, ChangeUpdates, At
    <3> QED BY <3>1, SetPasswordSets DEF IInv
  <2>3. ASSUME NEW c \in Clients, NEW e \in Emails, NEW b \in BOOLEAN, EditLocks(c, e, b)
        PROVE  RolesKept
    BY <1>1, <2>3 DEF EditLocks, Rows
  <2>4. ASSUME NEW f \in Emails, Forgot(f)
        PROVE  RolesKept
    <3> DEFINE row == [users[f] EXCEPT !.token = Len(mailed) + 1, !.fresh = TRUE]
    <3>1. users' = [users EXCEPT ![f] = row] /\ users[f] \in Rows
      BY <1>1, <2>4 DEF Forgot
    <3>2. row.role = users[f].role
      BY <3>1 DEF Rows
    <3> HIDE DEF row
    <3> QED BY <1>1, <3>1, <3>2
  <2>5. ASSUME NEW f \in Emails, TokenExpires(f)
        PROVE  RolesKept
    BY <1>1, <2>5 DEF TokenExpires, Rows
  <2>6. ASSUME NEW f \in Emails, NEW p \in Passwords, CreateNewUser(f, p)
        PROVE  RolesKept
    BY <1>1, <2>6 DEF CreateNewUser, NewRow, Row, Registered
  <2>7. ASSUME NEW c \in Clients, NEW e \in Emails, NEW p \in Passwords, SetupInserts(c, e, p)
        PROVE  Made(c, e)
    <3>1. \A f \in Emails : users'[f].role = "admin" <=> f = e \/ users[f].role = "admin"
      BY <1>1, <2>7 DEF SetupInserts, NewRow, Row
    <3> QED BY <2>7, <3>1 DEF Admins
  <2> HIDE DEF RolesKept, Made
  <2>8. ASSUME NEW c \in Clients, HandlerStep(c)
        PROVE  RolesKept \/ \E d \in Clients, e \in Emails : Made(d, e)
    BY <2>1, <2>2, <2>3, <2>7, <2>8
    DEF HandlerStep, LogonReads, LogonInserts, ResetReads, ResetRevokes, Admits, ChangeReads,
        ChangeRevokes, SetupChecks, GivesUp
  <2> QED BY <2>1, <2>4, <2>5, <2>6, <2>8 DEF Next, Logout, SessionExpires, vars
<1>3. RolesKept => Admins' = Admins
  BY DEF Admins
<1> QED BY <1>2, <1>3

\* No submission passes the check of setup while there is an admin.
LEMMA CheckStep ==
    ASSUME IInv, [Next]_vars, Admins # {}
    PROVE  /\ PastCheck' \subseteq PastCheck
           /\ \A c \in Clients, e \in Emails, p \in Passwords :
                 SetupInserts(c, e, p) => c \in PastCheck /\ PastCheck' = PastCheck \ {c}
<1> DEFINE NoneStarts == \A c \in Clients : req'[c].at = "settingUp" => req[c].at = "settingUp"
<1>1. req \in [Clients -> Requests] /\ Idle.at = "idle" /\ AdminExists
  BY IdleIsRequest DEF IInv, TypeOK, Admins, AdminExists
<1>2. NoneStarts
  <2>1. ASSUME NEW c \in Clients, HandlerStep(c) PROVE NoneStarts
    <3>1. ASSUME NEW next, Goes(c, next), next.at # "settingUp" PROVE NoneStarts
      BY <1>1, <3>1 DEF Goes
    <3>2. \A k \in Places : [req[c] EXCEPT !.at = k].at = k
      BY <1>1 DEF Requests
    <3>3. \A q \in Passwords : [req[c] EXCEPT !.at = "changing", !.password = q].at = "changing"
      BY <1>1 DEF Requests
    <3>4. \A k, e, r, p, t, s : Request(k, e, r, p, t, s).at = k
      BY DEF Request
    <3> HIDE DEF NoneStarts
    <3>5. CASE \E e \in Emails, p \in Passwords : LogonReads(c, e, p)
      BY <3>1, <3>4, <3>5 DEF LogonReads
    <3>6. CASE \E t \in 1..Len(mailed), e \in Emails, p \in Passwords : ResetReads(c, t, e, p)
      BY <3>1, <3>4, <3>6 DEF ResetReads
    <3>7. CASE \E s \in Sids : Admits(c, s)
      BY <3>1, <3>4, <3>7 DEF Admits
    <3>8. CASE ResetUpdates(c) \/ ChangeUpdates(c)
      BY <3>1, <3>2, <3>8 DEF ResetUpdates, ChangeUpdates, Places
    <3>9. CASE \E p, q \in Passwords : ChangeReads(c, p, q)
      BY <3>1, <3>3, <3>9 DEF ChangeReads
    <3>10. CASE \/ LogonInserts(c) \/ ResetRevokes(c) \/ ChangeRevokes(c) \/ GivesUp(c)
                \/ \E e \in Emails, b \in BOOLEAN : EditLocks(c, e, b)
                \/ \E e \in Emails, p \in Passwords : SetupInserts(c, e, p)
      BY <1>1, <3>1, <3>10
      DEF LogonInserts, ResetRevokes, ChangeRevokes, GivesUp, EditLocks, SetupInserts
    <3>11. CASE SetupChecks(c)
      BY <1>1, <3>11 DEF SetupChecks
    <3> QED BY <2>1, <3>5, <3>6, <3>7, <3>8, <3>9, <3>10, <3>11 DEF HandlerStep
  <2> QED BY <1>1, <2>1
          DEF Next, Logout, SessionExpires, Forgot, TokenExpires, CreateNewUser, vars
<1>3. ASSUME NEW c \in Clients, NEW e \in Emails, NEW p \in Passwords, SetupInserts(c, e, p)
      PROVE  c \in PastCheck /\ PastCheck' = PastCheck \ {c}
  BY <1>1, <1>3 DEF SetupInserts, PastCheck, At, Goes
<1> QED BY <1>2, <1>3 DEF PastCheck, At

\* First-run setup closes: at most one admin for each overlapping submission.
THEOREM SetupCloses == Spec => SetupStaysClosed
<1>1. IInv /\ [Next]_vars =>
        [Admins # {} =>
            /\ Admins \subseteq Admins' /\ PastCheck' \subseteq PastCheck
            /\ Admins' # Admins => \E c \in PastCheck, e \in Emails :
                                     Admins' = Admins \cup {e} /\ PastCheck' = PastCheck \ {c}]_vars
  <2> SUFFICES ASSUME IInv, [Next]_vars, Admins # {}
               PROVE  /\ Admins \subseteq Admins' /\ PastCheck' \subseteq PastCheck
                      /\ Admins' # Admins => \E c \in PastCheck, e \in Emails :
                            Admins' = Admins \cup {e} /\ PastCheck' = PastCheck \ {c}
    OBVIOUS
  <2>1. PastCheck' \subseteq PastCheck
    BY CheckStep
  <2>2. CASE Admins' = Admins
    BY <2>1, <2>2
  <2>3. CASE \E c \in Clients, e \in Emails, p \in Passwords :
                SetupInserts(c, e, p) /\ Admins' = Admins \cup {e}
    BY <2>1, <2>3, CheckStep
  <2> QED BY <2>2, <2>3, RolesStep
<1> QED BY <1>1, InitInv, StepInv, PTL DEF Spec, SetupStaysClosed

=============================================================================
