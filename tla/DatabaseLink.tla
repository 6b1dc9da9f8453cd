---------------------------- MODULE DatabaseLink ----------------------------
(***************************************************************************)
(* What a website promises about its MariaDB link, without saying how it   *)
(* connects: the site is served with or without a database, a link that    *)
(* went online stays online until the site is closed, at every moment at   *)
(* most one pool is held, and a closed site holds none and never opens     *)
(* another.  DatabaseReconnect implements it.                              *)
(***************************************************************************)

VARIABLES
    link,   \* "offline", "online", "closing" (teardown under way), "closed"
    held    \* TRUE while a mysql2 pool is open

vars == <<link, held>>

Init == link = "offline" /\ held = FALSE

\* An attempt opens its pool; one already under way may still do so after
\* teardown has begun.
OpenPool ==
    /\ link \in {"offline", "closing"} /\ ~held
    /\ held' = TRUE
    /\ UNCHANGED link

\* An attempt that does not lead to a connection gives its pool back.
GiveUpPool ==
    /\ link \in {"offline", "closing"} /\ held
    /\ held' = FALSE
    /\ UNCHANGED link

GoOnline ==
    /\ link = "offline" /\ held
    /\ link' = "online"
    /\ UNCHANGED held

BeginClose ==
    /\ link \in {"offline", "online"}
    /\ link' = "closing"
    /\ UNCHANGED held

\* Teardown ends; it takes the last pool with it.  With nothing to wait for
\* it begins and ends in one step.
FinishClose ==
    /\ link = "closing" \/ (link = "offline" /\ ~held)
    /\ link' = "closed"
    /\ held' = FALSE

Next == OpenPool \/ GiveUpPool \/ GoOnline \/ BeginClose \/ FinishClose

Spec == Init /\ [][Next]_vars

=============================================================================
