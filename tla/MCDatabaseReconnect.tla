----------------------- MODULE MCDatabaseReconnect -----------------------
(***************************************************************************)
(* Instances of DatabaseReconnect for TLC.  The identity of an object      *)
(* whose attempt failed is used again, so a few identities stand for any   *)
(* number of attempts: three for every order of boot, schedule, reloads    *)
(* and closes; two are enough for the short counterexample.                *)
(***************************************************************************)
EXTENDS DatabaseReconnect, TLC

CONSTANTS d1, d2, d3, k1, k2, c1, c2

TwoDbs == {d1, d2}
ThreeDbs == {d1, d2, d3}
TwoCallers == {c1, c2}
OneCloser == {k1}
TwoClosers == {k1, k2}

=============================================================================
