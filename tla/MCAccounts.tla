----------------------------- MODULE MCAccounts -----------------------------
(* Two accounts, two passwords and two requests at a time. *)
EXTENDS Accounts, TLC
CONSTANTS ann, bob, p1, p2, c1, c2
TwoEmails == {ann, bob}
TwoPasswords == {p1, p2}
TwoClients == {c1, c2}
Symmetry == Permutations(TwoEmails) \cup Permutations(TwoPasswords) \cup Permutations(TwoClients)
=============================================================================
