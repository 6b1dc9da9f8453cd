------------------------------- MODULE MCCrud -------------------------------
(* Two requests at a time, or one beside the list, and two roles. *)
EXTENDS Crud, TLC
CONSTANTS c1, c2, editor, remover
TwoConns == {c1, c2}
AllRoles == {editor, remover}
RolePermits == editor :> {"read", "create", "update"}
            @@ remover :> {"read", "delete"}
Symmetry == Permutations(TwoConns)
Open == [readOnly |-> FALSE, archivable |-> TRUE, development |-> TRUE, downloadableCsv |-> TRUE]
SomeTables == {Open, [Open EXCEPT !.readOnly = TRUE, !.downloadableCsv = FALSE],
               [Open EXCEPT !.archivable = FALSE, !.development = FALSE]}
=============================================================================
