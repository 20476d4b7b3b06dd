-------------------------- MODULE MCAdministration --------------------------
(* Two admins, of whom one may not be there yet, and a department.         *)
EXTENDS Administration, TLC

CONSTANTS ann, bob

MCInitialUsers == {[u \in Users |-> IF u = ann THEN Account("admin") ELSE None],
                   [u \in Users |-> Account("admin")]}
Alike == Permutations(Handlers)
=============================================================================
