------------------------ MODULE MC_AccountReconciler ------------------------
(* Small instances of AccountReconciler for TLC.  Accounts share only the  *)
(* budget snapshot, so each kind of account is checked on its own.         *)
EXTENDS AccountReconciler, TLC
CONSTANTS p1, p2, b1, s1
MCPool == {p1}
MCPools == {p1, p2}
MCByoc == {b1}
MCSts == {s1}
MCCcs == {b1, s1}
MCNone == {}
Symmetry == Permutations(MCPools)
=============================================================================
