---------------------------- MODULE MCMaintenance ----------------------------
(***************************************************************************)
(* Three jobs, pages of one row, completed jobs kept for one tick and      *)
(* discarded ones for two, two operators.                                  *)
(***************************************************************************)
EXTENDS Maintenance, TLC

CONSTANTS o1, o2

TwoOperators == {o1, o2}
OneOrTwoTicks == ("completed" :> 1) @@ ("discarded" :> 2) @@ ("cancelled" :> 0)
OperatorSymmetry == Permutations(Operators)
=============================================================================
