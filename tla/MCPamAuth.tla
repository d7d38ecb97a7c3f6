----------------------------- MODULE MCPamAuth -----------------------------
(* PamAuth on small instances.                                              *)
EXTENDS PamAuthProps, TLC

CONSTANTS a, b,      \* what follows the leading zeros
          p1, p2     \* processes

Plain  == {[zeros |-> 0, tail |-> t] : t \in Tails}
Zeroed == [zeros : 0..1, tail : Tails]

(* Two PINs that differ in a leading zero only, and another one; the token  *)
(* that an earlier module left.                                             *)
Alike == {[zeros |-> 0, tail |-> a], [zeros |-> 1, tail |-> a],
          [zeros |-> 0, tail |-> b]}
Left  == {[zeros |-> 0, tail |-> a]}

TailSymmetry == Permutations(Tails)
=============================================================================
