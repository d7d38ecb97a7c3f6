---------------------------- MODULE MCPinManager ----------------------------
(* PinManager on small instances.                                           *)
EXTENDS PinManagerProps, TLC

CONSTANTS a, b,      \* what follows the leading zeros
          p1, p2     \* processes

(* The PINs that are entered: with one leading zero, or at most one.        *)
OneZeroed == {[zeros |-> 1, tail |-> a]}
Zeroed == [zeros : 0..1, tail : Tails] \cup {[zeros |-> 1, tail |-> NoTail]}

TailSymmetry == Permutations(Tails)
=============================================================================
