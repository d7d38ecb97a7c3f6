----------------------------- MODULE MCPinutil -----------------------------
(* Pinutil on small instances.                                              *)
EXTENDS PinutilProps

CONSTANTS a, b,      \* what follows the leading zeros
          p1, p2     \* processes

Plain  == {[zeros |-> 0, tail |-> t] : t \in Tails}
Zeroed == [zeros : 0..1, tail : Tails]
=============================================================================
