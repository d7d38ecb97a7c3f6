----------------------------- MODULE MCPinIndex -----------------------------
(* The uids around the ends of the ranges in pinindex.rs; 2^30-1, which     *)
(* leaves room for sums in TLC, stands in for the largest u32.              *)
EXTENDS PinIndex

Ends == {0, 1, UidMax - 1, UidMax, UidMax + 1, UidMax + 2, U32Max}
=============================================================================
