---------------------------- MODULE MCPamStack ----------------------------
(* The documented stack on a small instance.                                *)
EXTENDS PamStackProps

CONSTANTS p1           \* a process that runs master-key commands

(* Before the substack, at each place in it, and after it.                  *)
MCPlaces == {<<1, 0>>, <<1, 1>>, <<2, 1>>, <<3, 1>>, <<4, 1>>, <<4, 0>>}
=============================================================================
