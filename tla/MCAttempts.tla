----------------------------- MODULE MCAttempts -----------------------------
(* Words of five bits, and every word as max_attempts: 0, the limits that   *)
(* are read back as they are, and from half the words up those that a c_int *)
(* turns negative.                                                          *)
EXTENDS Attempts
=============================================================================
