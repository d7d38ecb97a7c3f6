----------------------------- MODULE MCPolicy -----------------------------
(* Policy on a small instance: texts of up to two settings, of which one    *)
(* may be bad, repeated or unknown.                                         *)
EXTENDS PolicyProps, TLC

CONSTANTS p1, p2, f1, f2, f3, usual, moved, device

Word(k, v) == [key |-> k, value |-> v]

MCTexts == {<<Word("pin_min_length", 0)>>,
            <<Word("pin_min_length", 6), Word("pin_min_length", 5)>>,
            <<Word("pinutil_path", moved), Word("pin_max_length", 6)>>,
            <<Word("pin_lockout_max_attempts", 5), Word("tcti", Garbage)>>,
            <<Word("unknown", Garbage), Word("no_equals_sign", Garbage)>>}

FileSymmetry == Permutations(Files)
=============================================================================
