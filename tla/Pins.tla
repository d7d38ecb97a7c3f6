-------------------------------- MODULE Pins --------------------------------
(***************************************************************************)
(* The PINs that travel through pinpam, reduced to what the code tells      *)
(* apart: how many zeros a PIN starts with, and what follows them.  The     *)
(* releases before the version tag kept a PIN as a number, so they stored   *)
(* it without its leading zeros; normalize_legacy_pin recomputes that form. *)
(***************************************************************************)
EXTENDS Naturals

CONSTANTS Tails,     \* what may follow the leading zeros (starts with no zero)
          NoTail,    \* nothing follows: the PIN consists of zeros only
          MaxZeros   \* bound on the number of leading zeros

ASSUME PinsAssumption == /\ NoTail \notin Tails
                         /\ MaxZeros \in Nat \ {0}

PinStrings == [zeros : 0..MaxZeros, tail : Tails \cup {NoTail}]

(* The empty string.  Pin::new never builds it; it stands for "no PIN".     *)
NoPin == [zeros |-> 0, tail |-> NoTail]

Pins == PinStrings \ {NoPin}

(* Strip the leading zeros, but keep one digit of a PIN of zeros.           *)
Normalize(pin) ==
  IF pin.tail = NoTail THEN [zeros |-> 1, tail |-> NoTail]
                       ELSE [zeros |-> 0, tail |-> pin.tail]

(* Two PINs that the releases without a version tag could not tell apart.   *)
SameNumber(p, q) == Normalize(p) = Normalize(q)
=============================================================================
