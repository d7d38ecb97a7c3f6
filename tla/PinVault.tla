------------------------------ MODULE PinVault ------------------------------
(***************************************************************************)
(* What pinpam promises of a stored PIN, whatever runs concurrently and     *)
(* wherever an operation is cut short.  A vault entry is one PIN with one   *)
(* counter of wrong guesses and one limit.  A guess is the PIN of the call  *)
(* a caller is in, and it is compared only while the counter is below the   *)
(* limit; one that differs raises the counter, and only one that equals the *)
(* entry's PIN, up to leading zeros, clears it.  Nothing else changes an    *)
(* entry short of removing it: its PIN and its limit are never replaced.    *)
(***************************************************************************)
EXTENDS TpmNv

CONSTANTS Uids, Callers

VARIABLES vault,   \* the entry of a uid
          call     \* whom the current call of a caller is about, and its PIN

VaultEntries == [pin : PinStrings, wrong : Nat, limit : Nat]
Vacant       == [pin |-> NoPin, wrong |-> 0, limit |-> 0]
Calls        == [uid : Uids, pin : PinStrings]

Init == /\ vault \in [Uids -> VaultEntries]
        /\ call \in [Callers -> Calls]

Ask(c) == /\ \E request \in Calls : call' = [call EXCEPT ![c] = request]
          /\ UNCHANGED vault

Provision(u) ==
  /\ vault[u] = Vacant
  /\ \E pin \in Pins, limit \in Limits :
       vault' = [vault EXCEPT ![u] = [pin |-> pin, wrong |-> 0, limit |-> limit]]
  /\ UNCHANGED call

Remove(u) == /\ vault' = [vault EXCEPT ![u] = Vacant]
             /\ UNCHANGED call

(* The PIN of the call in the two forms it may be compared in.              *)
Forms(c) == {call[c].pin, Normalize(call[c].pin)}

RightGuess(c) ==
  LET u == call[c].uid IN
  /\ vault[u].wrong < vault[u].limit
  /\ vault[u].pin \in Forms(c)
  /\ vault' = [vault EXCEPT ![u].wrong = 0]
  /\ UNCHANGED call

WrongGuess(c) ==
  LET u == call[c].uid IN
  /\ vault[u].wrong < vault[u].limit
  /\ Forms(c) # {vault[u].pin}
  /\ vault' = [vault EXCEPT ![u].wrong = vault[u].wrong + 1]
  /\ UNCHANGED call

Next == \/ \E u \in Uids : Provision(u) \/ Remove(u)
        \/ \E c \in Callers : Ask(c) \/ RightGuess(c) \/ WrongGuess(c)

Spec == Init /\ [][Next]_<<vault, call>>
=============================================================================
