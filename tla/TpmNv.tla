------------------------------- MODULE TpmNv -------------------------------
(***************************************************************************)
(* The TPM's view of one PIN slot: an NV index of type PinFail, as          *)
(* define_pin_slot configures it (auth read, owner read, one policy write   *)
(* while unwritten).  The TPM is not part of the repository: these          *)
(* operators are what the code in pinmanager.rs relies on, each one the     *)
(* effect of a single TPM command, which the TPM executes atomically.       *)
(***************************************************************************)
EXTENDS Pins

CONSTANT Limits   \* the pinLimit values a policy may ask for

ASSUME LimitsAssumption == Limits \subseteq Nat

(* "blank" is an index that is defined but not written yet.                 *)
SlotStates == {"absent", "blank", "written"}

Slots == [state : SlotStates, auth : PinStrings, count : Nat, limit : Nat]

NoSlot == [state |-> "absent", auth |-> NoPin, count |-> 0, limit |-> 0]

(* TPM2_NV_DefineSpace with the PIN as the authorisation value.             *)
BlankSlot(pin) == [state |-> "blank", auth |-> pin, count |-> 0, limit |-> 0]

(* TPM2_NV_Write of PinData::new(0, limit) under the policy session: the    *)
(* policy admits whoever asks, but only while the index is unwritten.       *)
Written(s, limit) ==
  [state |-> "written", auth |-> s.auth, count |-> 0, limit |-> limit]

(* The authorisation value of a PinFail index counts only once the index is *)
(* written and while pinCount < pinLimit.                                   *)
Usable(s) == s.state = "written" /\ s.count < s.limit

(* TPM2_NV_Read with the right value clears pinCount, with a wrong one      *)
(* increments it.                                                           *)
Cleared(s)     == [s EXCEPT !.count = 0]
Incremented(s) == [s EXCEPT !.count = s.count + 1]

(* Mutant: only a count beyond the limit is locked.                         *)
PastLimitMutant(s) == s.state = "written" /\ s.count > s.limit

(* An owner read finds pinCount >= pinLimit.                                *)
ReadsLocked(s) == s.state = "written" /\ s.count >= s.limit
=============================================================================
