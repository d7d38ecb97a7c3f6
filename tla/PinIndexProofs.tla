--------------------------- MODULE PinIndexProofs ---------------------------
(***************************************************************************)
(* The layout of pinindex.rs for every uid and every choice of the base and *)
(* the largest uid that fits the TPM's range.                               *)
(***************************************************************************)
EXTENDS PinIndex, TLAPS

(* No index is the slot or the tag of two users, or a slot and a tag.       *)
LEMMA Disjoint ==
  ASSUME NEW x \in Uids, NEW y \in Uids
  PROVE  /\ SlotIndex(x) = SlotIndex(y) => x = y
         /\ TagIndex(x) = TagIndex(y) => x = y
         /\ HasSlot(x) /\ HasTag(y) => SlotIndex(x) # TagIndex(y)
BY PinIndexAssumption DEF SlotIndex, TagIndex, HasSlot, HasTag, Offset

(* The two bounds agree: who has a slot has a tag.                          *)
LEMMA SlotHasTag ==
  ASSUME NEW x \in Uids, HasSlot(x)
  PROVE  HasTag(x)
BY PinIndexAssumption DEF HasSlot, HasTag, SlotIndex, TagIndex, Offset, Handle

(* The strengthening: an entry is for an admitted user, at that user's      *)
(* index.                                                                   *)
Placed ==
  \A e \in defined :
    /\ e.uid \in Uids
    /\ \/ e.kind = "slot" /\ HasSlot(e.uid) /\ e.index = SlotIndex(e.uid)
       \/ e.kind = "tag" /\ HasTag(e.uid) /\ e.index = TagIndex(e.uid)

(* Every entry stays at its user's index.                                   *)
LEMMA PlacedInvariant == Spec => []Placed
<1>1. Init => Placed
  BY DEF Init, Placed
<1>2. Placed /\ [Next]_defined => Placed'
  <2> SUFFICES ASSUME Placed, [Next]_defined PROVE Placed'
    OBVIOUS
  <2>1. ASSUME NEW uid \in Uids, DefineSlot(uid) PROVE Placed'
    BY <2>1 DEF DefineSlot, Placed, Entry
  <2>2. ASSUME NEW uid \in Uids, DefineTag(uid) PROVE Placed'
    BY <2>2 DEF DefineTag, Placed, Entry
  <2>3. ASSUME NEW uid \in Uids, UndefineSlot(uid) \/ UndefineTag(uid)
        PROVE  Placed'
    BY <2>3 DEF UndefineSlot, UndefineTag, Placed
  <2>4. CASE UNCHANGED defined
    BY <2>4 DEF Placed
  <2> QED BY <2>1, <2>2, <2>3, <2>4 DEF Next
<1> QED BY <1>1, <1>2, PTL DEF Spec

(* Slots and tags of all users share the TPM without aliasing.              *)
THEOREM IndicesNeverAlias == Spec => []NoAliasing
<1>1. Placed => NoAliasing
  BY Disjoint DEF Placed, NoAliasing
<1> QED BY <1>1, PlacedInvariant, PTL

(* Every user who gets a slot can get its tag.                              *)
THEOREM SlotsAreTaggable == Spec => []EverySlotCanBeTagged
<1>1. Placed => EverySlotCanBeTagged
  BY SlotHasTag DEF Placed, EverySlotCanBeTagged
<1> QED BY <1>1, PlacedInvariant, PTL
=============================================================================
