------------------------------ MODULE PinIndex ------------------------------
(***************************************************************************)
(* Where a user's PIN slot and version tag live in the TPM: pinindex.rs     *)
(* maps a uid to two NV indices, or refuses it.  The state is the set of    *)
(* indices that setup and deletion of PINs have left defined; that two      *)
(* users never meet in it is what lets PinManager keep a slot and a tag per *)
(* user.                                                                    *)
(***************************************************************************)
EXTENDS Naturals

CONSTANTS Base,        \* PIN_NV_INDEX_BASE
          UidMax,      \* PIN_VERSION_UID_MAX
          NvLast,      \* last handle of the TPM's NV range, which starts at Base
          U32Max,      \* the largest u32
          Uids         \* the uids that ask for an index

ASSUME PinIndexAssumption ==
  /\ Base \in Nat /\ UidMax \in Nat /\ NvLast \in Nat /\ U32Max \in Nat
  /\ Base + 2 * UidMax + 1 <= NvLast
  /\ NvLast <= U32Max
  /\ Uids \subseteq 0..U32Max

VARIABLE defined   \* the defined indices, with whom and what they were defined for

Offset == UidMax + 1   \* PIN_VERSION_NV_INDEX_OFFSET

(* checked_add; NvIndexTpmHandle::new admits the TPM's NV range only.       *)
Handle(index) == index <= U32Max /\ index \in Base..NvLast

SlotIndex(uid) == Base + uid
TagIndex(uid)  == Base + Offset + uid

(* Mutant: slots are bounded by the handle range only.                      *)
UnboundedMutant(uid) == Handle(SlotIndex(uid))

(* nv_index_for_uid and version_nv_index_for_uid succeed.                   *)
HasSlot(uid) == uid <= UidMax /\ Handle(SlotIndex(uid))

(* Mutant: the bound is off by one.                                         *)
TagBoundMutant(uid) == uid < UidMax /\ Handle(TagIndex(uid))

HasTag(uid)  == uid <= UidMax /\ Handle(TagIndex(uid))

Entry(index, uid, kind) == [index |-> index, uid |-> uid, kind |-> kind]

Taken(index) == \E e \in defined : e.index = index

Init == defined = {}

(* NV_DefineSpace for a slot, and for the tag of a slot that is there.      *)
DefineSlot(uid) ==
  /\ HasSlot(uid)
  /\ ~Taken(SlotIndex(uid))
  /\ defined' = defined \cup {Entry(SlotIndex(uid), uid, "slot")}

DefineTag(uid) ==
  /\ HasTag(uid)
  /\ Entry(SlotIndex(uid), uid, "slot") \in defined
  /\ ~Taken(TagIndex(uid))
  /\ defined' = defined \cup {Entry(TagIndex(uid), uid, "tag")}

(* NV_UndefineSpace goes by the index: it removes what is there.            *)
UndefineSlot(uid) ==
  /\ HasSlot(uid)
  /\ Taken(SlotIndex(uid))
  /\ defined' = {e \in defined : e.index # SlotIndex(uid)}

UndefineTag(uid) ==
  /\ HasTag(uid)
  /\ Taken(TagIndex(uid))
  /\ defined' = {e \in defined : e.index # TagIndex(uid)}

Next == \E uid \in Uids : \/ DefineSlot(uid) \/ DefineTag(uid)
                          \/ UndefineSlot(uid) \/ UndefineTag(uid)

Spec == Init /\ [][Next]_defined

-----------------------------------------------------------------------------
(* Whoever looks up a user's index finds what was defined for that user and *)
(* purpose: slots and tags of all users share the TPM without aliasing, at  *)
(* the ends of the uid range too.                                           *)
NoAliasing ==
  \A e \in defined :
    /\ e.index = (IF e.kind = "slot" THEN SlotIndex(e.uid) ELSE TagIndex(e.uid))
    /\ \A uid \in Uids :
         /\ HasSlot(uid) /\ SlotIndex(uid) = e.index => e.uid = uid /\ e.kind = "slot"
         /\ HasTag(uid) /\ TagIndex(uid) = e.index   => e.uid = uid /\ e.kind = "tag"

(* No user gets a slot that cannot be tagged: setup would define and then   *)
(* roll back the slot of such a uid every time.                             *)
EverySlotCanBeTagged ==
  \A e \in defined : e.kind = "slot" => HasTag(e.uid)
=============================================================================
