-------------------------- MODULE PinManagerProofs --------------------------
(***************************************************************************)
(* Theorems about PinManager, for any number of users, processes, PINs,     *)
(* failing commands and killed processes.                                   *)
(***************************************************************************)
EXTENDS PinManagerProps, TLAPS

(* The type invariant in the three groups that actions touch separately.    *)
TpmType == /\ slot   \in [Uids -> Slots]
           /\ tag    \in [Uids -> TagValues]
           /\ chosen \in [Uids -> PinStrings]

ControlType == /\ at    \in [Procs -> Labels]
               /\ phase \in [Procs -> Phases]
               /\ res   \in [Procs -> Results]

BoundType == /\ faults  \in 0..MaxFaults
             /\ crashes \in 0..MaxCrashes

(* normalize_legacy_pin yields a PIN, and never the empty string.           *)
LEMMA NormalizeType ==
  ASSUME NEW pin \in PinStrings
  PROVE  Normalize(pin) \in Pins
BY PinsAssumption DEF Pins, PinStrings, NoPin, Normalize

(* What the TPM commands make of a slot is a slot.                          *)
LEMMA SlotTypes ==
  /\ NoSlot \in Slots
  /\ \A pin \in PinStrings : BlankSlot(pin) \in Slots
  /\ \A s \in Slots : \A limit \in Limits : Written(s, limit) \in Slots
  /\ \A s \in Slots : Cleared(s) \in Slots /\ Incremented(s) \in Slots
<1>1. NoPin \in PinStrings
  BY PinsAssumption DEF NoPin, PinStrings
<1>2. NoSlot \in Slots /\ \A pin \in PinStrings : BlankSlot(pin) \in Slots
  BY <1>1 DEF NoSlot, BlankSlot, Slots, SlotStates
<1>3. \A s \in Slots : \A limit \in Limits : Written(s, limit) \in Slots
  BY LimitsAssumption DEF Written, Slots, SlotStates
<1>4. \A s \in Slots : Cleared(s) \in Slots /\ Incremented(s) \in Slots
  BY DEF Cleared, Incremented, Slots, SlotStates
<1> QED BY <1>2, <1>3, <1>4

(* Whatever a process does after its command keeps labels, phases and       *)
(* results well-typed.                                                      *)
LEMMA ControlTypes ==
  ASSUME ControlType, NEW p \in Procs,
         \/ \E l \in Labels : Goto(p, l)
         \/ \E l \in Labels, ph \in Phases : Enter(p, l, ph)
         \/ \E r \in Results : Return(p, r)
  PROVE  ControlType'
<1>1. CASE \E l \in Labels : Goto(p, l)
  BY <1>1 DEF ControlType, Goto
<1>2. CASE \E l \in Labels, ph \in Phases : Enter(p, l, ph)
  BY <1>2 DEF ControlType, Enter
<1>3. CASE \E r \in Results : Return(p, r)
  BY <1>3 DEF ControlType, Return, Labels, Phases
<1> QED BY <1>1, <1>2, <1>3

(* An operation that works or fails keeps the counts of failures and        *)
(* crashes in bounds.                                                       *)
LEMMA FaultTypes ==
  ASSUME BoundType, Works \/ Fails, UNCHANGED crashes
  PROVE  BoundType'
BY PinManagerAssumption DEF BoundType, Works, Fails

(* The parts of a call.                                                     *)
LEMMA JobTypes ==
  ASSUME TypeOK, NEW p \in Procs
  PROVE  /\ User(p) \in Uids
         /\ Pin(p) \in PinStrings
         /\ slot[User(p)] \in Slots
         /\ tag[User(p)] \in TagValues
BY DEF TypeOK, Jobs, User, Pin

-----------------------------------------------------------------------------
(* The initial states are well-typed.                                       *)
LEMMA InitType == Init => TypeOK
<1> SUFFICES ASSUME Init PROVE TypeOK
  OBVIOUS
<1>1. PICK store \in [Uids -> {StoredBy(o, c, l) :
                                 o \in Origins, c \in Entries, l \in Limits}] :
        /\ slot   = [u \in Uids |-> store[u].slot]
        /\ tag    = [u \in Uids |-> store[u].tag]
        /\ chosen = [u \in Uids |-> store[u].chosen]
  BY DEF Init
<1>2. ASSUME NEW o \in Origins, NEW c \in Entries, NEW l \in Limits
      PROVE  /\ StoredBy(o, c, l).slot \in Slots
             /\ StoredBy(o, c, l).tag \in TagValues
             /\ StoredBy(o, c, l).chosen \in PinStrings
  <2>1. c \in PinStrings /\ Normalize(c) \in PinStrings /\ NoPin \in PinStrings
    BY PinManagerAssumption, PinsAssumption, NormalizeType
    DEF Pins, NoPin, PinStrings
  <2>2. NoSlot \in Slots
    BY SlotTypes
  <2>3. /\ Written(BlankSlot(c), l) \in Slots
        /\ Written(BlankSlot(Normalize(c)), l) \in Slots
    BY <2>1, SlotTypes
  <2>4. CASE o = "none"
    BY <2>1, <2>2, <2>4 DEF StoredBy, TagValues
  <2>5. CASE o = "legacy"
    BY <2>1, <2>3, <2>5 DEF StoredBy, TagValues
  <2>6. CASE o \in {"current", "newer"}
    BY <2>1, <2>3, <2>6 DEF StoredBy, TagValues
  <2> QED BY <2>4, <2>5, <2>6, PinManagerAssumption
<1>3. TpmType
  <2> SUFFICES ASSUME NEW u \in Uids
               PROVE  /\ store[u].slot \in Slots
                      /\ store[u].tag \in TagValues
                      /\ store[u].chosen \in PinStrings
    BY <1>1 DEF TpmType
  <2> QED BY <1>2
<1>4. job \in [Procs -> Jobs]
  BY PinsAssumption DEF Init, Jobs, NoPin, PinStrings
<1>5. ControlType /\ BoundType
  BY PinManagerAssumption DEF Init, ControlType, BoundType, Labels, Phases, Results
<1> QED BY <1>3, <1>4, <1>5 DEF TypeOK, TpmType, ControlType, BoundType

(* A step of an operation leaves the arguments and the crash bound alone.   *)
LEMMA StepFrame ==
  ASSUME NEW p \in Procs, Step(p)
  PROVE  UNCHANGED <<job, crashes>> /\ (Works \/ Fails)
BY DEF Step, SetupStep, TagStep, DeleteStep, VerifyStep, SetupOwner,
       SetupDefine, SetupWrite, SetupRestart, UndoRestart, TagWrite, TagDefine,
       TagRewrite, Undefine, TagUndefine, VerifyTag, VerifyOpen, VerifyRead,
       VerifyOwner, VerifyRestart, VerifyReopen, MigrateRestart, MigrateReopen

(* A step of PinManager is that of the command its process is at.           *)
LEMMA InACall ==
  ASSUME NEW p \in Procs, Step(p)
  PROVE  at[p] # "idle"
BY DEF Step, SetupStep, TagStep, DeleteStep, VerifyStep, SetupOwner, SetupDefine,
       SetupWrite, SetupRestart, UndoRestart, TagWrite, TagDefine, TagRewrite,
       Undefine, TagUndefine, VerifyTag, VerifyOpen, VerifyRead, VerifyOwner,
       VerifyRestart, VerifyReopen, MigrateRestart, MigrateReopen

(* A process that takes a step takes the one of its label.                  *)
LEMMA AtItsLabel ==
  ASSUME NEW p \in Procs, Step(p)
  PROVE  /\ at[p] = "verify_tag"   => VerifyTag(p)
         /\ at[p] = "verify_open"  => VerifyOpen(p)
         /\ at[p] = "verify_read"  => VerifyRead(p)
         /\ at[p] = "verify_owner" => VerifyOwner(p)
         /\ at[p] = "undefine"     => Undefine(p)
         /\ at[p] = "tag_undefine" => TagUndefine(p)
BY DEF Step, SetupStep, TagStep, DeleteStep, VerifyStep, SetupOwner, SetupDefine,
       SetupWrite, SetupRestart, UndoRestart, TagWrite, TagDefine, TagRewrite,
       Undefine, TagUndefine, VerifyTag, VerifyOpen, VerifyRead, VerifyOwner,
       VerifyRestart, VerifyReopen, MigrateRestart, MigrateReopen

(* A step moves its process to another command or out of its call.          *)
LEMMA StepControl ==
  ASSUME NEW p \in Procs, Step(p)
  PROVE  \/ \E l \in Labels \ {"idle"} : Goto(p, l)
         \/ \E l \in Labels \ {"idle"}, ph \in Phases : Enter(p, l, ph)
         \/ \E r \in Results : Return(p, r)
<1>1. CASE SetupStep(p)
  BY <1>1 DEF SetupStep, SetupOwner, SetupDefine, SetupWrite, SetupRestart,
              UndoRestart, SetupFails, MigrationEnds, Labels, Phases, Results
<1>2. CASE TagStep(p)
  BY <1>2 DEF TagStep, TagWrite, TagDefine, TagRewrite, TagWritten,
              TagNotWritten, MigrationEnds, Labels, Phases, Results
<1>3. CASE DeleteStep(p)
  BY <1>3 DEF DeleteStep, Undefine, TagUndefine, Deleted, NotDeleted,
              SetupFails, MigrationEnds, Labels, Phases, Results
<1>4. CASE VerifyStep(p)
  BY <1>4 DEF VerifyStep, VerifyTag, VerifyOpen, VerifyRead, VerifyOwner,
              VerifyRestart, VerifyReopen, MigrateRestart, MigrateReopen,
              Accept, MigrationEnds, Labels, Phases, Results
<1> QED BY <1>1, <1>2, <1>3, <1>4 DEF Step

(* A step of PinManager goes to a label and gives a result.                 *)
LEMMA StepControlType ==
  ASSUME ControlType, NEW p \in Procs, Step(p)
  PROVE  ControlType'
BY StepControl, ControlTypes

(* A step leaves the TPM's indices well-typed.                              *)
LEMMA StepTpmType ==
  ASSUME TypeOK, NEW p \in Procs, Step(p)
  PROVE  TpmType'
<1> DEFINE u == User(p)
<1>1. /\ TpmType
      /\ u \in Uids /\ Pin(p) \in PinStrings
      /\ slot[u] \in Slots /\ tag[u] \in TagValues
      /\ NoPin \in PinStrings
  BY JobTypes, PinsAssumption DEF TypeOK, TpmType, NoPin, PinStrings
<1>2. \/ UNCHANGED <<slot, tag, chosen>>
      \/ /\ \E s \in Slots : SetSlot(p, s)
         /\ \/ UNCHANGED chosen
            \/ \E c \in PinStrings : chosen' = [chosen EXCEPT ![u] = c]
         /\ UNCHANGED tag
      \/ /\ \E t \in TagValues : SetTag(p, t)
         /\ UNCHANGED <<slot, chosen>>
  <2>1. CASE SetupDefine(p)
    BY <2>1, <1>1, SlotTypes DEF SetupDefine
  <2>2. CASE SetupWrite(p)
    BY <2>2, <1>1, SlotTypes DEF SetupWrite
  <2>3. CASE TagStep(p)
    BY <2>3 DEF TagStep, TagWrite, TagDefine, TagRewrite, TagValues
  <2>4. CASE Undefine(p)
    BY <2>4, <1>1, SlotTypes DEF Undefine
  <2>5. CASE TagUndefine(p)
    BY <2>5 DEF TagUndefine, TagValues
  <2>6. CASE VerifyRead(p)
    BY <2>6, <1>1, SlotTypes DEF VerifyRead
  <2>7. CASE \/ SetupOwner(p) \/ SetupRestart(p) \/ UndoRestart(p)
             \/ VerifyTag(p) \/ VerifyOpen(p) \/ VerifyOwner(p)
             \/ VerifyRestart(p) \/ VerifyReopen(p)
             \/ MigrateRestart(p) \/ MigrateReopen(p)
    BY <2>7 DEF SetupOwner, SetupRestart, UndoRestart, VerifyTag, VerifyOpen,
                VerifyOwner, VerifyRestart, VerifyReopen, MigrateRestart,
                MigrateReopen
  <2> QED BY <2>1, <2>2, <2>3, <2>4, <2>5, <2>6, <2>7
          DEF Step, SetupStep, DeleteStep, VerifyStep
<1> QED BY <1>1, <1>2 DEF TpmType, SetSlot, SetTag

(* Every step keeps the type invariant.                                     *)
LEMMA NextType == TypeOK /\ [Next]_vars => TypeOK'
<1> SUFFICES ASSUME TypeOK, [Next]_vars PROVE TypeOK'
  OBVIOUS
<1>1. TpmType /\ ControlType /\ BoundType /\ job \in [Procs -> Jobs]
  BY DEF TypeOK, TpmType, ControlType, BoundType
<1>2. ASSUME NEW p \in Procs, Call(p) PROVE TypeOK'
  <2>1. \A op \in Ops : EntryLabel(op) \in Labels
    BY PinManagerAssumption DEF EntryLabel, Labels
  <2>2. ControlType'
    BY <1>1, <1>2, <2>1 DEF Call, Invoke, ControlType, Results
  <2>3. job' \in [Procs -> Jobs]
    BY <1>1, <1>2, PinManagerAssumption, PinsAssumption
    DEF Call, Invoke, Jobs, Pins, NoPin, PinStrings
  <2>4. TpmType' /\ BoundType'
    BY <1>1, <1>2 DEF Call, Invoke, TpmType, BoundType
  <2> QED BY <2>2, <2>3, <2>4 DEF TypeOK, TpmType, ControlType, BoundType
<1>3. ASSUME NEW p \in Procs, Step(p) PROVE TypeOK'
  <2>1. ControlType'
    BY <1>1, <1>3, StepControlType
  <2>2. TpmType'
    BY <1>3, StepTpmType
  <2>3. BoundType' /\ job' \in [Procs -> Jobs]
    BY <1>1, <1>3, StepFrame, FaultTypes
  <2> QED BY <2>1, <2>2, <2>3 DEF TypeOK, TpmType, ControlType, BoundType
<1>4. ASSUME NEW p \in Procs, Crash(p) PROVE TypeOK'
  <2>1. ControlType'
    BY <1>1, <1>4, ControlTypes DEF Crash, Results
  <2>2. BoundType'
    BY <1>1, <1>4, PinManagerAssumption DEF BoundType, Crash
  <2>3. TpmType' /\ job' \in [Procs -> Jobs]
    BY <1>1, <1>4 DEF Crash, TpmType
  <2> QED BY <2>1, <2>2, <2>3 DEF TypeOK, TpmType, ControlType, BoundType
<1>5. CASE UNCHANGED vars
  BY <1>5 DEF vars, TypeOK
<1> QED BY <1>2, <1>3, <1>4, <1>5 DEF Next

(* Whatever fails and whoever is killed, the variables keep their types: no *)
(* operation leaves a counter of wrong guesses below zero, a slot in a      *)
(* state of no TPM index, or a process at a command without a successor.    *)
THEOREM TypeCorrect == Spec => []TypeOK
<1>1. Init => TypeOK
  BY InitType
<1>2. TypeOK /\ [Next]_vars => TypeOK'
  BY NextType
<1> QED BY <1>1, <1>2, PTL DEF Spec

-----------------------------------------------------------------------------
(***************************************************************************)
(* PinManager implements PinVault.  The map forgets everything but written  *)
(* slots and calls.  A slot becomes an entry when it is written, and the    *)
(* entry's PIN is what the slot was defined with, possibly by an operation  *)
(* of another process: that it is a PIN at all is the invariant below.      *)
(***************************************************************************)
PinsOnly ==
  /\ \A u \in Uids : slot[u].state = "blank" => slot[u].auth \in Pins
  /\ \A p \in Procs :
       /\ at[p] = "idle" => phase[p] = "main"
       /\ at[p] # "idle" /\ job[p].op # "delete" => Pin(p) \in Pins
       /\ at[p] # "idle" /\ job[p].op = "delete" =>
            phase[p] = "main" /\ at[p] \in {"undefine", "tag_undefine"}

(* Initially every slot that is defined holds a PIN, and no call runs.      *)
LEMMA PinsOnlyInit == Init => PinsOnly
<1> SUFFICES ASSUME Init PROVE PinsOnly
  OBVIOUS
<1>1. PICK store \in [Uids -> {StoredBy(o, c, l) :
                                 o \in Origins, c \in Entries, l \in Limits}] :
        slot = [u \in Uids |-> store[u].slot]
  BY DEF Init
<1>2. ASSUME NEW o \in Origins, NEW c \in Entries, NEW l \in Limits
      PROVE  StoredBy(o, c, l).slot.state # "blank"
  <2>1. CASE o = "none"
    BY <2>1 DEF StoredBy, NoSlot
  <2>2. CASE o = "legacy"
    BY <2>2 DEF StoredBy, Written
  <2>3. CASE o \in {"current", "newer"}
    BY <2>3 DEF StoredBy, Written
  <2> QED BY <2>1, <2>2, <2>3, PinManagerAssumption
<1>3. \A u \in Uids : slot[u].state # "blank"
  BY <1>1, <1>2
<1> QED BY <1>3 DEF Init, PinsOnly

(* A delete_pin_admin call of its own issues two commands and no others.    *)
LEMMA DeleteOnly ==
  ASSUME TypeOK, NEW p \in Procs, Step(p), job[p].op = "delete",
         phase[p] = "main", at[p] \in {"undefine", "tag_undefine"}
  PROVE  \/ at'[p] = "idle"
         \/ phase'[p] = "main" /\ at'[p] \in {"undefine", "tag_undefine"}
<1>1. Undefine(p) \/ TagUndefine(p)
  BY DEF Step, SetupStep, TagStep, DeleteStep, VerifyStep, SetupOwner,
         SetupDefine, SetupWrite, SetupRestart, UndoRestart, TagWrite,
         TagDefine, TagRewrite, VerifyTag, VerifyOpen, VerifyRead, VerifyOwner,
         VerifyRestart, VerifyReopen, MigrateRestart, MigrateReopen
<1>2. Goto(p, "tag_undefine") \/ \E r \in Results : Return(p, r)
  BY <1>1 DEF Undefine, TagUndefine, Deleted, NotDeleted, Results
<1> QED BY <1>2 DEF TypeOK, Goto, Return

(* A step moves no process but its own, and whoever returns is back in the  *)
(* main phase.                                                              *)
LEMMA StepMovesOne ==
  ASSUME TypeOK, NEW p \in Procs, Step(p)
  PROVE  /\ at'[p] = "idle" => phase'[p] = "main"
         /\ \A q \in Procs : q # p =>
              at'[q] = at[q] /\ phase'[q] = phase[q] /\ res'[q] = res[q]
BY StepControl DEF TypeOK, Goto, Enter, Return

(* Every step keeps this.                                                   *)
LEMMA PinsOnlyNext == TypeOK /\ PinsOnly /\ [Next]_vars => PinsOnly'
<1> SUFFICES ASSUME TypeOK, PinsOnly, [Next]_vars PROVE PinsOnly'
  OBVIOUS
<1>1. ASSUME NEW p \in Procs, Call(p) PROVE PinsOnly'
  <2>1. /\ at'[p] # "idle"
        /\ job'[p].op = "delete" => at'[p] = "undefine"
        /\ job'[p].op # "delete" => job'[p].pin \in Pins
        /\ phase' = phase /\ slot' = slot
        /\ \A q \in Procs : q # p => at'[q] = at[q] /\ job'[q] = job[q]
    BY <1>1, PinManagerAssumption DEF Call, Invoke, EntryLabel, TypeOK
  <2>2. phase[p] = "main"
    BY <1>1 DEF Call, Invoke, PinsOnly
  <2> QED BY <2>1, <2>2 DEF PinsOnly, Pin
<1>2. ASSUME NEW p \in Procs, Step(p) PROVE PinsOnly'
  <2>1. job' = job
    BY <1>2, StepFrame
  <2>2. ASSUME NEW u \in Uids, slot'[u].state = "blank"
        PROVE  slot'[u].auth \in Pins
    <3>1. CASE slot'[u] = slot[u]
      BY <2>2, <3>1 DEF PinsOnly
    <3>2. CASE SetupDefine(p)
      <4>1. Pin(p) \in Pins
        BY <3>2 DEF SetupDefine, PinsOnly
      <4> QED BY <2>2, <3>1, <3>2, <4>1 DEF SetupDefine, SetSlot, BlankSlot, TypeOK
    <3>3. CASE SetupWrite(p) \/ Undefine(p) \/ VerifyRead(p)
      <4>1. slot'[u] = slot[u] \/ slot'[u].state # "blank"
        BY <3>3 DEF SetupWrite, Undefine, VerifyRead, SetSlot, Written, NoSlot,
                    Cleared, Incremented, Usable, TypeOK, Slots
      <4> QED BY <2>2, <3>1, <4>1
    <3>4. CASE UNCHANGED slot
      BY <3>1, <3>4
    <3> QED BY <1>2, <3>2, <3>3, <3>4
            DEF Step, SetupStep, TagStep, DeleteStep, VerifyStep, SetupOwner,
                SetupRestart, UndoRestart, TagWrite, TagDefine, TagRewrite,
                TagUndefine, VerifyTag, VerifyOpen, VerifyOwner, VerifyRestart,
                VerifyReopen, MigrateRestart, MigrateReopen
  <2>3. at[p] # "idle"
    BY <1>2, InACall
  <2>4. ASSUME NEW q \in Procs
        PROVE  /\ at'[q] = "idle" => phase'[q] = "main"
               /\ at'[q] # "idle" /\ job'[q].op # "delete" => Pin(q)' \in Pins
               /\ at'[q] # "idle" /\ job'[q].op = "delete" =>
                    phase'[q] = "main" /\ at'[q] \in {"undefine", "tag_undefine"}
    <3>1. CASE q # p
      BY <1>2, <2>1, <3>1, StepMovesOne DEF PinsOnly, Pin
    <3>2. CASE q = p
      BY <1>2, <2>1, <2>3, <3>2, StepMovesOne, DeleteOnly DEF PinsOnly, Pin
    <3> QED BY <3>1, <3>2
  <2> QED BY <2>2, <2>4 DEF PinsOnly
<1>3. ASSUME NEW p \in Procs, Crash(p) PROVE PinsOnly'
  BY <1>3 DEF Crash, Return, PinsOnly, Pin, TypeOK
<1>4. CASE UNCHANGED vars
  BY <1>4 DEF vars, PinsOnly, Pin
<1> QED BY <1>1, <1>2, <1>3, <1>4 DEF Next

(* The initial states of PinManager are initial states of the vault.        *)
LEMMA VaultInit == Init => Vault!Init
<1> SUFFICES ASSUME Init PROVE Vault!Init
  OBVIOUS
<1>1. TypeOK
  BY InitType
<1>2. NoPin \in PinStrings
  BY PinsAssumption DEF NoPin, PinStrings
<1>3. vaultMap \in [Uids -> Vault!VaultEntries]
  BY <1>1, <1>2 DEF TypeOK, Slots, vaultMap, Vault!VaultEntries,
                    Vault!PinStrings, PinStrings
<1>4. callMap \in [Procs -> Vault!Calls]
  BY <1>1 DEF TypeOK, Jobs, callMap, Vault!Calls, Vault!PinStrings, PinStrings
<1> QED BY <1>3, <1>4 DEF Vault!Init

(* A step that leaves slots and calls alone is a stutter of the vault.      *)
LEMMA VaultStutter ==
  ASSUME UNCHANGED <<slot, job>>
  PROVE  UNCHANGED <<vaultMap, callMap>>
BY DEF vaultMap, callMap

(* The commands that write to a slot are steps of the vault.                *)
LEMMA VaultStep ==
  ASSUME TypeOK, PinsOnly, NEW p \in Procs,
         SetupDefine(p) \/ SetupWrite(p) \/ Undefine(p) \/ VerifyRead(p),
         UNCHANGED job
  PROVE  [Vault!Next]_<<vaultMap, callMap>>
<1> DEFINE u == User(p)
           Map(s) == IF s.state = "written"
                       THEN [pin |-> s.auth, wrong |-> s.count, limit |-> s.limit]
                       ELSE [pin |-> NoPin, wrong |-> 0, limit |-> 0]
<1>1. /\ u \in Uids /\ slot[u] \in Slots /\ slot \in [Uids -> Slots]
      /\ Pin(p) \in PinStrings
  BY JobTypes DEF TypeOK
<1>2. UNCHANGED callMap
  BY DEF callMap
<1>3. /\ vaultMap = [v \in Uids |-> Map(slot[v])]
      /\ vaultMap' = [v \in Uids |-> Map(slot'[v])]
  BY DEF vaultMap
<1>4. ASSUME NEW s, SetSlot(p, s)
      PROVE  vaultMap' = [vaultMap EXCEPT ![u] = Map(s)]
  BY <1>1, <1>3, <1>4 DEF SetSlot
<1>5. CASE UNCHANGED slot
  BY <1>5, VaultStutter
<1>6. CASE SetupDefine(p)
  <2>1. CASE SetSlot(p, BlankSlot(Pin(p))) /\ slot[u].state = "absent"
    <3>1. Map(BlankSlot(Pin(p))) = Map(slot[u])
      BY <2>1 DEF BlankSlot
    <3>2. vaultMap' = [vaultMap EXCEPT ![u] = vaultMap[u]]
      BY <1>1, <1>3, <1>4, <2>1, <3>1
    <3>3. vaultMap' = vaultMap
      BY <1>3, <3>2
    <3> QED BY <1>2, <3>3
  <2> QED BY <1>5, <1>6, <2>1 DEF SetupDefine
<1>7. CASE SetupWrite(p)
  <2>1. CASE /\ slot[u].state = "blank"
             /\ \E limit \in Limits : SetSlot(p, Written(slot[u], limit))
    <3>1. PICK limit \in Limits : SetSlot(p, Written(slot[u], limit))
      BY <2>1
    <3>2. Map(Written(slot[u], limit)) =
            [pin |-> slot[u].auth, wrong |-> 0, limit |-> limit]
      BY DEF Written
    <3>3. vaultMap[u] = Vault!Vacant
      BY <1>1, <1>3, <2>1 DEF Vault!Vacant, Vault!NoPin, NoPin
    <3>4. slot[u].auth \in Vault!Pins
      BY <1>1, <2>1 DEF PinsOnly, Pins, Vault!Pins, Vault!PinStrings,
                        Vault!NoPin, PinStrings, NoPin
    <3>5. Vault!Provision(u)
      BY <1>2, <1>4, <3>1, <3>2, <3>3, <3>4 DEF Vault!Provision
    <3> QED BY <1>1, <3>5 DEF Vault!Next
  <2> QED BY <1>5, <1>7, <2>1 DEF SetupWrite
<1>8. CASE Undefine(p)
  <2>1. CASE SetSlot(p, NoSlot)
    <3>1. Map(NoSlot) = Vault!Vacant
      BY DEF NoSlot, Vault!Vacant, Vault!NoPin, NoPin
    <3>2. Vault!Remove(u)
      BY <1>2, <1>4, <2>1, <3>1 DEF Vault!Remove
    <3> QED BY <1>1, <3>2 DEF Vault!Next
  <2> QED BY <1>5, <1>8, <2>1 DEF Undefine
<1>9. CASE VerifyRead(p)
  <2>1. /\ callMap[p].uid = u
        /\ Vault!Forms(p) = {Pin(p), Normalize(Pin(p))}
    BY DEF callMap, User, Pin, Vault!Forms, Vault!Normalize, Normalize
  <2>2. Typed(p) \in {Pin(p), Normalize(Pin(p))}
    BY DEF Typed
  <2>3. ASSUME Usable(slot[u])
        PROVE  vaultMap[u] = [pin |-> slot[u].auth, wrong |-> slot[u].count,
                              limit |-> slot[u].limit]
               /\ slot[u].count < slot[u].limit
    BY <1>1, <1>3, <2>3 DEF Usable
  <2>4. CASE /\ Usable(slot[u]) /\ slot[u].auth = Typed(p)
             /\ SetSlot(p, Cleared(slot[u]))
    <3>1. Map(Cleared(slot[u])) = [vaultMap[u] EXCEPT !.wrong = 0]
      BY <1>1, <2>3, <2>4 DEF Usable, Cleared, Slots
    <3>2. Vault!RightGuess(p)
      BY <1>1, <1>2, <1>3, <1>4, <2>1, <2>2, <2>3, <2>4, <3>1
      DEF Vault!RightGuess
    <3> QED BY <3>2 DEF Vault!Next
  <2>5. CASE /\ Usable(slot[u]) /\ slot[u].auth # Typed(p)
             /\ SetSlot(p, Incremented(slot[u]))
    <3>1. Map(Incremented(slot[u])) = [vaultMap[u] EXCEPT !.wrong = vaultMap[u].wrong + 1]
      BY <1>1, <2>3, <2>5 DEF Usable, Incremented, Slots
    <3>2. Vault!Forms(p) # {vaultMap[u].pin}
      BY <2>1, <2>2, <2>3, <2>5
    <3>3. vaultMap' = [vaultMap EXCEPT ![u].wrong = vaultMap[u].wrong + 1]
      BY <1>4, <2>5, <3>1
    <3>4. vaultMap[u].wrong < vaultMap[u].limit
      BY <2>3, <2>5
    <3>5. Vault!WrongGuess(p)
      BY <1>2, <2>1, <3>2, <3>3, <3>4 DEF Vault!WrongGuess
    <3> QED BY <3>5 DEF Vault!Next
  <2> QED BY <1>5, <1>9, <2>4, <2>5 DEF VerifyRead
<1> QED BY <1>6, <1>7, <1>8, <1>9

(* Every step is a step of the vault, or none.                              *)
LEMMA VaultNext ==
  ASSUME TypeOK, PinsOnly, [Next]_vars
  PROVE  [Vault!Next]_<<vaultMap, callMap>>
<1>1. ASSUME NEW p \in Procs, Call(p)
      PROVE  [Vault!Next]_<<vaultMap, callMap>>
  <2>1. UNCHANGED vaultMap
    BY <1>1 DEF Call, Invoke, vaultMap
  <2>2. PICK request \in [uid : Uids, pin : PinStrings] :
          callMap' = [callMap EXCEPT ![p] = request]
    <3>1. PICK op \in Ops, u \in Uids, pin \in Entries \cup {NoPin} :
            job' = [job EXCEPT ![p] = [op |-> op, uid |-> u, pin |-> pin]]
      BY <1>1 DEF Call, Invoke
    <3>2. pin \in PinStrings
      BY PinManagerAssumption, PinsAssumption DEF Pins, NoPin, PinStrings
    <3>3. callMap' = [callMap EXCEPT ![p] = [uid |-> u, pin |-> pin]]
      BY <3>1 DEF callMap, TypeOK
    <3> QED BY <3>2, <3>3
  <2>3. Vault!Ask(p)
    BY <2>1, <2>2 DEF Vault!Ask, Vault!Calls, Vault!PinStrings, PinStrings
  <2> QED BY <2>3 DEF Vault!Next
<1>2. ASSUME NEW p \in Procs, Step(p)
      PROVE  [Vault!Next]_<<vaultMap, callMap>>
  <2>1. UNCHANGED job
    BY <1>2, StepFrame
  <2>2. CASE SetupDefine(p) \/ SetupWrite(p) \/ Undefine(p) \/ VerifyRead(p)
    BY <2>1, <2>2, VaultStep
  <2>3. CASE UNCHANGED slot
    BY <2>1, <2>3, VaultStutter
  <2> QED BY <1>2, <2>2, <2>3
          DEF Step, SetupStep, TagStep, DeleteStep, VerifyStep, SetupOwner,
              SetupRestart, UndoRestart, TagWrite, TagDefine, TagRewrite,
              TagUndefine, VerifyTag, VerifyOpen, VerifyOwner, VerifyRestart,
              VerifyReopen, MigrateRestart, MigrateReopen
<1>3. ASSUME NEW p \in Procs, Crash(p)
      PROVE  [Vault!Next]_<<vaultMap, callMap>>
  BY <1>3, VaultStutter DEF Crash
<1>4. CASE UNCHANGED vars
  BY <1>4, VaultStutter DEF vars
<1> QED BY <1>1, <1>2, <1>3, <1>4 DEF Next

(* For every number of concurrent processes, failing commands and killed    *)
(* processes, PinManager implements the vault: setup, its rollback,         *)
(* deletion and migration never replace a stored PIN or lower its counter   *)
(* of wrong guesses in place, and a guess is compared with the stored PIN   *)
(* only while the counter is below the limit.                               *)
THEOREM ImplementsVault == Spec => VaultSpec
<1>1. Init => PinsOnly /\ Vault!Init
  BY PinsOnlyInit, VaultInit
<1>2. TypeOK /\ PinsOnly /\ [Next]_vars => PinsOnly'
  BY PinsOnlyNext
<1>3. TypeOK /\ PinsOnly /\ [Next]_vars => [Vault!Next]_<<vaultMap, callMap>>
  BY VaultNext
<1> QED BY <1>1, <1>2, <1>3, TypeCorrect, PTL DEF Spec, VaultSpec, Vault!Spec

-----------------------------------------------------------------------------
(***************************************************************************)
(* One process at a time.  Nothing in the code keeps two processes from     *)
(* working on one slot, and what follows does not hold for two.             *)
(***************************************************************************)
Solo == \E p : Procs = {p}

Comparing == {"verify_tag", "verify_open", "verify_read", "verify_owner"}

(* A call of delete_pin_admin does nothing else.                            *)
OwnDelete(p) ==
  /\ at[p] = "idle" => phase[p] = "main"
  /\ at[p] # "idle" /\ job[p].op = "delete" =>
       phase[p] = "main" /\ at[p] \in {"undefine", "tag_undefine"}

(* Past the comparison, the PIN of the call is the one its user chose.      *)
Vouched(p) ==
  /\ job[p].op \in {"verify", "delete_auth"}
  /\ at[p] \notin Comparing \cup {"idle"}
  /\ ~(at[p] = "tag_undefine" /\ phase[p] = "main")
  => SameNumber(Pin(p), chosen[User(p)])

(* How far setup_pin is with the PIN it was given.                          *)
Setting == {"setup_owner", "setup_define", "setup_write"}
Tagging == {"setup_restart", "tag_write", "tag_define", "tag_rewrite", "undo_restart"}
Undoing == {"undefine", "tag_undefine"}

SetUp(p) ==
  LET s == slot[User(p)] IN
  job[p].op = "setup" =>
    /\ at[p] \in {"idle"} \cup Setting \cup Tagging \cup Undoing
    /\ at[p] \in Undoing => phase[p] = "undo"
    /\ at[p] \notin Undoing => phase[p] = "main"
    /\ at[p] = "setup_write" => s.auth = Pin(p)
    /\ at[p] \in Tagging \cup {"undefine"} \/ (at[p] = "idle" /\ res[p] = "ok") =>
         s.state = "written" /\ s.auth = Pin(p)
    /\ at[p] = "idle" /\ res[p] = "ok" => tag[User(p)] = "current"

OneStore(p) == StoredIsChosen /\ OwnDelete(p) /\ Vouched(p) /\ SetUp(p)

(* The legacy normal form is a normal form.                                 *)
LEMMA NormalizeTwice ==
  \A pin : Normalize(Normalize(pin)) = Normalize(pin)
BY DEF Normalize

(* What is stored stays the PIN the user chose.                             *)
LEMMA StoredKept ==
  ASSUME TypeOK, NEW p \in Procs, OneStore(p), Step(p)
  PROVE  StoredIsChosen'
<1> DEFINE u == User(p)
<1>1. /\ u \in Uids /\ slot \in [Uids -> Slots] /\ chosen \in [Uids -> PinStrings]
      /\ job[p] \in Jobs /\ slot[u] \in Slots
  BY JobTypes DEF TypeOK
<1>2. CASE UNCHANGED <<slot, chosen>>
  BY <1>2 DEF OneStore, StoredIsChosen
<1>3. ASSUME NEW t, SetSlot(p, t), UNCHANGED chosen,
             t.state # "absent" => SameNumber(t.auth, chosen[u])
      PROVE  StoredIsChosen'
  BY <1>1, <1>3 DEF OneStore, StoredIsChosen, SetSlot
<1>4. CASE SetupDefine(p)
  <2> DEFINE blank == SetSlot(p, BlankSlot(Pin(p)))
  <2>1. CASE blank /\ chosen' = [chosen EXCEPT ![u] = Pin(p)]
    BY <1>1, <2>1 DEF OneStore, StoredIsChosen, SetSlot, BlankSlot, SameNumber
  <2>2. CASE blank /\ job[p].op # "setup" /\ UNCHANGED chosen
    <3>1. SameNumber(Pin(p), chosen[u])
      BY <1>1, <1>4, <2>2 DEF SetupDefine, OneStore, OwnDelete, Vouched, Comparing, Jobs
    <3> QED BY <1>3, <2>2, <3>1 DEF BlankSlot
  <2> QED BY <1>2, <1>4, <2>1, <2>2 DEF SetupDefine
<1>5. CASE SetupWrite(p)
  <2>1. CASE slot[u].state = "blank" /\ \E limit \in Limits : SetSlot(p, Written(slot[u], limit))
    <3>1. SameNumber(slot[u].auth, chosen[u])
      BY <1>1, <2>1 DEF OneStore, StoredIsChosen
    <3>2. PICK limit \in Limits : SetSlot(p, Written(slot[u], limit))
      BY <2>1
    <3>3. UNCHANGED chosen /\ Written(slot[u], limit).auth = slot[u].auth
      BY <1>5 DEF SetupWrite, Written
    <3> QED BY <1>3, <3>1, <3>2, <3>3
  <2> QED BY <1>2, <1>5, <2>1 DEF SetupWrite
<1>6. CASE Undefine(p)
  <2>1. CASE SetSlot(p, NoSlot)
    <3>1. \A v \in Uids : v # u => chosen'[v] = chosen[v]
      BY <1>1, <1>6 DEF Undefine
    <3> QED BY <1>1, <2>1, <3>1 DEF OneStore, StoredIsChosen, SetSlot, NoSlot
  <2> QED BY <1>2, <1>6, <2>1 DEF Undefine
<1>7. CASE VerifyRead(p)
  <2>1. UNCHANGED chosen
    BY <1>7 DEF VerifyRead
  <2>2. \/ UNCHANGED slot
        \/ SetSlot(p, Cleared(slot[u])) \/ SetSlot(p, Incremented(slot[u]))
    BY <1>7 DEF VerifyRead
  <2>3. \A t \in {Cleared(slot[u]), Incremented(slot[u])} :
          t.state = slot[u].state /\ t.auth = slot[u].auth
    BY <1>1 DEF Cleared, Incremented, Slots
  <2> QED BY <1>1, <1>2, <1>3, <2>1, <2>2, <2>3 DEF OneStore, StoredIsChosen
<1> QED BY <1>2, <1>4, <1>5, <1>6, <1>7
        DEF Step, SetupStep, TagStep, DeleteStep, VerifyStep, SetupOwner,
            SetupRestart, UndoRestart, TagWrite, TagDefine, TagRewrite,
            TagUndefine, VerifyTag, VerifyOpen, VerifyOwner, VerifyRestart,
            VerifyReopen, MigrateRestart, MigrateReopen

(* A call that compares either stays at that, or gives up, or has seen the  *)
(* TPM accept its PIN.                                                      *)
LEMMA ComparingLeft ==
  ASSUME TypeOK, NEW p \in Procs, Step(p), at[p] \in Comparing
  PROVE  /\ UNCHANGED chosen
         /\ \/ at'[p] \in Comparing \cup {"idle"}
            \/ slot[User(p)].state = "written" /\ slot[User(p)].auth = Typed(p)
<1>1. UNCHANGED chosen
  BY AtItsLabel DEF Comparing, VerifyTag, VerifyOpen, VerifyRead, VerifyOwner
<1>2. CASE at[p] \in {"verify_tag", "verify_open", "verify_owner"}
  <2>1. \/ Goto(p, "verify_open") \/ Goto(p, "verify_read")
        \/ Enter(p, "verify_open", "legacy")
        \/ \E r \in Results : Return(p, r)
    BY <1>2, AtItsLabel DEF VerifyTag, VerifyOpen, VerifyOwner, Results
  <2> QED BY <1>1, <2>1 DEF TypeOK, Goto, Enter, Return, Comparing
<1>3. CASE at[p] = "verify_read"
  <2>1. \/ Usable(slot[User(p)]) /\ slot[User(p)].auth = Typed(p)
        \/ Goto(p, "verify_owner")
        \/ \E r \in Results : Return(p, r)
    BY <1>3, AtItsLabel DEF VerifyRead, Results
  <2> QED BY <1>1, <2>1 DEF TypeOK, Goto, Return, Comparing, Usable
<1> QED BY <1>2, <1>3 DEF Comparing

(* The rest of a verification, migration and all, leaves the user's choice  *)
(* alone; only delete_pin_with_auth ends it, by its last command but one.   *)
LEMMA ChosenKept ==
  ASSUME TypeOK, NEW p \in Procs, Step(p), job[p].op # "setup"
  PROVE  \/ UNCHANGED chosen
         \/ at[p] = "undefine" /\ phase[p] = "main" /\ Goto(p, "tag_undefine")
BY DEF Step, SetupStep, TagStep, DeleteStep, VerifyStep, SetupOwner,
       SetupDefine, SetupWrite, SetupRestart, UndoRestart, TagWrite, TagDefine,
       TagRewrite, Undefine, EndsChoice, TagUndefine, VerifyTag, VerifyOpen,
       VerifyRead, VerifyOwner, VerifyRestart, VerifyReopen, MigrateRestart,
       MigrateReopen

(* A verification deletes only to set up again.                             *)
LEMMA VerifyNeverDeletes ==
  ASSUME TypeOK, NEW p \in Procs, Step(p), job[p].op = "verify",
         at'[p] = "undefine"
  PROVE  phase'[p] # "main"
<1>1. CASE SetupStep(p)
  BY <1>1 DEF SetupStep, SetupOwner, SetupDefine, SetupWrite, SetupRestart,
              UndoRestart, SetupFails, MigrationEnds, Goto, Enter, Return, TypeOK
<1>2. CASE TagStep(p)
  BY <1>2 DEF TagStep, TagWrite, TagDefine, TagRewrite, TagWritten, TagNotWritten,
              MigrationEnds, Goto, Enter, Return, TypeOK
<1>3. CASE DeleteStep(p)
  BY <1>3 DEF DeleteStep, Undefine, TagUndefine, Deleted, NotDeleted, SetupFails,
              MigrationEnds, Goto, Enter, Return, TypeOK
<1>4. CASE VerifyStep(p)
  BY <1>4 DEF VerifyStep, VerifyTag, VerifyOpen, VerifyRead, VerifyOwner,
              VerifyRestart, VerifyReopen, MigrateRestart, MigrateReopen, Accept,
              MigrationEnds, Goto, Enter, Return, TypeOK
<1> QED BY <1>1, <1>2, <1>3, <1>4 DEF Step

(* Past its comparison, a call keeps the right to act for its user.         *)
LEMMA VouchedKept ==
  ASSUME TypeOK, NEW p \in Procs, OneStore(p), Step(p)
  PROVE  Vouched(p)'
<1> DEFINE u == User(p)
<1>1. UNCHANGED job /\ at[p] # "idle"
  BY StepFrame, InACall
<1>2. CASE at[p] \in Comparing
  <2>1. /\ UNCHANGED chosen
        /\ at'[p] \notin Comparing \cup {"idle"} =>
             slot[u].state = "written" /\ slot[u].auth = Typed(p)
    BY <1>2, ComparingLeft
  <2>2. slot[u].state = "written" /\ slot[u].auth = Typed(p) =>
          SameNumber(Pin(p), chosen[u])
    BY JobTypes, NormalizeTwice DEF OneStore, StoredIsChosen, Typed, SameNumber
  <2> QED BY <1>1, <2>1, <2>2 DEF Vouched, User, Pin
<1>3. CASE at[p] \notin Comparing /\ job[p].op \in {"verify", "delete_auth"}
  <2>1. CASE at[p] = "tag_undefine" /\ phase[p] = "main"
    <3>1. TagUndefine(p)
      BY <2>1 DEF Step, SetupStep, TagStep, DeleteStep, VerifyStep, SetupOwner,
             SetupDefine, SetupWrite, SetupRestart, UndoRestart, TagWrite,
             TagDefine, TagRewrite, Undefine, VerifyTag, VerifyOpen, VerifyRead,
             VerifyOwner, VerifyRestart, VerifyReopen, MigrateRestart,
             MigrateReopen
    <3>2. at'[p] = "idle"
      BY <2>1, <3>1 DEF TagUndefine, Deleted, Return, TypeOK
    <3> QED BY <3>2 DEF Vouched
  <2>2. CASE ~(at[p] = "tag_undefine" /\ phase[p] = "main")
    <3>1. SameNumber(Pin(p), chosen[u])
      BY <1>1, <1>3, <2>2 DEF OneStore, Vouched
    <3>2. \/ UNCHANGED chosen
          \/ phase[p] = "main" /\ Goto(p, "tag_undefine")
      BY <1>3, ChosenKept
    <3>3. UNCHANGED chosen \/ (at'[p] = "tag_undefine" /\ phase'[p] = "main")
      BY <3>2 DEF Goto, TypeOK
    <3> QED BY <1>1, <3>1, <3>3 DEF Vouched, User, Pin
  <2> QED BY <2>1, <2>2
<1>4. CASE job[p].op \notin {"verify", "delete_auth"}
  BY <1>1, <1>4 DEF Vouched
<1> QED BY <1>2, <1>3, <1>4

(* setup_pin, command by command.                                           *)
LEMMA SetUpKept ==
  ASSUME TypeOK, NEW p \in Procs, OneStore(p), Step(p)
  PROVE  SetUp(p)'
<1> DEFINE u == User(p)
           here(l) == at'[p] = l /\ phase'[p] = phase[p]
           back == \E r \in Results \ {"ok"} :
                     at'[p] = "idle" /\ phase'[p] = "main" /\ res'[p] = r
<1> SUFFICES ASSUME job[p].op = "setup" PROVE SetUp(p)'
  BY StepFrame DEF SetUp
<1>1. /\ UNCHANGED job /\ at[p] # "idle"
      /\ u \in Uids /\ Pin(p) \in PinStrings
      /\ slot[u] \in Slots /\ tag[u] \in TagValues
      /\ SetUp(p)
  BY StepFrame, InACall, JobTypes DEF OneStore
<1>2. ASSUME NEW l, Goto(p, l) PROVE here(l)
  BY <1>2 DEF Goto, TypeOK
<1>3. ASSUME NEW r \in Results \ {"ok"}, Return(p, r) PROVE back
  BY <1>3 DEF Return, TypeOK
<1>4. CASE SetupOwner(p)
  <2>1. here("setup_define") \/ back
    BY <1>2, <1>3, <1>4 DEF SetupOwner, SetupFails, Results
  <2> QED BY <1>1, <1>4, <2>1 DEF SetUp, SetupOwner, Setting, Tagging, Undoing
<1>5. CASE SetupDefine(p)
  <2>1. \/ SetSlot(p, BlankSlot(Pin(p))) /\ here("setup_write")
        \/ back
    BY <1>2, <1>3, <1>5 DEF SetupDefine, SetupFails, Results
  <2>2. SetSlot(p, BlankSlot(Pin(p))) => slot'[u].auth = Pin(p)
    BY <1>1 DEF SetSlot, BlankSlot, TypeOK
  <2> QED BY <1>1, <1>5, <2>1, <2>2
          DEF SetUp, SetupDefine, Setting, Tagging, Undoing, User, Pin
<1>6. CASE SetupWrite(p)
  <2>1. \/ (\E limit \in Limits : SetSlot(p, Written(slot[u], limit))) /\ here("setup_restart")
        \/ back
    BY <1>2, <1>3, <1>6 DEF SetupWrite, SetupFails, Results
  <2>2. ASSUME NEW limit \in Limits, SetSlot(p, Written(slot[u], limit))
        PROVE  slot'[u].state = "written" /\ slot'[u].auth = slot[u].auth
    BY <1>1, <2>2 DEF SetSlot, Written, TypeOK
  <2>3. at[p] = "setup_write" /\ phase[p] = "main" /\ slot[u].auth = Pin(p)
    BY <1>1, <1>6 DEF SetUp, SetupWrite, Undoing
  <2> QED BY <1>1, <2>1, <2>2, <2>3 DEF SetUp, Setting, Tagging, Undoing, User, Pin
<1>7. CASE SetupRestart(p)
  <2>1. here("tag_write") \/ back
    BY <1>2, <1>3, <1>7 DEF SetupRestart, SetupFails, Results
  <2> QED BY <1>1, <1>7, <2>1
          DEF SetUp, SetupRestart, Setting, Tagging, Undoing, User, Pin
<1>8. CASE TagStep(p)
  <2>1. at[p] \in Tagging /\ phase[p] = "main" /\ UNCHANGED slot
    BY <1>1, <1>8 DEF TagStep, TagWrite, TagDefine, TagRewrite, SetUp, Tagging, Undoing
  <2>2. \/ here("tag_define") \/ here("tag_rewrite") \/ here("undo_restart")
        \/ SetTag(p, "current") /\ Return(p, "ok")
    BY <1>2, <1>8, <2>1 DEF TagStep, TagWrite, TagDefine, TagRewrite,
                            TagWritten, TagNotWritten
  <2>3. SetTag(p, "current") /\ Return(p, "ok") =>
          tag'[u] = "current" /\ at'[p] = "idle" /\ phase'[p] = "main"
    BY <1>1 DEF SetTag, Return, TypeOK
  <2> QED BY <1>1, <2>1, <2>2, <2>3 DEF SetUp, Setting, Tagging, Undoing, User, Pin
<1>9. CASE UndoRestart(p)
  <2>1. (at'[p] = "undefine" /\ phase'[p] = "undo") \/ back
    BY <1>3, <1>9 DEF UndoRestart, SetupFails, Results, Enter, TypeOK
  <2> QED BY <1>1, <1>9, <2>1
          DEF SetUp, UndoRestart, Setting, Tagging, Undoing, User, Pin
<1>10. CASE DeleteStep(p)
  <2>1. at[p] \in Undoing /\ phase[p] = "undo"
    BY <1>1, <1>10 DEF DeleteStep, Undefine, TagUndefine, SetUp, Undoing
  <2>2. here("tag_undefine") \/ back
    BY <1>2, <1>3, <1>10, <2>1
    DEF DeleteStep, Undefine, TagUndefine, Deleted, NotDeleted, SetupFails, Results
  <2> QED BY <1>1, <2>1, <2>2 DEF SetUp, Setting, Tagging, Undoing, User, Pin
<1>11. CASE VerifyStep(p)
  BY <1>1, <1>11 DEF VerifyStep, VerifyTag, VerifyOpen, VerifyRead, VerifyOwner,
         VerifyRestart, VerifyReopen, MigrateRestart, MigrateReopen,
         SetUp, Setting, Tagging, Undoing
<1> QED BY <1>4, <1>5, <1>6, <1>7, <1>8, <1>9, <1>10, <1>11
        DEF Step, SetupStep

(* A step of the only process keeps all of this.                            *)
LEMMA OneStoreStep ==
  ASSUME TypeOK, NEW p \in Procs, OneStore(p), Step(p)
  PROVE  OneStore(p)'
<1>1. StoredIsChosen' /\ Vouched(p)' /\ SetUp(p)'
  BY StoredKept, VouchedKept, SetUpKept
<1>2. OwnDelete(p)'
  <2>1. UNCHANGED job /\ at[p] # "idle" /\ (at'[p] = "idle" => phase'[p] = "main")
    BY StepFrame, InACall, StepMovesOne
  <2>2. job[p].op = "delete" =>
          \/ at'[p] = "idle"
          \/ phase'[p] = "main" /\ at'[p] \in {"undefine", "tag_undefine"}
    BY <2>1, DeleteOnly DEF OneStore, OwnDelete
  <2> QED BY <2>1, <2>2 DEF OwnDelete
<1> QED BY <1>1, <1>2 DEF OneStore

(* So does a call, ...                                                      *)
LEMMA OneStoreInvoke ==
  ASSUME TypeOK, NEW p \in Procs, OneStore(p),
         NEW op \in {"setup", "verify", "delete", "delete_auth"}, NEW u, NEW pin,
         Invoke(p, op, u, pin)
  PROVE  OneStore(p)'
<1>1. /\ UNCHANGED <<slot, tag, chosen, phase>>
      /\ at'[p] = EntryLabel(op) /\ job'[p].op = op /\ phase[p] = "main"
  BY DEF Invoke, TypeOK, OneStore, OwnDelete
<1>2. /\ op = "setup" => at'[p] = "setup_owner"
      /\ op = "delete" => at'[p] = "undefine"
      /\ op \in {"verify", "delete_auth"} => at'[p] = "verify_tag"
  BY <1>1 DEF EntryLabel
<1>3. StoredIsChosen' /\ OwnDelete(p)'
  BY <1>1, <1>2 DEF OneStore, StoredIsChosen, OwnDelete
<1>4. Vouched(p)' /\ SetUp(p)'
  BY <1>1, <1>2 DEF Vouched, SetUp, Comparing, Setting, Tagging, Undoing
<1> QED BY <1>3, <1>4 DEF OneStore

(* ... a kill, ...                                                          *)
LEMMA OneStoreKilled ==
  ASSUME TypeOK, NEW p \in Procs, OneStore(p), Return(p, "killed"),
         UNCHANGED <<slot, tag, chosen, job>>
  PROVE  OneStore(p)'
<1>1. at'[p] = "idle" /\ phase'[p] = "main" /\ res'[p] = "killed"
  BY DEF Return, TypeOK
<1> QED BY <1>1 DEF OneStore, StoredIsChosen, OwnDelete, Vouched, SetUp, Setting,
                    Tagging, Undoing

(* What earlier runs left is what the users chose, up to leading zeros.     *)
LEMMA StoredInit == Init => StoredIsChosen
<1> SUFFICES ASSUME Init PROVE StoredIsChosen
  OBVIOUS
<1>1. PICK store \in [Uids -> {StoredBy(o, c, l) :
                                 o \in Origins, c \in Entries, l \in Limits}] :
        /\ slot   = [u \in Uids |-> store[u].slot]
        /\ chosen = [u \in Uids |-> store[u].chosen]
  BY DEF Init
<1>2. ASSUME NEW o \in Origins, NEW c \in Entries, NEW l \in Limits,
             StoredBy(o, c, l).slot.state # "absent"
      PROVE  SameNumber(StoredBy(o, c, l).slot.auth, StoredBy(o, c, l).chosen)
  <2>1. CASE o = "none"
    BY <1>2, <2>1 DEF StoredBy, NoSlot
  <2>2. CASE o = "legacy"
    BY <2>2, NormalizeTwice DEF StoredBy, Written, BlankSlot, SameNumber
  <2>3. CASE o \in {"current", "newer"}
    BY <2>3 DEF StoredBy, Written, BlankSlot, SameNumber
  <2> QED BY <2>1, <2>2, <2>3, PinManagerAssumption
<1> QED BY <1>1, <1>2 DEF StoredIsChosen

(* ... and the initial state has it.                                        *)
LEMMA OneStoreInit ==
  ASSUME Init, NEW p \in Procs
  PROVE  OneStore(p)
<1>1. OwnDelete(p) /\ Vouched(p) /\ SetUp(p)
  BY DEF Init, OwnDelete, Vouched, SetUp, Tagging, Undoing, Setting
<1> QED BY <1>1, StoredInit DEF OneStore

(* The only process keeps this at every step.                               *)
LEMMA OneStoreNext ==
  ASSUME TypeOK, NEW p, Procs = {p}, OneStore(p), [Next]_vars
  PROVE  OneStore(p)'
<1>1. CASE Call(p)
  BY <1>1, OneStoreInvoke, PinManagerAssumption DEF Call
<1>2. CASE Step(p)
  BY <1>2, OneStoreStep
<1>3. CASE Crash(p)
  BY <1>3, OneStoreKilled DEF Crash
<1>4. CASE UNCHANGED vars
  BY <1>4 DEF vars, OneStore, StoredIsChosen, OwnDelete, Vouched, SetUp, User, Pin
<1> QED BY <1>1, <1>2, <1>3, <1>4 DEF Next

(* While one process at a time works on the TPM, a slot holds the PIN its   *)
(* user chose, up to leading zeros: setup_pin, its rollback, a migration    *)
(* and a deletion may fail at any command or be killed before it.           *)
THEOREM StoredAsChosen == Solo => (Spec => []StoredIsChosen)
<1> SUFFICES ASSUME NEW p, Procs = {p} PROVE Spec => []StoredIsChosen
  BY DEF Solo
<1>1. Init => OneStore(p)
  BY OneStoreInit
<1>2. TypeOK /\ OneStore(p) /\ [Next]_vars => OneStore(p)'
  BY OneStoreNext
<1>3. OneStore(p) => StoredIsChosen
  BY DEF OneStore
<1> QED BY <1>1, <1>2, <1>3, TypeCorrect, PTL DEF Spec

(* While one process at a time works on the TPM, setup_pin returns Ok only  *)
(* with the PIN stored as it was given and the tag in place that makes      *)
(* verify_pin compare it exactly, whatever earlier calls left behind.       *)
THEOREM SetupStoresThePin == Solo => (Spec => []SetupVerifiable)
<1> SUFFICES ASSUME NEW p, Procs = {p} PROVE Spec => []SetupVerifiable
  BY DEF Solo
<1>1. Init => OneStore(p)
  BY OneStoreInit
<1>2. TypeOK /\ OneStore(p) /\ [Next]_vars => OneStore(p)'
  BY OneStoreNext
<1>3. OneStore(p) => SetupVerifiable
  BY DEF OneStore, SetUp, SetupVerifiable, Returned, AllIdle, Compares
<1> QED BY <1>1, <1>2, <1>3, TypeCorrect, PTL DEF Spec

(* While one process at a time works on the TPM, delete_pin_with_auth never *)
(* removes another PIN than the one it was authorised with, although the    *)
(* TPM checks the PIN in one command and removes the slot in a later one.   *)
THEOREM DeletionIsAuthorised == Solo => (Spec => DeleteNeedsThePin)
<1> SUFFICES ASSUME NEW one, Procs = {one} PROVE Spec => DeleteNeedsThePin
  BY DEF Solo
<1>1. Init => OneStore(one)
  BY OneStoreInit
<1>2. TypeOK /\ OneStore(one) /\ [Next]_vars => OneStore(one)'
  BY OneStoreNext
<1>3. OneStore(one) /\ [Next]_vars => [DeletionAuthorised]_vars
  BY DEF OneStore, Vouched, Comparing, SameNumber, DeletionAuthorised
<1> QED BY <1>1, <1>2, <1>3, TypeCorrect, PTL DEF Spec, DeleteNeedsThePin

-----------------------------------------------------------------------------
(***************************************************************************)
(* One process at a time, and every command works.  Then each call leaves   *)
(* the store the way the next one expects it.                               *)
(***************************************************************************)
Calm == MaxFaults = 0 /\ MaxCrashes = 0 /\ 0 \notin Limits

(* A step before which nothing has failed, and that does not fail.          *)
Smooth == Unharmed' /\ 0 \notin Limits

(* A slot and its tag between two calls, with PINs of S.                    *)
Tidy(u, S) ==
  LET s == slot[u] IN
  /\ s.state = "absent"  => tag[u] = "absent" /\ chosen[u] = NoPin
  /\ s.state # "absent"  => s.state = "written" /\ s.limit > 0 /\ chosen[u] \in S
  /\ tag[u] = "absent"   => Normalize(s.auth) = s.auth \/ s.state = "absent"
  /\ tag[u] = "current"  => s.auth \in S
  /\ tag[u] # "blank"

(* The slot holds the PIN of the call, and a guess can be compared with it. *)
Holds(p) == Usable(slot[User(p)]) /\ slot[User(p)].auth = Pin(p)

Settled == Comparing \cup {"idle", "verify_restart", "verify_reopen",
                           "migrate_reopen", "undefine"}
Tagged  == {"setup_restart", "tag_write", "tag_define", "tag_rewrite"}
Vacated == {"migrate_restart", "setup_owner", "setup_define"}

(* The phases in which a call gives each command.                           *)
InPhase(p, S) ==
  /\ at[p] \in Settled \cup Tagged \cup Vacated \cup {"setup_write", "tag_undefine"}
  /\ at[p] \in {"idle", "verify_tag"} => phase[p] = "main"
  /\ at[p] \in {"verify_restart", "verify_reopen"} => phase[p] = "legacy"
  /\ at[p] \in {"migrate_restart", "migrate_reopen"} => phase[p] = "migrate"
  /\ at[p] \in Comparing =>
       phase[p] \in {"main", "legacy"} /\ job[p].op \in {"verify", "delete_auth"}
  /\ at[p] \in Tagged \cup Vacated \cup {"setup_write", "undefine", "tag_undefine"} =>
       phase[p] \in {"main", "migrate"}
  /\ phase[p] # "main" => job[p].op \in {"verify", "delete_auth"}
  /\ at[p] \in Tagged \cup Vacated \cup {"setup_write"} /\ phase[p] = "main" =>
       job[p].op = "setup"
  /\ at[p] \in {"undefine", "tag_undefine"} /\ phase[p] = "main" =>
       job[p].op \in {"delete", "delete_auth"}
  /\ at[p] # "idle" /\ job[p].op # "delete" => Pin(p) \in S

(* What the store looks like at each command.                               *)
AtCommand(p, S) ==
  LET u == User(p)
      s == slot[u] IN
  /\ at[p] \in Settled => Tidy(u, S)
  /\ at[p] = "setup_owner" /\ phase[p] = "main" => Tidy(u, S)
  /\ at[p] \in Vacated /\ (phase[p] = "migrate" \/ at[p] # "setup_owner") =>
       s.state = "absent" /\ tag[u] = "absent"
  /\ at[p] \in Vacated \cup {"tag_undefine"} /\ phase[p] = "migrate" =>
       chosen[u] \in S
  /\ at[p] = "tag_undefine" => s.state = "absent"
  /\ at[p] = "tag_undefine" /\ phase[p] = "main" => chosen[u] = NoPin
  /\ at[p] = "setup_write" =>
       /\ s.state = "blank" /\ s.auth = Pin(p)
       /\ tag[u] = "absent" /\ chosen[u] \in S
  /\ at[p] \in Tagged => Holds(p) /\ chosen[u] \in S
  /\ at[p] = "tag_define"  => tag[u] = "absent"
  /\ at[p] = "tag_rewrite" => tag[u] # "absent"
  /\ at[p] \in Comparing \ {"verify_tag"} =>
       tag[u] = IF phase[p] = "main" THEN "current" ELSE "absent"
  /\ at[p] \in {"verify_read", "verify_owner"} => s.state = "written"
  /\ at[p] = "verify_restart" => Usable(s) /\ s.auth = Normalize(Pin(p))
  /\ at[p] = "undefine" /\ (phase[p] = "migrate" \/ job[p].op = "delete_auth") =>
       s.state = "written"
  /\ at[p] \in {"verify_reopen", "migrate_reopen"} \/
     (at[p] = "idle" /\ job[p].op = "verify" /\ res[p] = "success") =>
       Holds(p) /\ tag[u] = "current"
  /\ at[p] = "idle" /\ res[p] = "invalid"        => Usable(s)
  /\ at[p] = "idle" /\ res[p] = "invalid_locked" => ReadsLocked(s)

Calmly(p, S) ==
  /\ \A u \in Uids : u # User(p) => Tidy(u, S)
  /\ InPhase(p, S)
  /\ AtCommand(p, S)

(* Where a command leaves its process, and what it leaves in the slot.      *)
LEMMA Moves ==
  ASSUME TypeOK, NEW p \in Procs
  PROVE  /\ \A l : Goto(p, l) =>
              at'[p] = l /\ phase'[p] = phase[p] /\ res'[p] = res[p]
         /\ \A l, ph : Enter(p, l, ph) =>
              at'[p] = l /\ phase'[p] = ph /\ res'[p] = res[p]
         /\ \A r : Return(p, r) =>
              at'[p] = "idle" /\ phase'[p] = "main" /\ res'[p] = r
         /\ \A s : SetSlot(p, s) => slot'[User(p)] = s
         /\ \A t : SetTag(p, t) => tag'[User(p)] = t
<1>1. User(p) \in Uids
  BY JobTypes
<1> QED BY <1>1 DEF TypeOK, Goto, Enter, Return, SetSlot, SetTag

(* Without failing commands, every command works.                           *)
LEMMA CalmWorks ==
  ASSUME TypeOK, Smooth
  PROVE  ~Fails
BY DEF TypeOK, Smooth, Unharmed, Fails

(* A step touches the slot and the tag of its call's user only.             *)
LEMMA StepElsewhere ==
  ASSUME TypeOK, NEW p \in Procs, Step(p), NEW v \in Uids, v # User(p)
  PROVE  slot'[v] = slot[v] /\ tag'[v] = tag[v] /\ chosen'[v] = chosen[v]
<1>1. /\ slot' = slot \/ \E s : SetSlot(p, s)
      /\ tag' = tag \/ \E t : SetTag(p, t)
      /\ chosen' = chosen \/ \E c : chosen' = [chosen EXCEPT ![User(p)] = c]
  BY DEF Step, SetupStep, TagStep, DeleteStep, VerifyStep, SetupOwner,
         SetupDefine, SetupWrite, SetupRestart, UndoRestart, TagWrite, TagDefine,
         TagRewrite, Undefine, TagUndefine, VerifyTag, VerifyOpen, VerifyRead,
         VerifyOwner, VerifyRestart, VerifyReopen, MigrateRestart, MigrateReopen
<1> QED BY <1>1 DEF TypeOK, SetSlot, SetTag

(* verify_pin up to the migration.                                          *)
LEMMA CalmComparing ==
  ASSUME TypeOK, Smooth, NEW p \in Procs, NEW S, Step(p), Calmly(p, S), at[p] \in Comparing
  PROVE  InPhase(p, S)' /\ AtCommand(p, S)'
<1> DEFINE u == User(p)
<1>1. /\ job' = job /\ chosen' = chosen /\ tag' = tag
      /\ slot[u] \in Slots /\ InPhase(p, S) /\ AtCommand(p, S) /\ Tidy(u, S)
      /\ phase[p] \in {"main", "legacy"}
  BY JobTypes, StepFrame, ComparingLeft, AtItsLabel
  DEF Calmly, AtCommand, InPhase, Settled, Comparing, VerifyTag, VerifyOpen,
      VerifyRead, VerifyOwner
<1>2. CASE at[p] = "verify_tag"
  <2>1. \/ at'[p] = "verify_open" /\ phase'[p] = phase[p] /\ tag[u] = "current"
        \/ at'[p] = "verify_open" /\ phase'[p] = "legacy" /\ tag[u] = "absent"
        \/ at'[p] = "idle" /\ phase'[p] = "main" /\ res'[p] = "error"
    BY <1>1, <1>2, AtItsLabel, CalmWorks, Moves DEF VerifyTag, Tidy
  <2>2. UNCHANGED slot
    BY <1>2, AtItsLabel DEF VerifyTag
  <2> QED BY <1>1, <1>2, <2>1, <2>2 DEF InPhase, AtCommand, Tidy, Settled,
             Comparing, Tagged, Vacated, User, Pin
<1>3. CASE at[p] = "verify_open"
  <2>1. \/ /\ at'[p] = "verify_read" /\ phase'[p] = phase[p]
           /\ slot[u].state = "written"
        \/ at'[p] = "idle" /\ phase'[p] = "main" /\ res'[p] = "error"
    BY <1>1, <1>3, AtItsLabel, CalmWorks, Moves DEF VerifyOpen, Tidy
  <2>2. UNCHANGED slot
    BY <1>3, AtItsLabel DEF VerifyOpen
  <2> QED BY <1>1, <1>3, <2>1, <2>2 DEF InPhase, AtCommand, Tidy, Settled,
             Comparing, Tagged, Vacated, User, Pin
<1>4. CASE at[p] = "verify_read"
  <2> DEFINE s == slot[u]
  <2>1. s.state = "written" /\ tag[u] = IF phase[p] = "main" THEN "current" ELSE "absent"
    BY <1>1, <1>4 DEF AtCommand, Comparing
  <2>2. CASE Usable(s) /\ s.auth = Typed(p)
    <3>1. slot'[u] = Cleared(s)
      BY <1>4, <2>1, <2>2, AtItsLabel, CalmWorks, Moves DEF VerifyRead
    <3>2. /\ Cleared(s).state = "written" /\ Cleared(s).auth = s.auth
          /\ Cleared(s).limit = s.limit
          /\ Usable(Cleared(s)) /\ ~(Cleared(s).count >= s.limit)
      BY <1>1, <2>1, <2>2 DEF Cleared, Usable, Slots
    <3>3. \/ phase[p] = "legacy" /\ at'[p] = "verify_restart" /\ phase'[p] = "legacy"
          \/ /\ phase[p] = "main" /\ phase'[p] = "main"
             /\ \/ at'[p] = "undefine" /\ job[p].op = "delete_auth"
                \/ at'[p] = "idle" /\ res'[p] = "success"
      BY <1>1, <1>4, <2>1, <2>2, <3>2, AtItsLabel, CalmWorks, Moves DEF VerifyRead, Accept
    <3>4. phase[p] = "main" => s.auth = Pin(p)
      BY <2>2 DEF Typed
    <3>5. phase[p] = "legacy" => s.auth = Normalize(Pin(p))
      BY <2>2 DEF Typed
    <3>6. InPhase(p, S)'
      BY <1>1, <1>4, <3>3 DEF InPhase, Settled, Comparing, Tagged, Vacated, Pin
    <3>7. Tidy(u, S)'
      BY <1>1, <2>1, <3>1, <3>2 DEF Tidy, User
    <3> QED BY <1>1, <2>1, <3>1, <3>2, <3>3, <3>4, <3>5, <3>6, <3>7
            DEF AtCommand, Holds, Settled, Comparing, Tagged, Vacated, User, Pin
  <2>3. CASE Usable(s) /\ s.auth # Typed(p)
    <3>1. slot'[u] = Incremented(s) /\ at'[p] = "verify_owner" /\ phase'[p] = phase[p]
      BY <1>4, <2>1, <2>3, AtItsLabel, CalmWorks, Moves DEF VerifyRead
    <3>2. /\ Incremented(s).state = "written" /\ Incremented(s).auth = s.auth
          /\ Incremented(s).limit = s.limit
      BY <1>1, <2>1 DEF Incremented, Slots
    <3> QED BY <1>1, <1>4, <2>1, <3>1, <3>2 DEF InPhase, AtCommand, Tidy, Settled,
               Comparing, Tagged, Vacated, User, Pin
  <2>4. CASE ~Usable(s)
    <3>1. UNCHANGED slot
      BY <1>4, <2>1, <2>4, AtItsLabel, CalmWorks DEF VerifyRead
    <3>2. \/ at'[p] = "verify_owner" /\ phase'[p] = phase[p]
          \/ at'[p] = "idle" /\ phase'[p] = "main" /\ res'[p] = "error"
      BY <1>4, <2>1, <2>4, AtItsLabel, CalmWorks, Moves DEF VerifyRead
    <3> QED BY <1>1, <1>4, <2>1, <3>1, <3>2 DEF InPhase, AtCommand, Tidy, Settled,
               Comparing, Tagged, Vacated, User, Pin
  <2> QED BY <2>2, <2>3, <2>4
<1>5. CASE at[p] = "verify_owner"
  <2>1. /\ UNCHANGED slot /\ at'[p] = "idle" /\ phase'[p] = "main"
        /\ res'[p] = IF ReadsLocked(slot[u]) THEN "invalid_locked" ELSE "invalid"
    BY <1>5, AtItsLabel, CalmWorks, Moves DEF VerifyOwner
  <2>2. ReadsLocked(slot[u]) \/ Usable(slot[u])
    BY <1>1, <1>5 DEF AtCommand, ReadsLocked, Usable, Slots
  <2> QED BY <1>1, <1>5, <2>1, <2>2 DEF InPhase, AtCommand, Tidy, Settled,
             Comparing, Tagged, Vacated, User, Pin
<1> QED BY <1>2, <1>3, <1>4, <1>5 DEF Comparing

(* verify_pin's migration between its other calls, and after them.          *)
LEMMA CalmMigrating ==
  ASSUME TypeOK, Smooth, NEW p \in Procs, NEW S, Calmly(p, S),
         \/ VerifyRestart(p) \/ VerifyReopen(p)
         \/ MigrateRestart(p) \/ MigrateReopen(p)
  PROVE  InPhase(p, S)' /\ AtCommand(p, S)'
<1> DEFINE u == User(p)
<1>1. /\ UNCHANGED <<slot, tag, chosen, job>> /\ slot[u] \in Slots
      /\ InPhase(p, S) /\ AtCommand(p, S)
  BY JobTypes DEF Calmly, VerifyRestart, VerifyReopen, MigrateRestart, MigrateReopen
<1>2. CASE VerifyRestart(p)
  <2>1. /\ at'[p] = IF OnlyTagMissing(p) THEN "tag_write" ELSE "undefine"
        /\ phase'[p] = "migrate"
    BY <1>2, CalmWorks, Moves DEF VerifyRestart
  <2>2. OnlyTagMissing(p) => Holds(p)
    BY <1>1, <1>2 DEF VerifyRestart, AtCommand, OnlyTagMissing, Holds
  <2>3. Tidy(u, S) /\ slot[u].state = "written" /\ phase[p] = "legacy"
    BY <1>1, <1>2 DEF VerifyRestart, AtCommand, InPhase, Settled, Usable
  <2> QED BY <1>1, <1>2, <2>1, <2>2, <2>3 DEF VerifyRestart, InPhase, AtCommand,
             Tidy, Holds, Settled, Comparing, Tagged, Vacated, User, Pin
<1>3. CASE VerifyReopen(p)
  <2>1. /\ phase'[p] = "main"
        /\ \/ job[p].op = "delete_auth" /\ at'[p] = "undefine"
           \/ at'[p] = "idle" /\ res'[p] = "success"
    BY <1>3, CalmWorks, Moves DEF VerifyReopen, Accept
  <2>2. Tidy(u, S) /\ Holds(p) /\ tag[u] = "current" /\ phase[p] = "legacy"
    BY <1>1, <1>3 DEF VerifyReopen, AtCommand, InPhase, Settled
  <2> QED BY <1>1, <1>3, <2>1, <2>2 DEF VerifyReopen, InPhase, AtCommand,
             Tidy, Holds, Settled, Comparing, Tagged, Vacated, User, Pin
<1>4. CASE MigrateRestart(p)
  <2>1. at'[p] = "setup_owner" /\ phase'[p] = "migrate" /\ phase[p] = "migrate"
    BY <1>1, <1>4, CalmWorks, Moves DEF MigrateRestart, InPhase
  <2> QED BY <1>1, <1>4, <2>1 DEF MigrateRestart, InPhase, AtCommand,
             Settled, Comparing, Tagged, Vacated, User, Pin
<1>5. CASE MigrateReopen(p)
  <2>1. at'[p] = "verify_reopen" /\ phase'[p] = "legacy" /\ phase[p] = "migrate"
    BY <1>1, <1>5, Moves DEF MigrateReopen, MigrationEnds, InPhase
  <2> QED BY <1>1, <1>5, <2>1 DEF MigrateReopen, InPhase, AtCommand,
             Tidy, Holds, Settled, Comparing, Tagged, Vacated, User, Pin
<1> QED BY <1>2, <1>3, <1>4, <1>5

(* setup_pin up to the tag.                                                 *)
LEMMA CalmSetup ==
  ASSUME TypeOK, Smooth, NEW p \in Procs, NEW S, Calmly(p, S), SetupStep(p)
  PROVE  InPhase(p, S)' /\ AtCommand(p, S)'
<1> DEFINE u == User(p)
<1>1. /\ UNCHANGED <<tag, job>> /\ slot[u] \in Slots
      /\ chosen \in [Uids -> PinStrings] /\ u \in Uids
      /\ InPhase(p, S) /\ AtCommand(p, S)
  BY JobTypes
  DEF Calmly, SetupStep, SetupOwner, SetupDefine, SetupWrite, SetupRestart,
      UndoRestart, TypeOK
<1>2. CASE SetupOwner(p)
  <2>1. UNCHANGED <<slot, chosen>>
    BY <1>2 DEF SetupOwner
  <2>2. \/ at'[p] = "setup_define" /\ phase'[p] = phase[p] /\ slot[u].state # "written"
        \/ /\ at'[p] = "idle" /\ phase'[p] = "main" /\ res'[p] = "already"
           /\ job[p].op = "setup"
        \/ slot[u].state = "written" /\ job[p].op # "setup"
    BY <1>2, CalmWorks, Moves DEF SetupOwner, SetupFails
  <2>3. \/ phase[p] = "main" /\ job[p].op = "setup" /\ Tidy(u, S)
        \/ phase[p] = "migrate" /\ slot[u].state = "absent" /\ tag[u] = "absent"
    BY <1>1, <1>2 DEF SetupOwner, InPhase, AtCommand, Vacated
  <2>4. CASE at'[p] = "setup_define" /\ phase'[p] = phase[p] /\ slot[u].state # "written"
    <3>1. slot[u].state = "absent" /\ tag[u] = "absent"
      BY <2>3, <2>4 DEF Tidy
    <3> QED BY <1>1, <1>2, <2>1, <2>3, <2>4, <3>1
            DEF SetupOwner, InPhase, AtCommand, Settled, Comparing, Tagged,
                Vacated, User, Pin
  <2>5. CASE /\ at'[p] = "idle" /\ phase'[p] = "main" /\ res'[p] = "already"
             /\ job[p].op = "setup"
    <3>1. Tidy(u, S)
      BY <1>1, <2>3, <2>5 DEF InPhase
    <3> QED BY <1>1, <1>2, <2>1, <2>5, <3>1
            DEF SetupOwner, InPhase, AtCommand, Tidy, Settled, Comparing, Tagged,
                Vacated, User, Pin
  <2> QED BY <2>2, <2>3, <2>4, <2>5
<1>3. CASE SetupDefine(p)
  <2>1. slot[u].state = "absent" /\ tag[u] = "absent"
    BY <1>1, <1>3 DEF SetupDefine, InPhase, AtCommand, Vacated
  <2>2. /\ slot'[u] = BlankSlot(Pin(p))
        /\ at'[p] = "setup_write" /\ phase'[p] = phase[p]
        /\ chosen' = IF job[p].op = "setup"
                       THEN [chosen EXCEPT ![u] = Pin(p)] ELSE chosen
    BY <1>3, <2>1, CalmWorks, Moves DEF SetupDefine
  <2>3. Pin(p) \in S /\ (phase[p] # "main" => chosen[u] \in S)
    BY <1>1, <1>3 DEF SetupDefine, InPhase, AtCommand, Vacated, Tagged
  <2>4. chosen'[u] \in S
    BY <1>1, <1>3, <2>2, <2>3 DEF SetupDefine, InPhase, Vacated
  <2> QED BY <1>1, <1>3, <2>1, <2>2, <2>3, <2>4
          DEF SetupDefine, InPhase, AtCommand, BlankSlot, Settled, Comparing,
              Tagged, Vacated, User, Pin
<1>4. CASE SetupWrite(p)
  <2>1. slot[u].state = "blank" /\ slot[u].auth = Pin(p) /\ chosen[u] \in S
    BY <1>1, <1>4 DEF SetupWrite, AtCommand
  <2>2. PICK limit \in Limits :
          /\ slot'[u] = Written(slot[u], limit)
          /\ at'[p] = "setup_restart" /\ phase'[p] = phase[p] /\ UNCHANGED chosen
    BY <1>4, <2>1, CalmWorks, Moves DEF SetupWrite
  <2>3. Usable(Written(slot[u], limit)) /\ Written(slot[u], limit).auth = Pin(p)
    BY <2>1, LimitsAssumption DEF Smooth, Usable, Written
  <2> QED BY <1>1, <1>4, <2>1, <2>2, <2>3
          DEF SetupWrite, InPhase, AtCommand, Holds, Settled, Comparing,
              Tagged, Vacated, User, Pin
<1>5. CASE SetupRestart(p)
  <2>1. at'[p] = "tag_write" /\ phase'[p] = phase[p] /\ UNCHANGED <<slot, chosen>>
    BY <1>5, CalmWorks, Moves DEF SetupRestart
  <2> QED BY <1>1, <1>5, <2>1
          DEF SetupRestart, InPhase, AtCommand, Holds, Settled, Comparing,
              Tagged, Vacated, User, Pin
<1>6. CASE UndoRestart(p)
  BY <1>1, <1>6 DEF UndoRestart, InPhase, Settled, Comparing, Tagged, Vacated
<1> QED BY <1>2, <1>3, <1>4, <1>5, <1>6 DEF SetupStep

(* write_pin_version_tag.                                                   *)
LEMMA CalmTag ==
  ASSUME TypeOK, Smooth, NEW p \in Procs, NEW S, Calmly(p, S), TagStep(p)
  PROVE  InPhase(p, S)' /\ AtCommand(p, S)'
<1> DEFINE u == User(p)
<1>1. /\ UNCHANGED <<slot, chosen, job>> /\ slot[u] \in Slots
      /\ InPhase(p, S) /\ AtCommand(p, S)
      /\ at[p] \in Tagged /\ at[p] # "setup_restart"
  BY JobTypes DEF Calmly, TagStep, TagWrite, TagDefine, TagRewrite, Tagged
<1>2. /\ Holds(p) /\ chosen[u] \in S /\ Pin(p) \in S
      /\ \/ phase[p] = "main" /\ job[p].op = "setup"
         \/ phase[p] = "migrate" /\ job[p].op \in {"verify", "delete_auth"}
  BY <1>1 DEF InPhase, AtCommand, Tagged
<1>3. CASE tag'[u] = "current" /\ TagWritten(p)
  <2>1. \/ at'[p] = "idle" /\ phase'[p] = "main" /\ res'[p] = "ok" /\ phase[p] = "main"
        \/ at'[p] = "verify_reopen" /\ phase'[p] = "legacy" /\ phase[p] = "migrate"
        \/ at'[p] = "migrate_reopen" /\ phase'[p] = "migrate" /\ phase[p] = "migrate"
    BY <1>2, <1>3, Moves DEF TagWritten, MigrationEnds
  <2>2. slot[u].state = "written" /\ slot[u].limit > 0 /\ slot[u].auth \in S
    BY <1>1, <1>2 DEF Holds, Usable, Slots
  <2>3. Tidy(u, S)'
    BY <1>1, <1>2, <1>3, <2>2 DEF Tidy, User
  <2> QED BY <1>1, <1>2, <1>3, <2>1, <2>3
          DEF InPhase, AtCommand, Holds, Settled, Comparing, Tagged, Vacated, User, Pin
<1>4. CASE /\ at'[p] = "tag_define" /\ phase'[p] = phase[p]
           /\ tag[u] = "absent" /\ UNCHANGED tag
  BY <1>1, <1>2, <1>4
  DEF InPhase, AtCommand, Holds, Settled, Comparing, Tagged, Vacated, User, Pin
<1>5. CASE at'[p] = "tag_rewrite" /\ phase'[p] = phase[p] /\ tag'[u] = "blank"
  BY <1>1, <1>2, <1>5
  DEF InPhase, AtCommand, Holds, Settled, Comparing, Tagged, Vacated, User, Pin
<1>6. CASE TagWrite(p)
  BY <1>3, <1>4, <1>6, CalmWorks, Moves DEF TagWrite
<1>7. CASE TagDefine(p)
  BY <1>1, <1>5, <1>7, CalmWorks, Moves DEF TagDefine, AtCommand
<1>8. CASE TagRewrite(p)
  BY <1>1, <1>3, <1>8, CalmWorks, Moves DEF TagRewrite, AtCommand
<1> QED BY <1>6, <1>7, <1>8 DEF TagStep

(* delete_pin_admin, of its own or in a migration.                          *)
LEMMA CalmDelete ==
  ASSUME TypeOK, Smooth, NEW p \in Procs, NEW S, Calmly(p, S), DeleteStep(p)
  PROVE  InPhase(p, S)' /\ AtCommand(p, S)'
<1> DEFINE u == User(p)
<1>1. /\ UNCHANGED job /\ u \in Uids /\ slot[u] \in Slots
      /\ chosen \in [Uids -> PinStrings]
      /\ InPhase(p, S) /\ AtCommand(p, S)
      /\ at[p] \in {"undefine", "tag_undefine"}
      /\ \/ phase[p] = "main"
         \/ phase[p] = "migrate" /\ job[p].op \in {"verify", "delete_auth"}
  BY JobTypes DEF Calmly, DeleteStep, Undefine, TagUndefine, InPhase, TypeOK
<1>2. CASE Undefine(p)
  <2>1. Tidy(u, S) /\ (phase[p] = "migrate" => slot[u].state = "written")
    BY <1>1, <1>2 DEF Undefine, AtCommand, Settled
  <2>2. CASE slot[u].state # "absent"
    <3>1. /\ slot'[u] = NoSlot /\ UNCHANGED tag
          /\ at'[p] = "tag_undefine" /\ phase'[p] = phase[p]
          /\ chosen' = IF phase[p] = "main" THEN [chosen EXCEPT ![u] = NoPin] ELSE chosen
      BY <1>1, <1>2, <2>2, CalmWorks, Moves DEF Undefine, EndsChoice
    <3>2. /\ phase[p] = "main" => chosen'[u] = NoPin
          /\ phase[p] = "migrate" => chosen'[u] \in S
      BY <1>1, <2>1, <2>2, <3>1 DEF Tidy
    <3> QED BY <1>1, <1>2, <3>1, <3>2
            DEF Undefine, InPhase, AtCommand, NoSlot, Settled, Comparing, Tagged,
                Vacated, User, Pin
  <2>3. CASE slot[u].state = "absent"
    <3>1. /\ UNCHANGED <<slot, tag, chosen>>
          /\ at'[p] = "idle" /\ phase'[p] = "main" /\ res'[p] = "not_provisioned"
      BY <1>1, <1>2, <2>1, <2>3, CalmWorks, Moves DEF Undefine, NotDeleted
    <3> QED BY <1>1, <1>2, <2>1, <3>1
            DEF Undefine, InPhase, AtCommand, Tidy, Settled, Comparing, Tagged,
                Vacated, User, Pin
  <2> QED BY <2>2, <2>3
<1>3. CASE TagUndefine(p)
  <2>1. /\ UNCHANGED <<slot, chosen>> /\ tag'[u] = "absent"
        /\ \/ /\ phase[p] = "main"
              /\ at'[p] = "idle" /\ phase'[p] = "main" /\ res'[p] = "ok"
           \/ phase[p] = "migrate" /\ at'[p] = "migrate_restart" /\ phase'[p] = "migrate"
    BY <1>1, <1>3, CalmWorks, Moves DEF TagUndefine, Deleted
  <2> QED BY <1>1, <1>3, <2>1
          DEF TagUndefine, InPhase, AtCommand, Tidy, Settled, Comparing, Tagged,
              Vacated, User, Pin
<1> QED BY <1>2, <1>3 DEF DeleteStep

(* A step of a call that nothing disturbs leaves the store as the next one  *)
(* expects it.                                                              *)
LEMMA CalmStep ==
  ASSUME TypeOK, Smooth, NEW p \in Procs, NEW S, Calmly(p, S), Step(p)
  PROVE  Calmly(p, S)'
<1>1. InPhase(p, S)' /\ AtCommand(p, S)'
  <2>1. CASE at[p] \in Comparing
    BY <2>1, CalmComparing
  <2>2. CASE at[p] \notin Comparing /\ VerifyStep(p)
    BY <2>2, CalmMigrating
    DEF VerifyStep, Comparing, VerifyTag, VerifyOpen, VerifyRead, VerifyOwner
  <2> QED BY <2>1, <2>2, CalmSetup, CalmTag, CalmDelete DEF Step
<1>2. UNCHANGED job
  BY StepFrame
<1>3. \A v \in Uids : v # User(p) =>
        slot'[v] = slot[v] /\ tag'[v] = tag[v] /\ chosen'[v] = chosen[v]
  BY StepElsewhere
<1> QED BY <1>1, <1>2, <1>3 DEF Calmly, Tidy, User

(* What a call comes to.  A guess at a slot that takes guesses is refused   *)
(* because it is wrong or the slot's format is unknown; once it has matched *)
(* nothing refuses it any more, the migration included.                     *)
Guessing == {"verify_tag", "verify_open", "verify_read"}

(* A comparison with a slot that still takes guesses gives the answer that  *)
(* the PIN deserves.                                                        *)
LEMMA GuessSettles ==
  ASSUME TypeOK, Smooth, NEW p \in Procs, NEW S, Calmly(p, S), Step(p),
         at[p] \in Guessing, Usable(slot[User(p)])
  PROVE  /\ slot'[User(p)].state = "written"
         /\ \/ at'[p] \in {"verify_open", "verify_read"} /\ UNCHANGED slot
            \/ at'[p] = "verify_owner" /\ ~Compares(User(p), Pin(p))'
            \/ at'[p] = "idle" /\ res'[p] = "error" /\ ~Compares(User(p), Pin(p))'
            \/ at'[p] \notin Comparing /\ (at'[p] = "idle" => res'[p] = "success")
<1> DEFINE u == User(p)
           s == slot[u]
<1>1. /\ UNCHANGED <<job, tag>> /\ s \in Slots /\ s.state = "written" /\ Tidy(u, S)
      /\ User(p)' = u /\ Pin(p)' = Pin(p)
  BY JobTypes, AtItsLabel, StepFrame
  DEF Guessing, VerifyTag, VerifyOpen, VerifyRead, Usable, Calmly, AtCommand,
      Settled, Comparing, User, Pin
<1>2. CASE at[p] = "verify_tag"
  <2>1. UNCHANGED slot
    BY <1>2, AtItsLabel DEF VerifyTag
  <2>2. \/ at'[p] = "verify_open"
        \/ at'[p] = "idle" /\ res'[p] = "error" /\ tag[u] = "newer"
    BY <1>2, AtItsLabel, CalmWorks, Moves DEF VerifyTag
  <2> QED BY <1>1, <2>1, <2>2 DEF Compares
<1>3. CASE at[p] = "verify_open"
  <2>1. UNCHANGED slot /\ at'[p] = "verify_read"
    BY <1>1, <1>3, AtItsLabel, CalmWorks, Moves DEF VerifyOpen
  <2> QED BY <1>1, <2>1
<1>4. CASE at[p] = "verify_read" /\ s.auth = Typed(p)
  <2>1. Cleared(s).state = "written" /\ ~(Cleared(s).count >= s.limit)
    BY <1>1 DEF Cleared, Slots, Tidy
  <2>2. /\ SetSlot(p, Cleared(s))
        /\ \/ Goto(p, "verify_restart")
           \/ Accept(p)
    BY <1>1, <1>4, <2>1, AtItsLabel, CalmWorks DEF VerifyRead
  <2>3. at'[p] \notin Comparing /\ (at'[p] = "idle" => res'[p] = "success")
    BY <2>2, Moves DEF Accept, Comparing
  <2> QED BY <2>1, <2>2, <2>3, Moves
<1>5. CASE at[p] = "verify_read" /\ s.auth # Typed(p)
  <2>1. slot'[u] = Incremented(s) /\ at'[p] = "verify_owner"
    BY <1>1, <1>5, AtItsLabel, CalmWorks, Moves DEF VerifyRead
  <2>2. Incremented(s).state = "written" /\ Incremented(s).auth = s.auth
    BY <1>1 DEF Incremented, Slots
  <2>3. /\ tag[u] = IF phase[p] = "main" THEN "current" ELSE "absent"
        /\ phase[p] \in {"main", "legacy"}
    BY <1>5 DEF Calmly, InPhase, AtCommand, Comparing
  <2>4. Typed(p) = IF tag[u] = "current" THEN Pin(p) ELSE Normalize(Pin(p))
    BY <2>3 DEF Typed
  <2> QED BY <1>1, <1>5, <2>1, <2>2, <2>4 DEF Compares
<1> QED BY <1>2, <1>3, <1>4, <1>5 DEF Guessing

(* How a call ends that is past its comparison: well, or with what it found *)
(* when it began.                                                           *)
LEMMA CalmEnds ==
  ASSUME TypeOK, Smooth, NEW p \in Procs, NEW S, Calmly(p, S), Step(p),
         at[p] \notin Comparing, at'[p] = "idle"
  PROVE  /\ job[p].op = "verify" => res'[p] = "success"
         /\ job[p].op = "setup" =>
              \/ res'[p] = "ok"
              \/ at[p] = "setup_owner" /\ slot[User(p)].state = "written"
         /\ job[p].op \in {"delete", "delete_auth"} =>
              \/ res'[p] = "ok" /\ slot'[User(p)].state = "absent"
              \/ at[p] = "undefine" /\ phase[p] = "main" /\ slot[User(p)].state = "absent"
<1>1. InPhase(p, S) /\ AtCommand(p, S) /\ job[p] \in Jobs
  BY DEF Calmly, TypeOK
<1>2. CASE SetupStep(p)
  <2>1. CASE SetupOwner(p)
    <3>1. job[p].op = "setup" /\ slot[User(p)].state = "written" /\ at[p] = "setup_owner"
      BY <1>1, <2>1, CalmWorks, Moves
      DEF SetupOwner, SetupFails, MigrationEnds
    <3> QED BY <3>1
  <2>2. ~SetupDefine(p)
    BY <1>1, CalmWorks, Moves DEF SetupDefine, AtCommand, InPhase, Vacated
  <2>3. ~SetupWrite(p)
    BY <1>1, CalmWorks, Moves DEF SetupWrite, AtCommand
  <2>4. ~SetupRestart(p)
    BY CalmWorks, Moves DEF SetupRestart
  <2>5. ~UndoRestart(p)
    BY <1>1 DEF UndoRestart, InPhase, Settled, Comparing, Tagged, Vacated
  <2> QED BY <1>2, <2>1, <2>2, <2>3, <2>4, <2>5 DEF SetupStep
<1>3. CASE TagStep(p)
  <2>1. TagWritten(p)
    BY <1>1, <1>3, CalmWorks, Moves DEF TagStep, TagWrite, TagDefine, TagRewrite, AtCommand
  <2>2. at[p] \in Tagged
    BY <1>3 DEF TagStep, TagWrite, TagDefine, TagRewrite, Tagged
  <2>3. res'[p] = "ok" /\ phase[p] = "main"
    BY <1>1, <2>1, <2>2, Moves DEF TagWritten, MigrationEnds, InPhase
  <2> QED BY <1>1, <2>2, <2>3 DEF InPhase
<1>4. CASE DeleteStep(p)
  <2>1. phase[p] = "main" /\ job[p].op \in {"delete", "delete_auth"}
    BY <1>1, <1>4, Moves
    DEF DeleteStep, Undefine, TagUndefine, Deleted, NotDeleted, MigrationEnds, InPhase
  <2>2. CASE Undefine(p)
    BY <2>1, <2>2, CalmWorks, Moves DEF Undefine
  <2>3. CASE TagUndefine(p)
    <3>1. UNCHANGED slot /\ slot[User(p)].state = "absent"
      BY <1>1, <2>3 DEF TagUndefine, AtCommand
    <3> QED BY <2>1, <2>3, <3>1, Moves DEF TagUndefine, Deleted
  <2> QED BY <1>4, <2>2, <2>3 DEF DeleteStep
<1>5. CASE VerifyStep(p)
  <2>1. VerifyRestart(p) \/ VerifyReopen(p) \/ MigrateRestart(p) \/ MigrateReopen(p)
    BY <1>5 DEF VerifyStep, VerifyTag, VerifyOpen, VerifyRead, VerifyOwner, Comparing
  <2>2. VerifyReopen(p) /\ Accept(p)
    BY <2>1, CalmWorks, Moves
    DEF VerifyRestart, VerifyReopen, MigrateRestart, MigrateReopen, MigrationEnds
  <2>3. job[p].op \in {"verify", "delete_auth"}
    BY <1>1, <2>2 DEF VerifyReopen, InPhase
  <2> QED BY <2>2, <2>3, Moves DEF Accept
<1> QED BY <1>2, <1>3, <1>4, <1>5 DEF Step

(* A call with a PIN of S begins.                                           *)
LEMMA CalmInvoke ==
  ASSUME TypeOK, NEW p \in Procs, NEW S, Calmly(p, S),
         NEW op \in {"setup", "verify", "delete", "delete_auth"},
         NEW u \in Uids, NEW pin, op # "delete" => pin \in S, Invoke(p, op, u, pin)
  PROVE  Calmly(p, S)'
<1>1. /\ UNCHANGED <<slot, tag, chosen>>
      /\ at'[p] = EntryLabel(op)
      /\ job'[p].op = op /\ job'[p].uid = u /\ job'[p].pin = pin
      /\ phase'[p] = "main" /\ at[p] = "idle"
  BY DEF Invoke, TypeOK, Calmly, InPhase
<1>2. /\ op = "setup" => at'[p] = "setup_owner"
      /\ op = "delete" => at'[p] = "undefine"
      /\ op \in {"verify", "delete_auth"} => at'[p] = "verify_tag"
  BY <1>1 DEF EntryLabel
<1>3. \A v \in Uids : Tidy(v, S)
  BY <1>1 DEF Calmly, AtCommand, Settled
<1>4. \A v \in Uids : Tidy(v, S)'
  BY <1>1, <1>3 DEF Tidy
<1>5. InPhase(p, S)'
  BY <1>1, <1>2 DEF InPhase, Settled, Comparing, Tagged, Vacated, Pin
<1>6. AtCommand(p, S)'
  BY <1>1, <1>2, <1>4 DEF AtCommand, Settled, Comparing, Tagged, Vacated, User
<1> QED BY <1>4, <1>5, <1>6 DEF Calmly

(* Initially the store is as a call expects it.                             *)
LEMMA CalmInit ==
  ASSUME Init, 0 \notin Limits, NEW p \in Procs, NEW S, Entries \subseteq S
  PROVE  Calmly(p, S)
<1>1. PICK store \in [Uids -> {StoredBy(o, c, l) :
                                 o \in Origins, c \in Entries, l \in Limits}] :
        /\ slot   = [u \in Uids |-> store[u].slot]
        /\ tag    = [u \in Uids |-> store[u].tag]
        /\ chosen = [u \in Uids |-> store[u].chosen]
  BY DEF Init
<1>2. ASSUME NEW o \in Origins, NEW c \in Entries, NEW l \in Limits,
             NEW r, r = StoredBy(o, c, l)
      PROVE  /\ r.slot.state = "absent" => r.tag = "absent" /\ r.chosen = NoPin
             /\ r.slot.state # "absent" =>
                  r.slot.state = "written" /\ r.slot.limit > 0 /\ r.chosen \in S
             /\ r.tag = "absent" => \/ Normalize(r.slot.auth) = r.slot.auth
                                    \/ r.slot.state = "absent"
             /\ r.tag = "current" => r.slot.auth \in S
             /\ r.tag # "blank"
  <2>1. l > 0
    BY LimitsAssumption
  <2>2. CASE o = "none"
    BY <1>2, <2>2 DEF StoredBy, NoSlot
  <2>3. CASE o = "legacy"
    BY <1>2, <2>1, <2>3, NormalizeTwice DEF StoredBy, Written, BlankSlot
  <2>4. CASE o \in {"current", "newer"}
    BY <1>2, <2>1, <2>4 DEF StoredBy, Written, BlankSlot
  <2> QED BY <2>2, <2>3, <2>4, PinManagerAssumption
<1>3. \A u \in Uids : Tidy(u, S)
  <2> SUFFICES ASSUME NEW u \in Uids PROVE Tidy(u, S)
    OBVIOUS
  <2>1. slot[u] = store[u].slot /\ tag[u] = store[u].tag /\ chosen[u] = store[u].chosen
    BY <1>1
  <2>2. PICK o \in Origins, c \in Entries, l \in Limits : store[u] = StoredBy(o, c, l)
    BY <1>1
  <2> QED BY <1>2, <2>1, <2>2 DEF Tidy
<1>4. /\ at[p] = "idle" /\ phase[p] = "main" /\ res[p] = "none"
      /\ job[p].uid \in Uids
  BY DEF Init
<1> QED BY <1>3, <1>4 DEF Calmly, InPhase, AtCommand, Settled, Comparing,
             Tagged, Vacated, User

(* The only process keeps this at every step.                               *)
LEMMA CalmNext ==
  ASSUME TypeOK, Smooth, NEW p, Procs = {p}, Calmly(p, Entries), [Next]_vars
  PROVE  Calmly(p, Entries)'
<1>1. ~Crash(p)
  BY DEF TypeOK, Smooth, Unharmed, Crash
<1>2. CASE Call(p)
  BY <1>2, CalmInvoke, PinManagerAssumption DEF Call
<1>3. CASE UNCHANGED vars
  BY <1>3 DEF vars, Calmly, InPhase, AtCommand, Tidy, Holds, User, Pin
<1> QED BY <1>1, <1>2, <1>3, CalmStep DEF Next

(* What was unharmed after a step was so before it.                         *)
LEMMA UnharmedBefore ==
  ASSUME TypeOK, [Next]_vars, Unharmed'
  PROVE  Unharmed
<1>1. (Works \/ Fails) /\ UNCHANGED crashes => Unharmed
  BY DEF TypeOK, Works, Fails, Unharmed
<1>2. ASSUME UNCHANGED <<faults, crashes>> PROVE Unharmed
  BY <1>2 DEF Unharmed
<1>3. ASSUME NEW p \in Procs, Crash(p) PROVE Unharmed
  BY <1>3 DEF TypeOK, Crash, Unharmed
<1>4. ASSUME NEW p \in Procs, Call(p) PROVE Unharmed
  BY <1>2, <1>4 DEF Call, Invoke
<1>5. ASSUME NEW p \in Procs, Step(p) PROVE (Works \/ Fails) /\ UNCHANGED crashes
  <2>1. CASE SetupStep(p)
    BY <2>1 DEF SetupStep, SetupOwner, SetupDefine, SetupWrite, SetupRestart, UndoRestart
  <2>2. CASE TagStep(p)
    BY <2>2 DEF TagStep, TagWrite, TagDefine, TagRewrite
  <2>3. CASE DeleteStep(p)
    BY <2>3 DEF DeleteStep, Undefine, TagUndefine
  <2>4. CASE VerifyStep(p)
    BY <2>4 DEF VerifyStep, VerifyTag, VerifyOpen, VerifyRead, VerifyOwner,
                VerifyRestart, VerifyReopen, MigrateRestart, MigrateReopen
  <2> QED BY <1>5, <2>1, <2>2, <2>3, <2>4 DEF Step
<1> QED BY <1>1, <1>2, <1>3, <1>4, <1>5 DEF Next, vars

(* So the store is as a call expects it until something fails.              *)
LEMMA UnharmedCalmly ==
  ASSUME NEW one, Procs = {one}, 0 \notin Limits
  PROVE  Spec => [](TypeOK /\ (Unharmed => Calmly(one, Entries)))
<1>1. Init => Calmly(one, Entries)
  BY CalmInit
<1>2. TypeOK /\ (Unharmed => Calmly(one, Entries)) /\ [Next]_vars =>
        (Unharmed => Calmly(one, Entries))'
  BY UnharmedBefore, CalmNext DEF Smooth
<1> QED BY <1>1, <1>2, TypeCorrect, PTL DEF Spec

(* And it is so throughout every behaviour in which nothing can fail.       *)
LEMMA CalmAlways ==
  ASSUME NEW one, Procs = {one}, Calm
  PROVE  Spec => [](TypeOK /\ Unharmed /\ Calmly(one, Entries))
<1>1. TypeOK => Unharmed
  BY DEF TypeOK, Calm, Unharmed
<1>2. Spec => [](TypeOK /\ (Unharmed => Calmly(one, Entries)))
  BY UnharmedCalmly DEF Calm
<1> QED BY <1>1, <1>2, PTL

(* With one process at a time and as long as no command has failed, a PIN   *)
(* that verify_pin accepted is accepted again, although a migration may     *)
(* have deleted the slot and set it up anew in between.                     *)
THEOREM AcceptedAgain ==
  Solo /\ 0 \notin Limits => (Spec => []AcceptedStaysAccepted)
<1> SUFFICES ASSUME NEW one, Procs = {one}, 0 \notin Limits
             PROVE  Spec => []AcceptedStaysAccepted
  BY DEF Solo
<1>1. (Unharmed => Calmly(one, Entries)) => AcceptedStaysAccepted
  BY DEF Calmly, AtCommand, Holds, Usable, AcceptedStaysAccepted, Returned,
         AllIdle, Compares
<1>2. Spec => [](TypeOK /\ (Unharmed => Calmly(one, Entries)))
  BY UnharmedCalmly
<1> QED BY <1>1, <1>2, PTL

(* With one process at a time and as long as no command has failed,         *)
(* Invalid { locked } says whether the slot still takes a guess, although   *)
(* verify_pin reads the counter with a second command.                      *)
THEOREM LockedMeansLocked ==
  Solo /\ 0 \notin Limits => (Spec => []LockReportTrue)
<1> SUFFICES ASSUME NEW one, Procs = {one}, 0 \notin Limits
             PROVE  Spec => []LockReportTrue
  BY DEF Solo
<1>1. (Unharmed => Calmly(one, Entries)) => LockReportTrue
  BY DEF Calmly, AtCommand, LockReportTrue, AllIdle
<1>2. Spec => [](TypeOK /\ (Unharmed => Calmly(one, Entries)))
  BY UnharmedCalmly
<1> QED BY <1>1, <1>2, PTL

(* No two PINs of a set differ in leading zeros only.  Where PINs that are  *)
(* entered do, the first to be accepted for a legacy slot replaces the      *)
(* other.                                                                   *)
OneForm(S) == \A x, y \in S : SameNumber(x, y) => x = y

(* A slot between two calls verifies the PIN its user chose.                *)
LEMMA TidyVerifies ==
  ASSUME TypeOK, NEW S, OneForm(S), StoredIsChosen, NEW u \in Uids, Tidy(u, S),
         slot[u].state # "absent", tag[u] # "newer"
  PROVE  Compares(u, chosen[u])
<1>1. slot[u].state = "written" /\ SameNumber(slot[u].auth, chosen[u])
  BY DEF Tidy, StoredIsChosen
<1>2. tag[u] \in {"absent", "current"}
  BY DEF Tidy, TypeOK, TagValues
<1> QED BY <1>1, <1>2 DEF Tidy, Compares, SameNumber, OneForm

(* A store that only this release has written holds every PIN in the form   *)
(* it was chosen in, and its tag with it, so that nothing is ever migrated. *)
Current(p) ==
  /\ \A u \in Uids : slot[u].state # "absent" =>
       /\ slot[u].auth = chosen[u]
       /\ tag[u] = "current" \/ (u = User(p) /\ at[p] \in Tagged \cup {"setup_write"})
  /\ phase[p] = "main" \/ (at[p] = "verify_open" /\ slot[User(p)].state = "absent")

OfThisRelease == Origins \subseteq {"none", "current"}

(* Whichever form of their PIN a user types, it is the form they chose: no  *)
(* two PINs in use differ in leading zeros only, or no slot is in the       *)
(* format that cannot tell such PINs apart.                                 *)
Unambiguous(S) == OneForm(S) \/ OfThisRelease

(* A step of the call keeps it so.                                          *)
LEMMA CurrentStep ==
  ASSUME TypeOK, Smooth, NEW p \in Procs, NEW S, Calmly(p, S), Current(p), Step(p)
  PROVE  Current(p)'
<1> DEFINE u == User(p)
           s == slot[u]
           Well == slot'[u].state # "absent" =>
                     /\ slot'[u].auth = chosen'[u]
                     /\ \/ tag'[u] = "current"
                        \/ at'[p] \in Tagged \cup {"setup_write"}
           Mine == phase'[p] = "main" \/ (at'[p] = "verify_open" /\ slot'[u].state = "absent")
<1>1. /\ u \in Uids /\ s \in Slots /\ UNCHANGED job
      /\ chosen \in [Uids -> PinStrings]
      /\ InPhase(p, S) /\ AtCommand(p, S)
  BY JobTypes, StepFrame DEF Calmly, TypeOK
<1>2. \A v \in Uids : v # u =>
        slot'[v] = slot[v] /\ tag'[v] = tag[v] /\ chosen'[v] = chosen[v]
  BY StepElsewhere
<1>3. SUFFICES Well /\ Mine
  BY <1>1, <1>2 DEF Current, User
<1>4. /\ s.state # "absent" =>
           /\ s.auth = chosen[u]
           /\ tag[u] = "current" \/ at[p] \in Tagged \cup {"setup_write"}
      /\ phase[p] = "main" \/ (at[p] = "verify_open" /\ s.state = "absent")
  BY <1>1 DEF Current
<1>5. CASE SetupStep(p)
  <2>1. phase[p] = "main" /\ job[p].op = "setup" /\ UNCHANGED tag /\ ~UndoRestart(p)
    BY <1>1, <1>4, <1>5
    DEF SetupStep, SetupOwner, SetupDefine, SetupWrite, SetupRestart, UndoRestart,
        InPhase, Settled, Comparing, Tagged, Vacated
  <2>2. CASE SetupOwner(p)
    BY <1>4, <2>1, <2>2, CalmWorks, Moves DEF SetupOwner, SetupFails, Tagged
  <2>3. CASE SetupDefine(p)
    <3>1. \/ slot'[u] = BlankSlot(Pin(p)) /\ chosen'[u] = Pin(p) /\ at'[p] = "setup_write"
          \/ at'[p] = "idle" /\ UNCHANGED <<slot, chosen>>
      BY <1>1, <2>1, <2>3, CalmWorks, Moves DEF SetupDefine, SetupFails
    <3>2. phase'[p] = "main"
      BY <2>1, <2>3, CalmWorks, Moves DEF SetupDefine, SetupFails
    <3>3. at[p] \notin Tagged \cup {"setup_write"}
      BY <2>3 DEF SetupDefine, Tagged
    <3> QED BY <1>4, <2>1, <3>1, <3>2, <3>3 DEF BlankSlot
  <2>4. CASE SetupWrite(p)
    <3>1. s.state = "blank"
      BY <1>1, <2>4 DEF SetupWrite, AtCommand
    <3>2. PICK limit \in Limits :
            /\ slot'[u] = Written(s, limit) /\ UNCHANGED chosen
            /\ at'[p] = "setup_restart" /\ phase'[p] = phase[p]
      BY <2>4, <3>1, CalmWorks, Moves DEF SetupWrite
    <3> QED BY <1>4, <2>1, <3>1, <3>2 DEF Written, Tagged
  <2>5. CASE SetupRestart(p)
    BY <1>4, <2>1, <2>5, CalmWorks, Moves DEF SetupRestart, Tagged
  <2> QED BY <1>5, <2>1, <2>2, <2>3, <2>4, <2>5 DEF SetupStep
<1>6. CASE TagStep(p)
  <2>1. phase[p] = "main" /\ UNCHANGED <<slot, chosen>>
    BY <1>4, <1>6 DEF TagStep, TagWrite, TagDefine, TagRewrite
  <2>2. \/ tag'[u] = "current" /\ TagWritten(p)
        \/ Goto(p, "tag_define") \/ Goto(p, "tag_rewrite")
    BY <1>1, <1>6, CalmWorks, Moves DEF TagStep, TagWrite, TagDefine, TagRewrite, AtCommand
  <2> QED BY <1>4, <2>1, <2>2, Moves DEF TagWritten, Tagged
<1>7. CASE DeleteStep(p)
  <2>1. phase[p] = "main" /\ at[p] \notin Tagged \cup {"setup_write"}
    BY <1>4, <1>7 DEF DeleteStep, Undefine, TagUndefine, Tagged
  <2>2. CASE Undefine(p)
    <3>1. \/ slot'[u] = NoSlot /\ Goto(p, "tag_undefine")
          \/ UNCHANGED <<slot, chosen>> /\ NotDeleted(p, "not_provisioned")
      BY <2>2, CalmWorks, Moves DEF Undefine
    <3>2. UNCHANGED tag
      BY <2>2 DEF Undefine
    <3> QED BY <1>4, <2>1, <3>1, <3>2, Moves DEF NotDeleted, NoSlot
  <2>3. CASE TagUndefine(p)
    <3>1. s.state = "absent" /\ UNCHANGED slot
      BY <1>1, <2>3 DEF TagUndefine, AtCommand
    <3> QED BY <2>1, <2>3, <3>1, Moves DEF TagUndefine, Deleted
  <2> QED BY <1>7, <2>2, <2>3 DEF DeleteStep
<1>8. CASE VerifyStep(p)
  <2>1. /\ UNCHANGED <<tag, chosen>>
        /\ at[p] \notin Tagged \cup {"setup_write"}
    BY <1>8
    DEF VerifyStep, VerifyTag, VerifyOpen, VerifyRead, VerifyOwner, VerifyRestart,
        VerifyReopen, MigrateRestart, MigrateReopen, Tagged
  <2>2. VerifyTag(p) \/ VerifyOpen(p) \/ VerifyRead(p) \/ VerifyOwner(p)
    BY <1>1, <1>4, <1>8
    DEF VerifyStep, VerifyRestart, VerifyReopen, MigrateRestart, MigrateReopen, InPhase
  <2>3. CASE VerifyTag(p)
    BY <1>4, <2>1, <2>3, CalmWorks, Moves DEF VerifyTag
  <2>4. CASE VerifyOpen(p)
    BY <1>4, <2>1, <2>4, CalmWorks, Moves DEF VerifyOpen
  <2>5. CASE VerifyRead(p)
    <3>1. phase[p] = "main"
      BY <1>4, <2>5 DEF VerifyRead
    <3>2. phase'[p] = "main"
      BY <2>5, <3>1, CalmWorks, Moves DEF VerifyRead, Accept
    <3>3. UNCHANGED slot \/ slot'[u] = Cleared(s) \/ slot'[u] = Incremented(s)
      BY <2>5, CalmWorks, Moves DEF VerifyRead
    <3>4. /\ Cleared(s).state = s.state /\ Cleared(s).auth = s.auth
          /\ Incremented(s).state = s.state /\ Incremented(s).auth = s.auth
      BY <1>1 DEF Cleared, Incremented, Slots
    <3> QED BY <1>4, <2>1, <3>2, <3>3, <3>4
  <2>6. CASE VerifyOwner(p)
    BY <1>4, <2>1, <2>6, CalmWorks, Moves DEF VerifyOwner
  <2> QED BY <2>2, <2>3, <2>4, <2>5, <2>6
<1> QED BY <1>5, <1>6, <1>7, <1>8 DEF Step

(* So does everything around the calls: a call is made, or nothing changes. *)
LEMMA CurrentInvoke ==
  ASSUME TypeOK, NEW p \in Procs, Current(p),
         NEW op \in {"setup", "verify", "delete", "delete_auth"},
         NEW u \in Uids, NEW pin, Invoke(p, op, u, pin)
  PROVE  Current(p)'
<1>1. /\ UNCHANGED <<slot, tag, chosen, phase>> /\ at[p] = "idle"
  BY DEF Invoke
<1>2. phase[p] = "main" /\ "idle" \notin Tagged \cup {"setup_write"}
  BY <1>1 DEF Current, Tagged
<1> QED BY <1>1, <1>2 DEF Current

(* What touches neither the store nor the call keeps it current.            *)
LEMMA CurrentKept ==
  ASSUME NEW p \in Procs, Current(p),
         UNCHANGED <<slot, tag, chosen, at, phase, job>>
  PROVE  Current(p)'
BY DEF Current, User

(* Initially it is, if this release has written it.                         *)
LEMMA CurrentInit ==
  ASSUME Init, OfThisRelease, NEW p \in Procs
  PROVE  Current(p)
<1>1. PICK store \in [Uids -> {StoredBy(o, c, l) :
                                 o \in Origins, c \in Entries, l \in Limits}] :
        /\ slot   = [u \in Uids |-> store[u].slot]
        /\ tag    = [u \in Uids |-> store[u].tag]
        /\ chosen = [u \in Uids |-> store[u].chosen]
  BY DEF Init
<1>2. ASSUME NEW o \in Origins, NEW c \in Entries, NEW l \in Limits,
             NEW r, r = StoredBy(o, c, l)
      PROVE  r.slot.state # "absent" => r.slot.auth = r.chosen /\ r.tag = "current"
  <2>1. CASE o = "none"
    BY <1>2, <2>1 DEF StoredBy, NoSlot
  <2>2. CASE o = "current"
    BY <1>2, <2>2 DEF StoredBy, Written, BlankSlot
  <2> QED BY <2>1, <2>2 DEF OfThisRelease
<1>3. ASSUME NEW u \in Uids
      PROVE  slot[u].state # "absent" => slot[u].auth = chosen[u] /\ tag[u] = "current"
  <2>1. slot[u] = store[u].slot /\ tag[u] = store[u].tag /\ chosen[u] = store[u].chosen
    BY <1>1
  <2>2. PICK o \in Origins, c \in Entries, l \in Limits : store[u] = StoredBy(o, c, l)
    BY <1>1
  <2> QED BY <1>2, <2>1, <2>2
<1>4. phase[p] = "main"
  BY DEF Init
<1> QED BY <1>3, <1>4 DEF Current

(* Between two calls such a slot verifies the PIN its user chose.           *)
LEMMA CurrentVerifies ==
  ASSUME TypeOK, NEW p \in Procs, NEW S, Current(p), NEW u \in Uids, Tidy(u, S),
         slot[u].state # "absent", at[p] \notin Tagged \cup {"setup_write"}
  PROVE  Compares(u, chosen[u])
BY DEF Current, Tidy, Compares

(* Every step keeps it current.                                             *)
LEMMA CurrentNext ==
  ASSUME TypeOK, Smooth, NEW p, Procs = {p}, Calmly(p, Entries), Current(p), [Next]_vars
  PROVE  Current(p)'
<1>1. ~Crash(p)
  BY DEF TypeOK, Smooth, Unharmed, Crash
<1>2. CASE Call(p)
  BY <1>2, CurrentInvoke, PinManagerAssumption DEF Call
<1>3. CASE UNCHANGED vars
  BY <1>3, CurrentKept DEF vars
<1> QED BY <1>1, <1>2, <1>3, CurrentStep DEF Next

(* A guess at a slot that holds a PIN is compared with the chosen PIN, in   *)
(* the form it was chosen in.                                               *)
Faithful(p, S) ==
  \A u \in Uids :
    /\ Tidy(u, S) /\ at[p] \notin Tagged \cup {"setup_write"}
    /\ slot[u].state # "absent" /\ tag[u] # "newer"
    => Compares(u, chosen[u])

(* With OneForm or with a current store, a guess is always compared with    *)
(* the PIN as it was chosen.                                                *)
LEMMA FaithfulAlways ==
  ASSUME NEW one, Procs = {one}, Calm, Unambiguous(Entries)
  PROVE  Spec => []Faithful(one, Entries)
<1>0. Spec => [](TypeOK /\ Unharmed /\ Calmly(one, Entries))
  BY CalmAlways
<1>1. CASE OneForm(Entries)
  <2>1. TypeOK /\ StoredIsChosen => Faithful(one, Entries)
    BY <1>1, TidyVerifies DEF Faithful
  <2>2. Spec => []StoredIsChosen
    BY StoredAsChosen DEF Solo
  <2> QED BY <1>0, <2>1, <2>2, PTL
<1>2. CASE OfThisRelease
  <2>1. Init => Current(one)
    BY <1>2, CurrentInit
  <2>2. TypeOK /\ Calmly(one, Entries) /\ Unharmed' /\ Current(one) /\ [Next]_vars =>
          Current(one)'
    BY CurrentNext DEF Smooth, Calm
  <2>3. TypeOK /\ Current(one) => Faithful(one, Entries)
    BY CurrentVerifies DEF Faithful
  <2> QED BY <1>0, <2>1, <2>2, <2>3, PTL DEF Spec
<1> QED BY <1>1, <1>2 DEF Unambiguous

(* With one process at a time, no failing command and unambiguous PINs, the *)
(* stored form matches the choice between calls, so that a PIN that was set *)
(* up can be verified until it is deleted.                                  *)
THEOREM ChosenVerifies ==
  Solo /\ Calm /\ Unambiguous(Entries) => (Spec => []ProvisionedStaysVerifiable)
<1> SUFFICES ASSUME NEW one, Procs = {one}, Calm, Unambiguous(Entries)
             PROVE  Spec => []ProvisionedStaysVerifiable
  BY DEF Solo
<1>1. Calmly(one, Entries) /\ Faithful(one, Entries) => ProvisionedStaysVerifiable
  <2> SUFFICES ASSUME Calmly(one, Entries), Faithful(one, Entries), AllIdle,
                      NEW u \in Uids, chosen[u] # NoPin, tag[u] # "newer"
               PROVE  Compares(u, chosen[u])
    BY DEF ProvisionedStaysVerifiable
  <2>1. Tidy(u, Entries) /\ at[one] \notin Tagged \cup {"setup_write"}
    BY DEF AllIdle, Calmly, AtCommand, Settled, Tagged
  <2>2. slot[u].state # "absent"
    BY <2>1 DEF Tidy
  <2> QED BY <2>1, <2>2 DEF Faithful
<1>2. Spec => [](TypeOK /\ Unharmed /\ Calmly(one, Entries))
  BY CalmAlways
<1>3. Spec => []Faithful(one, Entries)
  BY FaithfulAlways
<1> QED BY <1>1, <1>2, <1>3, PTL

(* Under the same conditions the right PIN never raises the counter of      *)
(* wrong guesses, in whichever form verify_pin compares it.                 *)
THEOREM RightPinNeverCounts ==
  Solo /\ Calm /\ Unambiguous(Entries) => (Spec => RightPinCostsNothing)
<1> SUFFICES ASSUME NEW one, Procs = {one}, Calm, Unambiguous(Entries)
             PROVE  Spec => RightPinCostsNothing
  BY DEF Solo
<1>1. TypeOK /\ Calmly(one, Entries) /\ Faithful(one, Entries) /\ [Next]_vars =>
        [RightPinIsFree]_vars
  <2> SUFFICES ASSUME TypeOK, Calmly(one, Entries), Faithful(one, Entries), Next,
                      at[one] = "verify_read", at'[one] # at[one],
                      Pin(one) = chosen[User(one)]
               PROVE  slot'[User(one)].count <= slot[User(one)].count
    BY DEF RightPinIsFree
  <2> DEFINE u == User(one)
             s == slot[u]
  <2>1. VerifyRead(one) /\ u \in Uids /\ s \in Slots
    BY JobTypes, AtItsLabel DEF Next, Call, Invoke, Crash, TypeOK, Calm
  <2>2. /\ Tidy(u, Entries) /\ s.state = "written"
        /\ tag[u] = IF phase[one] = "main" THEN "current" ELSE "absent"
        /\ phase[one] \in {"main", "legacy"}
    BY DEF Calmly, InPhase, AtCommand, Settled, Comparing
  <2>3. Compares(u, chosen[u])
    BY <2>1, <2>2 DEF Faithful, Tagged
  <2>4. s.auth = Typed(one)
    BY <2>2, <2>3 DEF Compares, Typed
  <2>5. UNCHANGED slot \/ slot'[u] = Cleared(s)
    BY <2>1, <2>4, Moves DEF VerifyRead
  <2> QED BY <2>1, <2>5 DEF Cleared, Slots
<1>2. Spec => [](TypeOK /\ Unharmed /\ Calmly(one, Entries))
  BY CalmAlways
<1>3. Spec => []Faithful(one, Entries)
  BY FaithfulAlways
<1> QED BY <1>1, <1>2, <1>3, PTL DEF Spec, RightPinCostsNothing

-----------------------------------------------------------------------------
(***************************************************************************)
(* PINs without leading zeros look the same in both formats, so that a      *)
(* migration only adds the tag.  Then it does not matter how many processes *)
(* work on the TPM, nor which commands fail.                                *)
(***************************************************************************)
IsPlain(pin) == pin # NoPin /\ Normalize(pin) = pin

Plain(S) == \A pin \in S : IsPlain(pin)

(* A slot, where there is one, holds the PIN that was chosen for it.        *)
PlainSlot(u) ==
  slot[u].state # "absent" => slot[u].auth = chosen[u] /\ IsPlain(chosen[u])

TagLabels   == {"tag_write", "tag_define", "tag_rewrite"}
SetupLabels == {"setup_owner", "setup_define", "setup_write", "setup_restart",
                "undo_restart"}

(* A migration does not go beyond the tag: nothing is set up or removed     *)
(* other than on somebody's behalf.                                         *)
PlainCall(p) ==
  /\ at[p] = "idle" => phase[p] = "main"
  /\ at[p] # "idle" /\ job[p].op # "delete" => IsPlain(Pin(p))
  /\ phase[p] = "migrate" => at[p] \in TagLabels
  /\ at[p] \in TagLabels =>
       IF phase[p] = "migrate" THEN job[p].op \in {"verify", "delete_auth"}
                               ELSE job[p].op = "setup"
  /\ at[p] \in SetupLabels => job[p].op = "setup"
  /\ at[p] \in {"undefine", "tag_undefine"} => phase[p] = "main" \/ job[p].op = "setup"
  /\ at[p] \notin {"migrate_restart", "migrate_reopen"}
  /\ at[p] \in Comparing \cup {"verify_restart", "verify_reopen"} =>
       job[p].op \in {"verify", "delete_auth"}

PlainStore == /\ \A u \in Uids : PlainSlot(u)
              /\ \A p \in Procs : PlainCall(p)

(* An index that is defined but unwritten is being written by a setup.      *)
BlanksWritten ==
  \A u \in Uids : slot[u].state = "blank" =>
    \E p \in Procs : at[p] = "setup_write" /\ User(p) = u

(* The step's own call and slot.                                            *)
LEMMA PlainStep ==
  ASSUME TypeOK, NEW p \in Procs, Step(p), PlainCall(p), PlainSlot(User(p))
  PROVE  PlainCall(p)' /\ PlainSlot(User(p))'
<1> DEFINE u == User(p)
           s == slot[u]
<1>1. u \in Uids /\ s \in Slots /\ UNCHANGED job /\ chosen \in [Uids -> PinStrings]
  BY JobTypes, StepFrame DEF TypeOK
<1>2. SUFFICES /\ PlainCall(p)'
               /\ slot'[u].state # "absent" =>
                    slot'[u].auth = chosen'[u] /\ IsPlain(chosen'[u])
  BY <1>1 DEF PlainSlot, User
<1>3. s.state # "absent" => s.auth = chosen[u] /\ IsPlain(chosen[u])
  BY DEF PlainSlot
<1>4. CASE SetupStep(p)
  <2>1. /\ job[p].op = "setup" /\ phase[p] # "migrate" /\ IsPlain(Pin(p))
    BY <1>4 DEF SetupStep, SetupOwner, SetupDefine, SetupWrite, SetupRestart,
                UndoRestart, PlainCall, SetupLabels, TagLabels
  <2>2. \/ at'[p] = "idle" /\ phase'[p] = "main"
        \/ at'[p] \in SetupLabels \cup {"tag_write"} /\ phase'[p] = phase[p]
        \/ at'[p] = "undefine" /\ phase'[p] = "undo"
    BY <1>4, <2>1, Moves
    DEF SetupStep, SetupOwner, SetupDefine, SetupWrite, SetupRestart, UndoRestart,
        SetupFails, SetupLabels
  <2>3. PlainCall(p)'
    BY <1>1, <2>1, <2>2 DEF PlainCall, SetupLabels, TagLabels, Comparing, Pin
  <2>4. CASE UNCHANGED <<slot, chosen>>
    BY <1>3, <2>3, <2>4
  <2>5. CASE SetupDefine(p) /\ SetSlot(p, BlankSlot(Pin(p)))
    <3>1. chosen' = [chosen EXCEPT ![u] = Pin(p)] \/ UNCHANGED <<slot, chosen>>
      BY <2>1, <2>5 DEF SetupDefine
    <3>2. slot'[u] = BlankSlot(Pin(p))
      BY <2>5, Moves
    <3>3. BlankSlot(Pin(p)).state # "absent" /\ BlankSlot(Pin(p)).auth = Pin(p)
      BY DEF BlankSlot
    <3> QED BY <1>1, <1>3, <2>1, <2>3, <3>1, <3>2, <3>3
  <2>6. CASE SetupWrite(p) /\ \E limit \in Limits : SetSlot(p, Written(s, limit))
    <3>1. UNCHANGED chosen /\ s.state # "absent"
      BY <1>1, <2>6, Moves DEF SetupWrite, Written
    <3> QED BY <1>3, <2>3, <2>6, <3>1, Moves DEF Written
  <2> QED BY <1>4, <2>4, <2>5, <2>6
          DEF SetupStep, SetupOwner, SetupDefine, SetupWrite, SetupRestart, UndoRestart
<1>5. CASE TagStep(p)
  <2>1. UNCHANGED <<slot, chosen>> /\ at[p] \in TagLabels
    BY <1>5 DEF TagStep, TagWrite, TagDefine, TagRewrite, TagLabels
  <2>2. /\ IF phase[p] = "migrate" THEN job[p].op \in {"verify", "delete_auth"}
                                   ELSE job[p].op = "setup"
        /\ IsPlain(Pin(p))
    BY <2>1 DEF PlainCall, TagLabels
  <2>3. OnlyTagMissing(p)
    BY <2>2 DEF IsPlain, OnlyTagMissing
  <2>4. \/ at'[p] \in TagLabels /\ phase'[p] = phase[p]
        \/ at'[p] = "undo_restart" /\ phase'[p] = phase[p] /\ phase[p] # "migrate"
        \/ at'[p] = "verify_reopen" /\ phase'[p] = "legacy" /\ phase[p] = "migrate"
        \/ at'[p] = "idle" /\ phase'[p] = "main"
    BY <1>5, <2>3, Moves
    DEF TagStep, TagWrite, TagDefine, TagRewrite, TagWritten, TagNotWritten,
        MigrationEnds, TagLabels
  <2>5. PlainCall(p)'
    BY <1>1, <2>2, <2>4 DEF PlainCall, SetupLabels, TagLabels, Comparing, Pin
  <2> QED BY <1>3, <2>1, <2>5
<1>6. CASE DeleteStep(p)
  <2>1. /\ phase[p] # "migrate" /\ (phase[p] = "main" \/ job[p].op = "setup")
        /\ at[p] \in {"undefine", "tag_undefine"}
    BY <1>6 DEF DeleteStep, Undefine, TagUndefine, PlainCall, TagLabels
  <2>2. \/ at'[p] = "tag_undefine" /\ phase'[p] = phase[p]
        \/ at'[p] = "idle" /\ phase'[p] = "main"
    BY <1>6, <2>1, Moves
    DEF DeleteStep, Undefine, TagUndefine, Deleted, NotDeleted, SetupFails
  <2>3. PlainCall(p)'
    BY <1>1, <2>1, <2>2 DEF PlainCall, SetupLabels, TagLabels, Comparing, Pin
  <2>4. CASE UNCHANGED <<slot, chosen>>
    BY <1>3, <2>3, <2>4
  <2>5. CASE Undefine(p) /\ SetSlot(p, NoSlot)
    <3>1. slot'[u].state = "absent"
      BY <2>5, Moves DEF NoSlot
    <3> QED BY <2>3, <3>1
  <2> QED BY <1>6, <2>4, <2>5 DEF DeleteStep, Undefine, TagUndefine
<1>7. CASE VerifyStep(p)
  <2>1. /\ UNCHANGED chosen
        /\ at[p] \in Comparing \cup {"verify_restart", "verify_reopen",
                                     "migrate_restart", "migrate_reopen"}
    BY <1>7 DEF VerifyStep, VerifyTag, VerifyOpen, VerifyRead, VerifyOwner, VerifyRestart,
                VerifyReopen, MigrateRestart, MigrateReopen, Comparing
  <2>2. /\ job[p].op \in {"verify", "delete_auth"} /\ phase[p] # "migrate"
        /\ OnlyTagMissing(p)
        /\ ~MigrateRestart(p) /\ ~MigrateReopen(p)
    BY <2>1 DEF PlainCall, IsPlain, OnlyTagMissing, Comparing, TagLabels,
                MigrateRestart, MigrateReopen
  <2>3. \/ at'[p] \in Comparing \cup {"verify_restart"} /\ phase'[p] \in {phase[p], "legacy"}
        \/ at'[p] = "tag_write" /\ phase'[p] = "migrate"
        \/ at'[p] = "undefine" /\ phase'[p] = "main"
        \/ at'[p] = "idle" /\ phase'[p] = "main"
    <3>1. CASE VerifyTag(p) \/ VerifyOpen(p) \/ VerifyOwner(p)
      BY <3>1, Moves DEF VerifyTag, VerifyOpen, VerifyOwner, Comparing
    <3>2. CASE VerifyRead(p)
      BY <3>2, Moves DEF VerifyRead, Accept, Comparing
    <3>3. CASE VerifyRestart(p) \/ VerifyReopen(p)
      BY <2>2, <3>3, Moves DEF VerifyRestart, VerifyReopen, Accept
    <3> QED BY <1>7, <2>2, <3>1, <3>2, <3>3 DEF VerifyStep
  <2>4. PlainCall(p)'
    BY <1>1, <2>1, <2>2, <2>3
    DEF PlainCall, SetupLabels, TagLabels, Comparing, Pin, IsPlain, OnlyTagMissing
  <2>5. \/ UNCHANGED slot
        \/ slot'[u] = Cleared(s) \/ slot'[u] = Incremented(s)
    BY <1>7, Moves
    DEF VerifyStep, VerifyTag, VerifyOpen, VerifyRead, VerifyOwner, VerifyRestart,
        VerifyReopen, MigrateRestart, MigrateReopen
  <2>6. /\ Cleared(s).state = s.state /\ Cleared(s).auth = s.auth
        /\ Incremented(s).state = s.state /\ Incremented(s).auth = s.auth
    BY <1>1 DEF Cleared, Incremented, Slots
  <2> QED BY <1>3, <2>1, <2>4, <2>5, <2>6
<1> QED BY <1>4, <1>5, <1>6, <1>7 DEF Step

(* The store of a step, and of what surrounds the calls.                    *)
LEMMA PlainStoreStep ==
  ASSUME TypeOK, PlainStore, NEW p \in Procs, Step(p)
  PROVE  PlainStore'
<1>1. PlainCall(p)' /\ PlainSlot(User(p))' /\ UNCHANGED job
  BY PlainStep, JobTypes, StepFrame DEF PlainStore
<1>2. \A u \in Uids : u # User(p) => PlainSlot(u)'
  BY StepElsewhere DEF PlainStore, PlainSlot
<1>3. \A q \in Procs : q # p => PlainCall(q)'
  BY <1>1, StepMovesOne DEF PlainStore, PlainCall, Pin
<1> QED BY <1>1, <1>2, <1>3 DEF PlainStore, User

(* A call with a plain PIN keeps the store plain as it begins, ...          *)
LEMMA PlainStoreInvoke ==
  ASSUME TypeOK, PlainStore, NEW p \in Procs,
         NEW op \in {"setup", "verify", "delete", "delete_auth"},
         NEW u \in Uids, NEW pin, op # "delete" => IsPlain(pin), Invoke(p, op, u, pin)
  PROVE  PlainStore'
<1>1. /\ UNCHANGED <<slot, tag, chosen, phase>> /\ phase[p] = "main"
      /\ at'[p] = EntryLabel(op) /\ job'[p].op = op /\ job'[p].pin = pin
      /\ \A q \in Procs : q # p => at'[q] = at[q] /\ job'[q] = job[q]
  BY DEF Invoke, TypeOK, PlainStore, PlainCall
<1>2. PlainCall(p)'
  BY <1>1 DEF EntryLabel, PlainCall, SetupLabels, TagLabels, Comparing, Pin
<1>3. \A q \in Procs : q # p => PlainCall(q)'
  BY <1>1 DEF PlainStore, PlainCall, Pin
<1> QED BY <1>1, <1>2, <1>3 DEF PlainStore, PlainSlot

(* ... a kill does, ...                                                     *)
LEMMA PlainStoreKilled ==
  ASSUME TypeOK, PlainStore, NEW p \in Procs, Return(p, "killed"),
         UNCHANGED <<slot, tag, chosen, job>>
  PROVE  PlainStore'
<1>1. /\ at'[p] = "idle" /\ phase'[p] = "main"
      /\ \A q \in Procs : q # p => at'[q] = at[q] /\ phase'[q] = phase[q]
  BY DEF Return, TypeOK
<1>2. PlainCall(p)'
  BY <1>1 DEF PlainCall, SetupLabels, TagLabels, Comparing
<1>3. \A q \in Procs : q # p => PlainCall(q)'
  BY <1>1 DEF PlainStore, PlainCall, Pin
<1> QED BY <1>2, <1>3 DEF PlainStore, PlainSlot

(* ... and so does what touches neither the store nor the call.             *)
LEMMA PlainStoreKept ==
  ASSUME PlainStore, UNCHANGED <<slot, tag, chosen, at, phase, job>>
  PROVE  PlainStore'
BY DEF PlainStore, PlainSlot, PlainCall, Pin

(* Initially it is, if every PIN that anybody enters is.                    *)
LEMMA PlainStoreInit == Init /\ Plain(Entries) => PlainStore
<1> SUFFICES ASSUME Init, Plain(Entries) PROVE PlainStore
  OBVIOUS
<1>1. PICK store \in [Uids -> {StoredBy(o, c, l) :
                                 o \in Origins, c \in Entries, l \in Limits}] :
        /\ slot   = [u \in Uids |-> store[u].slot]
        /\ tag    = [u \in Uids |-> store[u].tag]
        /\ chosen = [u \in Uids |-> store[u].chosen]
  BY DEF Init
<1>2. ASSUME NEW o \in Origins, NEW c \in Entries, NEW l \in Limits,
             NEW r, r = StoredBy(o, c, l)
      PROVE  r.slot.state # "absent" => r.slot.auth = r.chosen /\ IsPlain(r.chosen)
  <2>1. IsPlain(c)
    BY DEF Plain
  <2>2. CASE o = "none"
    BY <1>2, <2>2 DEF StoredBy, NoSlot
  <2>3. CASE o = "legacy"
    BY <1>2, <2>1, <2>3 DEF StoredBy, Written, BlankSlot, IsPlain
  <2>4. CASE o \in {"current", "newer"}
    BY <1>2, <2>1, <2>4 DEF StoredBy, Written, BlankSlot
  <2> QED BY <2>2, <2>3, <2>4, PinManagerAssumption
<1>3. ASSUME NEW u \in Uids PROVE PlainSlot(u)
  <2>1. slot[u] = store[u].slot /\ chosen[u] = store[u].chosen
    BY <1>1
  <2>2. PICK o \in Origins, c \in Entries, l \in Limits : store[u] = StoredBy(o, c, l)
    BY <1>1
  <2> QED BY <1>2, <2>1, <2>2 DEF PlainSlot
<1>4. \A p \in Procs : at[p] = "idle" /\ phase[p] = "main"
  BY DEF Init
<1>5. \A p \in Procs : PlainCall(p)
  BY <1>4 DEF PlainCall, SetupLabels, TagLabels, Comparing
<1> QED BY <1>3, <1>5 DEF PlainStore

(* A call with the chosen PIN finds it in the slot, so that the read clears *)
(* the counter, if it changes it.                                           *)
LEMMA PlainGuess ==
  ASSUME TypeOK, PlainStore, NEW p \in Procs, Step(p), at[p] = "verify_read",
         Pin(p) = chosen[User(p)]
  PROVE  slot'[User(p)].count <= slot[User(p)].count
<1> DEFINE s == slot[User(p)]
<1>1. VerifyRead(p) /\ User(p) \in Uids /\ s \in Slots
  BY JobTypes, AtItsLabel DEF TypeOK
<1>2. IsPlain(Pin(p)) /\ PlainSlot(User(p))
  BY <1>1 DEF PlainStore, PlainCall, Comparing
<1>3. Typed(p) = Pin(p) /\ (Usable(s) => s.auth = Pin(p))
  BY <1>2 DEF Typed, IsPlain, PlainSlot, Usable
<1>4. UNCHANGED slot \/ slot'[User(p)] = Cleared(s)
  BY <1>1, <1>3, Moves DEF VerifyRead
<1> QED BY <1>1, <1>4 DEF Cleared, Slots

(* Between calls, without an unwritten index, the PIN of a slot compares.   *)
LEMMA PlainVerifies ==
  PlainStore /\ BlanksWritten /\ TypeOK => RemainingVerifies
<1> SUFFICES ASSUME PlainStore, BlanksWritten, TypeOK, AllIdle, NEW u \in Uids,
                    slot[u].state # "absent", tag[u] # "newer"
             PROVE  Compares(u, chosen[u])
  BY DEF RemainingVerifies
<1>1. slot[u].state # "blank"
  BY DEF BlanksWritten, AllIdle
<1>2. PlainSlot(u) /\ slot[u] \in Slots
  BY DEF PlainStore, TypeOK
<1>3. slot[u].state = "written"
  BY <1>1, <1>2 DEF Slots, SlotStates
<1> QED BY <1>2, <1>3 DEF PlainSlot, Compares, IsPlain

(* A setup whose commands all work writes the index it has defined.         *)
LEMMA BlanksStep ==
  ASSUME TypeOK, BlanksWritten, NEW p \in Procs, Step(p), Works
  PROVE  BlanksWritten'
<1> DEFINE u == User(p)
           s == slot[u]
<1>0. u \in Uids /\ s \in Slots /\ UNCHANGED job
  BY JobTypes, StepFrame DEF TypeOK
<1>1. ~Fails
  BY DEF Works, Fails, TypeOK
<1>2. s.state = "blank" /\ at[p] = "setup_write" => slot'[u].state # "blank"
  <2>1. at[p] = "setup_write" => SetupWrite(p)
    BY DEF Step, SetupStep, TagStep, DeleteStep, VerifyStep, SetupOwner, SetupDefine,
           SetupRestart, UndoRestart, TagWrite, TagDefine, TagRewrite, Undefine,
           TagUndefine, VerifyTag, VerifyOpen, VerifyRead, VerifyOwner, VerifyRestart,
           VerifyReopen, MigrateRestart, MigrateReopen
  <2>2. SetupWrite(p) /\ s.state = "blank" => \E l : SetSlot(p, Written(s, l))
    BY <1>1 DEF SetupWrite
  <2>3. \A l : SetSlot(p, Written(s, l)) => slot'[u].state = "written"
    BY Moves DEF Written
  <2> QED BY <2>1, <2>2, <2>3
<1>3. slot'[u].state = "blank" /\ s.state # "blank" => at'[p] = "setup_write"
  <2> SUFFICES ASSUME slot'[u].state = "blank", s.state # "blank"
               PROVE  at'[p] = "setup_write"
    OBVIOUS
  <2>1. ~UNCHANGED slot
    OBVIOUS
  <2>2. SetupDefine(p) \/ SetupWrite(p) \/ Undefine(p) \/ VerifyRead(p)
    BY <2>1
    DEF Step, SetupStep, TagStep, DeleteStep, VerifyStep, SetupOwner, SetupRestart,
        UndoRestart, TagWrite, TagDefine, TagRewrite, TagUndefine, VerifyTag, VerifyOpen,
        VerifyOwner, VerifyRestart, VerifyReopen, MigrateRestart, MigrateReopen
  <2>3. ~SetupWrite(p) /\ ~Undefine(p)
    BY <2>1, Moves DEF SetupWrite, Undefine, Written, NoSlot
  <2>4. ~VerifyRead(p)
    BY <1>0, <2>1, Moves DEF VerifyRead, Cleared, Incremented, Slots, Usable
  <2> QED BY <2>1, <2>2, <2>3, <2>4, Moves DEF SetupDefine
<1>4. ASSUME NEW v \in Uids, slot'[v].state = "blank"
      PROVE  \E q \in Procs : at'[q] = "setup_write" /\ User(q)' = v
  <2>1. CASE v # u
    <3>1. slot[v].state = "blank"
      BY <1>4, <2>1, StepElsewhere
    <3>2. PICK q \in Procs : at[q] = "setup_write" /\ User(q) = v
      BY <3>1 DEF BlanksWritten
    <3> QED BY <1>0, <2>1, <3>2, StepMovesOne DEF User
  <2>2. CASE v = u /\ s.state # "blank"
    BY <1>0, <1>3, <1>4, <2>2 DEF User
  <2>3. CASE v = u /\ s.state = "blank"
    <3>1. PICK q \in Procs : at[q] = "setup_write" /\ User(q) = u
      BY <1>0, <2>3 DEF BlanksWritten
    <3> QED BY <1>0, <1>2, <1>4, <2>3, <3>1, StepMovesOne DEF User
  <2> QED BY <2>1, <2>2, <2>3
<1> QED BY <1>4 DEF BlanksWritten

(* Entering an operation, and everything outside the calls, leaves the      *)
(* slots to their writers.                                                  *)
LEMMA BlanksKept ==
  ASSUME BlanksWritten, UNCHANGED slot,
         \A q \in Procs : at[q] # "idle" => at'[q] = at[q] /\ job'[q] = job[q]
  PROVE  BlanksWritten'
BY DEF BlanksWritten, User

(* Every index the TPM starts with is written.                              *)
LEMMA BlanksInit == Init => BlanksWritten
<1> SUFFICES ASSUME Init, NEW u \in Uids PROVE slot[u].state # "blank"
  BY DEF BlanksWritten
<1>1. PICK store \in [Uids -> {StoredBy(o, c, l) :
                                 o \in Origins, c \in Entries, l \in Limits}] :
        slot = [v \in Uids |-> store[v].slot]
  BY DEF Init
<1>2. PICK o \in Origins, c \in Entries, l \in Limits : store[u] = StoredBy(o, c, l)
  BY <1>1
<1>3. StoredBy(o, c, l).slot = NoSlot
        \/ \E b \in {BlankSlot(c), BlankSlot(Normalize(c))} :
             StoredBy(o, c, l).slot = Written(b, l)
  BY PinManagerAssumption DEF StoredBy
<1> QED BY <1>1, <1>2, <1>3 DEF NoSlot, Written

(* However many processes run the four operations, fail or are killed.      *)
LEMMA PlainStoreNext == TypeOK /\ PlainStore /\ Plain(Entries) /\ [Next]_vars => PlainStore'
<1> SUFFICES ASSUME TypeOK, PlainStore, Plain(Entries), [Next]_vars PROVE PlainStore'
  OBVIOUS
<1>1. CASE UNCHANGED vars
  BY <1>1, PlainStoreKept DEF vars
<1>2. ASSUME NEW p \in Procs, Call(p) PROVE PlainStore'
  <2>1. PICK op \in Ops, u \in Uids, pin \in Entries \cup {NoPin} :
          ((pin = NoPin) <=> (op = "delete")) /\ Invoke(p, op, u, pin)
    BY <1>2 DEF Call
  <2>2. op \in {"setup", "verify", "delete", "delete_auth"} /\ (op # "delete" => IsPlain(pin))
    BY <2>1, PinManagerAssumption DEF Plain
  <2> QED BY <2>1, <2>2, PlainStoreInvoke
<1>3. ASSUME NEW p \in Procs, Step(p) PROVE PlainStore'
  BY <1>3, PlainStoreStep
<1>4. ASSUME NEW p \in Procs, Crash(p) PROVE PlainStore'
  BY <1>4, PlainStoreKilled DEF Crash
<1> QED BY <1>1, <1>2, <1>3, <1>4 DEF Next

(* For any number of processes, whatever fails or is killed: the right PIN  *)
(* costs no attempt where no PIN starts with a zero.                        *)
THEOREM PlainPinNeverCounts == Plain(Entries) => (Spec => RightPinCostsNothing)
<1> SUFFICES ASSUME Plain(Entries) PROVE Spec => RightPinCostsNothing
  OBVIOUS
<1>1. TypeOK /\ PlainStore /\ [Next]_vars => [RightPinIsFree]_vars
  <2> SUFFICES ASSUME TypeOK, PlainStore, [Next]_vars, NEW p \in Procs,
                      at[p] = "verify_read", at'[p] # at[p], Pin(p) = chosen[User(p)]
               PROVE  slot'[User(p)].count <= slot[User(p)].count
    BY DEF RightPinIsFree
  <2>1. PICK q \in Procs : Call(q) \/ Step(q) \/ Crash(q)
    BY DEF Next, vars
  <2>2. User(p) \in Uids /\ slot[User(p)] \in Slots
    BY JobTypes DEF TypeOK
  <2>3. CASE Call(q) \/ Crash(q)
    BY <2>2, <2>3 DEF Call, Invoke, Crash, Slots
  <2>4. CASE Step(q)
    BY <2>4, PlainGuess, StepMovesOne
  <2> QED BY <2>1, <2>3, <2>4
<1>2. Spec => []TypeOK
  BY TypeCorrect
<1>3. Init => PlainStore
  BY PlainStoreInit
<1>4. TypeOK /\ PlainStore /\ [Next]_vars => PlainStore'
  BY PlainStoreNext
<1> QED BY <1>1, <1>2, <1>3, <1>4, PTL DEF Spec, RightPinCostsNothing

(* For any number of processes none of which fails or is killed, and PINs   *)
(* without leading zeros: whatever setups, deletions, verifications and     *)
(* migrations overlapped, what is left in a slot is the whole and           *)
(* verifiable PIN of one setup or earlier release.  (That the slot of a     *)
(* setup is left at all, nobody can promise: see OkSetupLasts.)             *)
THEOREM PlainPinVerifies ==
  Plain(Entries) /\ MaxFaults = 0 /\ MaxCrashes = 0 =>
    (Spec => []RemainingVerifies)
<1> SUFFICES ASSUME Plain(Entries), MaxFaults = 0, MaxCrashes = 0
             PROVE  Spec => []RemainingVerifies
  OBVIOUS
<1>1. TypeOK /\ BlanksWritten /\ [Next]_vars => BlanksWritten'
  <2> SUFFICES ASSUME TypeOK, BlanksWritten, [Next]_vars PROVE BlanksWritten'
    OBVIOUS
  <2>1. ASSUME NEW p \in Procs, Call(p) PROVE BlanksWritten'
    BY <2>1, BlanksKept DEF Call, Invoke, TypeOK
  <2>2. ASSUME NEW p \in Procs, Step(p) PROVE BlanksWritten'
    <3>1. Works
      BY <2>2, StepFrame DEF Fails, TypeOK
    <3> QED BY <2>2, <3>1, BlanksStep
  <2>3. ASSUME NEW p \in Procs, Crash(p) PROVE BlanksWritten'
    BY <2>3 DEF Crash, TypeOK
  <2>4. CASE UNCHANGED vars
    BY <2>4, BlanksKept DEF vars
  <2> QED BY <2>1, <2>2, <2>3, <2>4 DEF Next
<1>2. Spec => []TypeOK
  BY TypeCorrect
<1>3. Init => PlainStore /\ BlanksWritten
  BY PlainStoreInit, BlanksInit
<1>4. TypeOK /\ PlainStore /\ [Next]_vars => PlainStore'
  BY PlainStoreNext
<1>5. TypeOK /\ PlainStore /\ BlanksWritten => RemainingVerifies
  BY PlainVerifies
<1> QED BY <1>1, <1>2, <1>3, <1>4, <1>5, PTL DEF Spec
=============================================================================
