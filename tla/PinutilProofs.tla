--------------------------- MODULE PinutilProofs ---------------------------
(***************************************************************************)
(* Theorems about the commands of pinutil, for any number of users, of      *)
(* processes that run commands at the same time, of failures and of kills.  *)
(***************************************************************************)
EXTENDS PinutilProps, PinManagerProofs

(* The variables of the commands.                                           *)
ToolType == /\ cmd   \in [Procs -> Commands]
            /\ stage \in [Procs -> Stages]
            /\ fresh \in [Procs -> PinStrings]
            /\ spent \in [Procs -> Nat]
            /\ out   \in [Procs -> Outcomes]

(* A call of PinManager with arguments of the right type.                   *)
LEMMA InvokeTypes ==
  ASSUME TypeOK, NEW p \in Procs,
         NEW op \in {"setup", "verify", "delete", "delete_auth"},
         NEW u \in Uids, NEW pin \in PinStrings, Invoke(p, op, u, pin)
  PROVE  TypeOK'
<1>1. EntryLabel(op) \in Labels
  BY DEF EntryLabel, Labels
<1>2. [op |-> op, uid |-> u, pin |-> pin] \in Jobs
  BY DEF Jobs
<1> QED BY <1>1, <1>2 DEF Invoke, TypeOK, Results

(* A step of PinManager.                                                    *)
LEMMA StepTypes ==
  ASSUME TypeOK, NEW p \in Procs, Step(p)
  PROVE  TypeOK'
<1>1. ControlType /\ BoundType /\ job \in [Procs -> Jobs]
  BY DEF TypeOK, ControlType, BoundType
<1>2. ControlType' /\ TpmType'
  BY <1>1, StepControlType, StepTpmType
<1>3. BoundType' /\ job' \in [Procs -> Jobs]
  BY <1>1, StepFrame, FaultTypes
<1> QED BY <1>2, <1>3 DEF TypeOK, ControlType, BoundType, TpmType

(* What a command does to the store: nothing, a call, a step of the call it *)
(* is in, or leaving it when it is killed.                                  *)
Killed(p) == /\ Return(p, "killed")
             /\ crashes < MaxCrashes /\ crashes' = crashes + 1
             /\ UNCHANGED <<slot, tag, chosen, job, faults>>

(* To PinManager, a step of a command is nothing, a call, a step of a call  *)
(* or a kill.                                                               *)
LEMMA CommandOnStore ==
  ASSUME UtilTypeOK, NEW p \in Procs,
         ToolStep(p) \/ UserStep(p) \/ ManagerStep(p) \/ Kill(p)
  PROVE  \/ Outside /\ (Works \/ Fails)
         \/ \E op \in {"setup", "verify", "delete", "delete_auth"}, pin \in PinStrings :
              Invoke(p, op, Target(p), pin)
         \/ Step(p)
         \/ Killed(p)
<1>1. NoPin \in PinStrings /\ fresh[p] \in PinStrings /\ Pin(p) \in PinStrings
  BY PinsAssumption DEF UtilTypeOK, TypeOK, Jobs, Pin, NoPin, PinStrings
<1>2. Entries \subseteq PinStrings
  BY PinManagerAssumption DEF Pins
<1>3. CASE ToolStep(p)
  BY <1>1, <1>3 DEF ToolStep, Open, Look, Checked, Reopen, Removed, Stored, Works
<1>4. CASE UserStep(p)
  BY <1>1, <1>2, <1>4 DEF UserStep, Start, Confirm, EnterOld, EnterNew, Works
<1>5. CASE ManagerStep(p) \/ Kill(p)
  BY <1>5 DEF ManagerStep, Kill, Killed
<1> QED BY <1>3, <1>4, <1>5

(* Each of these keeps the types of PinManager's variables.                 *)
LEMMA StoreTypes ==
  ASSUME TypeOK, NEW p \in Procs, NEW u \in Uids,
         \/ Outside /\ (Works \/ Fails)
         \/ \E op \in {"setup", "verify", "delete", "delete_auth"}, pin \in PinStrings :
              Invoke(p, op, u, pin)
         \/ Step(p)
         \/ Killed(p)
  PROVE  TypeOK'
<1>1. CASE Outside /\ (Works \/ Fails)
  BY <1>1, PinManagerAssumption DEF Outside, Works, Fails, TypeOK
<1>2. CASE Killed(p)
  BY <1>2, PinManagerAssumption
     DEF Killed, Return, TypeOK, Labels, Phases, Results
<1> QED BY <1>1, <1>2, InvokeTypes, StepTypes

(* Stages and outcomes.                                                     *)
LEMMA MoveTypes ==
  ASSUME ToolType, NEW p \in Procs,
         \/ \E label \in Stages : Move(p, label)
         \/ \E result \in Outcomes : End(p, result)
  PROVE  stage' \in [Procs -> Stages] /\ out' \in [Procs -> Outcomes]
BY DEF ToolType, Move, End, Stages

(* A step of a command keeps the types of pinutil's.                        *)
LEMMA CommandTypes ==
  ASSUME UtilTypeOK, NEW p \in Procs,
         ToolStep(p) \/ UserStep(p) \/ ManagerStep(p) \/ Kill(p)
  PROVE  UtilTypeOK'
<1>1. TypeOK /\ ToolType /\ cmd[p] \in Commands /\ Target(p) \in Uids
  BY DEF UtilTypeOK, ToolType, Commands, Target
<1>2. TypeOK'
  BY <1>1, CommandOnStore, StoreTypes
<1>3. NoPin \in PinStrings /\ Entries \subseteq PinStrings
  BY PinsAssumption, PinManagerAssumption DEF Pins, NoPin, PinStrings
<1>4. CASE ToolStep(p)
  <2>1. UNCHANGED <<cmd, fresh, spent>>
    BY <1>4 DEF ToolStep, Open, Look, Checked, Reopen, Removed, Stored
  <2>2. \/ \E label \in Stages : Move(p, label)
        \/ \E result \in Outcomes : End(p, result)
    <3>1. CASE Open(p) \/ Reopen(p) \/ Stored(p) \/ Removed(p)
      BY <3>1 DEF Open, Reopen, Stored, Removed, Stages, Outcomes
    <3>2. CASE Look(p)
      BY <3>2 DEF Look, AfterLook, Stages, Outcomes
    <3>3. CASE Checked(p)
      BY <3>3 DEF Checked, Refusals, Told, Verdict, Stages, Outcomes
    <3> QED BY <1>4, <3>1, <3>2, <3>3 DEF ToolStep
  <2>3. stage' \in [Procs -> Stages] /\ out' \in [Procs -> Outcomes]
    BY <1>1, <2>2, MoveTypes
  <2> QED BY <1>1, <1>2, <2>1, <2>3 DEF UtilTypeOK, ToolType
<1>5. CASE Start(p)
  BY <1>1, <1>2, <1>3, <1>5, PinutilAssumption
     DEF Start, End, UtilTypeOK, ToolType, Commands, Stages, Outcomes
<1>6. CASE Confirm(p) \/ EnterOld(p) \/ EnterNew(p)
  <2>1. /\ UNCHANGED <<cmd, spent>>
        /\ fresh' \in [Procs -> PinStrings]
    BY <1>1, <1>3, <1>6 DEF Confirm, EnterOld, EnterNew, ToolType
  <2>2. stage' \in [Procs -> Stages] /\ out' \in [Procs -> Outcomes]
    BY <1>1, <1>6, MoveTypes DEF Confirm, EnterOld, EnterNew, Stages, Outcomes
  <2> QED BY <1>1, <1>2, <2>1, <2>2 DEF UtilTypeOK, ToolType
<1>7. CASE ManagerStep(p)
  BY <1>1, <1>2, <1>7 DEF ManagerStep, UtilTypeOK, ToolType
<1>8. CASE Kill(p)
  BY <1>1, <1>2, <1>8, MoveTypes DEF Kill, UtilTypeOK, ToolType, Outcomes
<1> QED BY <1>4, <1>5, <1>6, <1>7, <1>8 DEF UserStep

(* Initially every variable has its type.                                   *)
LEMMA UtilInitTypes == UtilInit => UtilTypeOK
<1> SUFFICES ASSUME UtilInit PROVE UtilTypeOK
  OBVIOUS
<1>1. TypeOK
  BY InitType DEF UtilInit
<1>2. NoPin \in PinStrings
  BY PinsAssumption DEF NoPin, PinStrings
<1>3. cmd \in [Procs -> Commands]
  <2>1. \A u \in Uids :
          [kind |-> "status", by |-> "other", machine |-> TRUE, uid |-> u] \in Commands
    BY DEF Commands
  <2> QED BY <2>1 DEF UtilInit
<1> QED BY <1>1, <1>2, <1>3 DEF UtilInit, UtilTypeOK, Stages, Outcomes

-----------------------------------------------------------------------------
(* What an attempt is charged for: a step that raises the counter compared  *)
(* a wrong PIN.                                                             *)
LEMMA ChargedForWrong ==
  ASSUME TypeOK, NEW p \in Procs, Step(p),
         slot'[User(p)].count > slot[User(p)].count
  PROVE  LET s == slot[User(p)] IN
         /\ at[p] = "verify_read" /\ at' = [at EXCEPT ![p] = "verify_owner"]
         /\ Usable(s) /\ s.auth # Typed(p)
         /\ slot' = [slot EXCEPT ![User(p)] = Incremented(s)]
         /\ UNCHANGED <<res, job, phase>>
<1> DEFINE s == slot[User(p)]
<1>1. User(p) \in Uids /\ s \in Slots /\ slot \in [Uids -> Slots]
  BY JobTypes DEF TypeOK
<1>2. s.count \in Nat /\ slot' # slot
  BY <1>1 DEF Slots
<1>3. ASSUME NEW t, SetSlot(p, t) PROVE t.count > s.count
  BY <1>1, <1>3 DEF SetSlot
<1>4. VerifyRead(p)
  <2>1. CASE SetupDefine(p)
    BY <1>2, <1>3, <2>1 DEF SetupDefine, BlankSlot
  <2>2. CASE SetupWrite(p)
    <3>1. CASE \E limit \in Limits : SetSlot(p, Written(s, limit))
      BY <1>2, <1>3, <3>1 DEF Written
    <3> QED BY <1>2, <2>2, <3>1 DEF SetupWrite
  <2>3. CASE Undefine(p)
    BY <1>2, <1>3, <2>3 DEF Undefine, NoSlot
  <2> QED BY <1>2, <2>1, <2>2, <2>3
          DEF Step, SetupStep, TagStep, DeleteStep, VerifyStep, SetupOwner,
              SetupRestart, UndoRestart, TagWrite, TagDefine, TagRewrite,
              TagUndefine, VerifyTag, VerifyOpen, VerifyOwner, VerifyRestart,
              VerifyReopen, MigrateRestart, MigrateReopen
<1>5. ~SetSlot(p, Cleared(s))
  BY <1>1, <1>2, <1>3 DEF Cleared, Slots
<1> QED BY <1>2, <1>4, <1>5 DEF VerifyRead, SetSlot, Goto

(* A command is in PinManager only at three of its stages, and it is past   *)
(* any further comparison when a wrong one has been charged to it.          *)
Inside == {"checking", "removing", "storing"}

Charge(p) ==
  /\ at[p] # "idle" => stage[p] \in Inside
  /\ spent[p] # 0 =>
       /\ spent[p] = 1
       /\ \/ stage[p] = "done"
          \/ /\ stage[p] \in Inside
             /\ \/ at[p] = "verify_owner"
                \/ at[p] = "idle" /\ res[p] \in {"invalid", "invalid_locked"}

(* A step of a command keeps the account of the attempts it was charged.    *)
LEMMA ChargeKept ==
  ASSUME UtilTypeOK, NEW p \in Procs, Charge(p),
         ToolStep(p) \/ UserStep(p) \/ ManagerStep(p) \/ Kill(p)
  PROVE  Charge(p)'
<1>1. /\ at \in [Procs -> Labels] /\ res \in [Procs -> Results]
      /\ stage \in [Procs -> Stages] /\ spent \in [Procs -> Nat]
      /\ out \in [Procs -> Outcomes]
  BY DEF UtilTypeOK, TypeOK
<1>2. ASSUME NEW op, NEW u, NEW pin, NEW label \in Inside,
             Invoke(p, op, u, pin), Move(p, label), spent' = spent, spent[p] = 0
      PROVE  Charge(p)'
  BY <1>1, <1>2 DEF Invoke, Move, Charge
<1>3. ASSUME NEW result, Outside, End(p, result), spent' = spent, at[p] = "idle"
      PROVE  Charge(p)'
  BY <1>1, <1>3 DEF Outside, End, Charge
<1>4. ASSUME NEW label, Outside, Move(p, label), spent' = spent,
             at[p] = "idle", spent[p] = 0
      PROVE  Charge(p)'
  BY <1>1, <1>4 DEF Outside, Move, Charge
<1>5. stage[p] \notin Inside => at[p] = "idle"
  BY DEF Charge
<1>6. stage[p] \notin Inside \cup {"done"} => spent[p] = 0
  BY DEF Charge
<1>7. CASE Start(p)
  BY <1>1, <1>5, <1>7 DEF Start, Outside, Charge, Inside
<1>8. CASE Open(p) \/ Look(p) \/ Reopen(p)
  BY <1>3, <1>4, <1>5, <1>6, <1>8 DEF Open, Look, Reopen, Inside
<1>9. CASE Confirm(p) \/ EnterOld(p) \/ EnterNew(p)
  BY <1>2, <1>3, <1>5, <1>6, <1>9 DEF Confirm, EnterOld, EnterNew, Inside
<1>10. CASE Checked(p)
  <2>1. res[p] = "success" => spent[p] = 0
    BY <1>10 DEF Checked, Back, Charge
  <2> QED BY <1>3, <1>4, <1>10, <2>1 DEF Checked, Back, Inside
<1>11. CASE Removed(p) \/ Stored(p)
  <2>1. at[p] = "idle" /\ stage[p] \in Inside
    BY <1>11 DEF Removed, Stored, Back, Inside
  <2>2. res[p] = "ok" => spent[p] = 0
    BY <2>1 DEF Charge, Inside
  <2> QED BY <1>2, <1>3, <1>11, <2>1, <2>2 DEF Removed, Stored, Inside
<1>12. CASE ManagerStep(p)
  <2>1. stage' = stage /\ Step(p) /\ TypeOK /\ stage[p] \in Inside
    <3>1. at[p] # "idle"
      BY <1>12, InACall DEF ManagerStep
    <3> QED BY <1>12, <3>1 DEF ManagerStep, UtilTypeOK, Charge
  <2>2. CASE spent[p] # 0
    <3>1. at[p] = "verify_owner" /\ spent[p] = 1
      BY <2>1, <2>2, InACall DEF Charge, Inside
    <3>2. VerifyOwner(p)
      BY <2>1, <3>1, AtItsLabel
    <3>3. spent' = spent
      BY <1>12, <2>1, <3>1, ChargedForWrong DEF ManagerStep
    <3> QED BY <1>1, <2>1, <3>1, <3>2, <3>3 DEF VerifyOwner, Return, Charge
  <2>3. CASE spent[p] = 0 /\ slot'[User(p)].count > slot[User(p)].count
    BY <1>1, <1>12, <2>1, <2>3, ChargedForWrong DEF ManagerStep, Charge
  <2>4. CASE spent[p] = 0 /\ ~(slot'[User(p)].count > slot[User(p)].count)
    BY <1>12, <2>1, <2>4 DEF ManagerStep, Charge
  <2> QED BY <2>2, <2>3, <2>4
<1>13. CASE Kill(p)
  BY <1>1, <1>13 DEF Kill, Return, End, Charge
<1> QED BY <1>7, <1>8, <1>9, <1>10, <1>11, <1>12, <1>13 DEF ToolStep, UserStep

(* A step of one process leaves the others where they are.                  *)
LEMMA OthersStand ==
  ASSUME UtilTypeOK, NEW p \in Procs, NEW q \in Procs, q # p,
         ToolStep(p) \/ UserStep(p) \/ ManagerStep(p) \/ Kill(p)
  PROVE  /\ at'[q] = at[q] /\ phase'[q] = phase[q] /\ job'[q] = job[q] /\ res'[q] = res[q]
         /\ cmd'[q] = cmd[q] /\ stage'[q] = stage[q] /\ fresh'[q] = fresh[q]
         /\ spent'[q] = spent[q] /\ out'[q] = out[q]
<1>1. /\ at'[q] = at[q] /\ phase'[q] = phase[q]
      /\ job'[q] = job[q] /\ res'[q] = res[q]
  <2>1. TypeOK
    BY DEF UtilTypeOK
  <2>2. CASE Outside
    BY <2>2 DEF Outside
  <2>3. CASE \E op, pin : Invoke(p, op, Target(p), pin)
    BY <2>1, <2>3 DEF Invoke, TypeOK
  <2>4. CASE Step(p)
    BY <2>1, <2>4, StepMovesOne, StepFrame
  <2>5. CASE Killed(p)
    BY <2>1, <2>5 DEF Killed, Return, TypeOK
  <2> QED BY <2>2, <2>3, <2>4, <2>5, CommandOnStore
<1>2. /\ cmd'[q] = cmd[q] /\ stage'[q] = stage[q] /\ fresh'[q] = fresh[q]
      /\ spent'[q] = spent[q] /\ out'[q] = out[q]
  <2>1. CASE ToolStep(p)
    BY <2>1 DEF ToolStep, Open, Look, Checked, Reopen, Removed, Stored, Move, End,
                UtilTypeOK
  <2>2. CASE UserStep(p)
    BY <2>2 DEF UserStep, Start, Confirm, EnterOld, EnterNew, Move, End, UtilTypeOK
  <2>3. CASE ManagerStep(p) \/ Kill(p)
    BY <2>3 DEF ManagerStep, Kill, End, UtilTypeOK
  <2> QED BY <2>1, <2>2, <2>3
<1> QED BY <1>1, <1>2

-----------------------------------------------------------------------------
CommandInv == UtilTypeOK /\ \A p \in Procs : Charge(p)

(* Initially no command was charged anything.                               *)
LEMMA CommandInvInit == UtilInit => CommandInv
<1> SUFFICES ASSUME UtilInit PROVE CommandInv
  OBVIOUS
<1>1. \A p \in Procs : at[p] = "idle" /\ spent[p] = 0
  BY DEF UtilInit, Init
<1> QED BY <1>1, UtilInitTypes DEF CommandInv, Charge

(* Every step keeps the types and the account.                              *)
LEMMA CommandInvNext == CommandInv /\ [UtilNext]_utilVars => CommandInv'
<1> SUFFICES ASSUME CommandInv, [UtilNext]_utilVars PROVE CommandInv'
  OBVIOUS
<1>1. ASSUME NEW p \in Procs,
             ToolStep(p) \/ UserStep(p) \/ ManagerStep(p) \/ Kill(p)
      PROVE  CommandInv'
  <2>1. UtilTypeOK'
    BY <1>1, CommandTypes DEF CommandInv
  <2>2. Charge(p)'
    BY <1>1, ChargeKept DEF CommandInv
  <2>3. ASSUME NEW q \in Procs, q # p PROVE Charge(q)'
    BY <1>1, <2>3, OthersStand DEF CommandInv, Charge
  <2> QED BY <2>1, <2>2, <2>3 DEF CommandInv
<1>2. CASE UNCHANGED utilVars
  BY <1>2 DEF utilVars, CommandInv, Charge, UtilTypeOK, TypeOK
<1> QED BY <1>1, <1>2 DEF UtilNext

(* The commands keep the types of their own variables and of the store's.   *)
THEOREM CommandsTyped == UtilSpec => []UtilTypeOK
<1>1. CommandInv => UtilTypeOK
  BY DEF CommandInv
<1> QED BY <1>1, CommandInvInit, CommandInvNext, PTL DEF UtilSpec

(* However many commands run at once and wherever they fail or are killed,  *)
(* none costs its user more than one attempt: a command that was charged    *)
(* one has nothing left to compare.                                         *)
THEOREM CommandsCostOneAttempt == UtilSpec => []AtMostOneAttempt
<1>1. CommandInv => AtMostOneAttempt
  BY DEF CommandInv, Charge, AtMostOneAttempt, UtilTypeOK
<1> QED BY <1>1, CommandInvInit, CommandInvNext, PTL DEF UtilSpec

-----------------------------------------------------------------------------
(***************************************************************************)
(* What a command has asked PinManager for, and who asked.                  *)
(***************************************************************************)
Errand(p) ==
  LET kind == cmd[p].kind
      op   == job[p].op IN
  /\ stage[p] # "done" /\ kind \in {"setup", "change", "delete"} => CanManage(cmd[p].by)
  /\ stage[p] = "confirm" => kind = "delete" /\ IsRoot(p)
  /\ stage[p] = "old_pin" => kind \in {"change", "delete", "test"}
  /\ stage[p] = "reopen"  => kind = "change"
  /\ stage[p] = "new_pin" => kind \in {"setup", "change"}
  /\ stage[p] = "checking" => kind \in {"change", "test"} /\ op = "verify"
  /\ stage[p] = "removing" => /\ kind \in {"change", "delete"}
                              /\ op = "delete_auth" \/ (op = "delete" /\ IsRoot(p))
  /\ stage[p] = "storing" => kind \in {"setup", "change"} /\ op = "setup" /\ Pin(p) = fresh[p]
  /\ stage[p] \in Inside => User(p) = Target(p)
  /\ Ended(p, "setup", "ok") \/ Ended(p, "change", "ok") =>
       op = "setup" /\ res[p] = "ok" /\ Pin(p) = fresh[p] /\ User(p) = Target(p)
  /\ at[p] = "undefine" /\ op = "verify" => phase[p] # "main"

(* A call that a command makes for its user.                                *)
LEMMA CallErrand ==
  ASSUME UtilTypeOK, NEW p \in Procs, NEW op, NEW pin, NEW label \in Stages,
         Invoke(p, op, Target(p), pin), Move(p, label)
  PROVE  /\ stage'[p] = label /\ at'[p] # "idle" /\ phase' = phase
         /\ job'[p].op = op /\ job'[p].uid = Target(p) /\ job'[p].pin = pin
         /\ op = "verify" => at'[p] = "verify_tag"
BY DEF UtilTypeOK, TypeOK, Invoke, Move, EntryLabel

(* A step of a command keeps what it asked for and who asked.               *)
LEMMA ErrandKept ==
  ASSUME UtilTypeOK, NEW p \in Procs, Charge(p), Errand(p),
         ToolStep(p) \/ UserStep(p) \/ ManagerStep(p) \/ Kill(p)
  PROVE  Errand(p)'
<1> DEFINE kind == cmd[p].kind
<1>1. /\ TypeOK /\ ToolType /\ cmd[p] \in Commands
      /\ stage \in [Procs -> Stages] /\ out \in [Procs -> Outcomes]
      /\ stage[p] \notin Inside => at[p] = "idle"
  BY DEF UtilTypeOK, ToolType, Charge
<1>2. ASSUME NEW label \in Stages, Move(p, label), Outside, at[p] = "idle",
             UNCHANGED <<cmd, fresh>>
      PROVE  stage'[p] = label /\ at'[p] = "idle" /\ UNCHANGED <<job, res, phase, cmd, fresh>>
  BY <1>1, <1>2 DEF Move, Outside
<1>3. ASSUME NEW result, End(p, result), Outside, at[p] = "idle", UNCHANGED <<cmd, fresh>>,
             result = "ok" => kind \notin {"setup", "change"}
      PROVE  Errand(p)'
  <2>1. stage'[p] = "done" /\ out'[p] = result /\ at'[p] = "idle"
    BY <1>1, <1>3 DEF End, Outside
  <2> QED BY <1>3, <2>1 DEF Errand, Ended, Inside
<1>4. CASE Start(p)
  <2>1. PICK k \in Kinds, by \in Callers, machine \in BOOLEAN, u \in Uids :
          /\ cmd' = [cmd EXCEPT ![p] = [kind |-> k, by |-> by, machine |-> machine, uid |-> u]]
          /\ IF Permitted(k, by)
               THEN /\ stage' = [stage EXCEPT ![p] = "open"]
                    /\ out' = [out EXCEPT ![p] = "none"]
               ELSE End(p, "denied")
    BY <1>4 DEF Start
  <2>2. cmd'[p].kind = k /\ cmd'[p].by = by /\ at'[p] = "idle"
    BY <1>1, <1>4, <2>1 DEF Start, Outside, ToolType, Inside
  <2>3. k \in {"setup", "change", "delete"} => (Permitted(k, by) <=> CanManage(by))
    BY DEF Permitted
  <2>4. (stage'[p] = "open" /\ Permitted(k, by)) \/ (stage'[p] = "done" /\ out'[p] = "denied")
    BY <1>1, <2>1 DEF End
  <2> QED BY <2>2, <2>3, <2>4 DEF Errand, Ended, Inside
<1>5. CASE Open(p)
  <2>1. CASE Move(p, "look")
    <3>1. stage'[p] = "look" /\ at'[p] = "idle" /\ UNCHANGED <<job, res, phase, cmd, fresh>>
      BY <1>1, <1>2, <1>5, <2>1 DEF Open, Stages, Inside
    <3> QED BY <1>5, <3>1 DEF Open, Errand, Ended, Inside
  <2> QED BY <1>1, <1>3, <1>5, <2>1 DEF Open, Inside
<1>6. CASE Look(p)
  <2>1. CASE \E result \in {"ok", "already_set", "no_pin", "locked", "error"} :
               End(p, result) /\ (result = "ok" => kind = "status")
    BY <1>1, <1>3, <1>6, <2>1 DEF Look, Inside
  <2>2. CASE \E label \in {"new_pin", "confirm", "old_pin"} :
               /\ Move(p, label)
               /\ label = "new_pin" => kind \in {"setup", "change"}
               /\ label = "confirm" => kind = "delete" /\ IsRoot(p)
               /\ label = "old_pin" => kind \in {"change", "delete", "test"}
    <3>1. PICK label \in {"new_pin", "confirm", "old_pin"} :
               /\ Move(p, label)
               /\ label = "new_pin" => kind \in {"setup", "change"}
               /\ label = "confirm" => kind = "delete" /\ IsRoot(p)
               /\ label = "old_pin" => kind \in {"change", "delete", "test"}
      BY <2>2
    <3>2. /\ stage'[p] = label /\ at'[p] = "idle"
          /\ UNCHANGED <<job, res, phase, cmd, fresh>> /\ stage[p] = "look"
      BY <1>1, <1>2, <1>6, <3>1 DEF Look, Stages, Inside
    <3> QED BY <3>1, <3>2 DEF Errand, Ended, Inside, IsRoot
  <2> QED BY <1>1, <1>6, <2>1, <2>2 DEF Look, AfterLook, Commands
<1>7. CASE Confirm(p)
  <2>1. kind = "delete" /\ IsRoot(p) /\ UNCHANGED <<cmd, fresh>> /\ CanManage(cmd[p].by)
    BY <1>7 DEF Confirm, Errand
  <2>2. CASE Invoke(p, "delete", Target(p), NoPin) /\ Move(p, "removing")
    BY <2>1, <2>2, CallErrand DEF CanManage, Errand, Ended, Stages, Inside, IsRoot, User, Target
  <2> QED BY <1>1, <1>3, <1>7, <2>1, <2>2 DEF Confirm, Inside
<1>8. CASE EnterOld(p)
  <2>1. /\ kind \in {"change", "delete", "test"} /\ UNCHANGED <<cmd, fresh>>
        /\ kind # "test" => CanManage(cmd[p].by)
    BY <1>8 DEF EnterOld, Errand
  <2>2. CASE \E pin \in Entries : Invoke(p, "delete_auth", Target(p), pin)
             /\ Move(p, "removing") /\ kind = "delete"
    BY <2>1, <2>2, CallErrand DEF CanManage, Errand, Ended, Stages, Inside, User, Target
  <2>3. CASE \E pin \in Entries : Invoke(p, "verify", Target(p), pin)
             /\ Move(p, "checking") /\ kind # "delete"
    BY <2>1, <2>3, CallErrand DEF CanManage, Errand, Ended, Stages, Inside, User, Target
  <2>4. CASE End(p, "rejected") /\ Outside
    BY <1>1, <1>3, <1>8, <2>1, <2>4 DEF EnterOld, Inside
  <2> QED BY <1>8, <2>2, <2>3, <2>4 DEF EnterOld
<1>9. CASE EnterNew(p)
  <2>1. /\ kind \in {"setup", "change"} /\ UNCHANGED cmd /\ CanManage(cmd[p].by)
        /\ fresh \in [Procs -> PinStrings]
    BY <1>1, <1>9 DEF EnterNew, Errand, ToolType
  <2>2. CASE \E pin \in Entries : Invoke(p, "setup", Target(p), pin)
             /\ Move(p, "storing") /\ kind = "setup"
             /\ fresh' = [fresh EXCEPT ![p] = pin]
    <3>1. PICK pin \in Entries :
            /\ Invoke(p, "setup", Target(p), pin) /\ Move(p, "storing")
            /\ fresh' = [fresh EXCEPT ![p] = pin]
      BY <2>2
    <3>2. /\ stage'[p] = "storing" /\ at'[p] # "idle" /\ fresh'[p] = pin
          /\ job'[p].op = "setup" /\ job'[p].uid = Target(p) /\ job'[p].pin = pin
      BY <2>1, <3>1, CallErrand DEF Stages
    <3> QED BY <2>1, <2>2, <3>2
            DEF CanManage, Errand, Ended, Inside, User, Pin, Target
  <2>3. CASE Invoke(p, "delete", Target(p), NoPin) /\ Move(p, "removing")
             /\ kind = "change" /\ IsRoot(p)
    BY <2>1, <2>3, CallErrand DEF CanManage, Errand, Ended, Stages, Inside, User, Target, IsRoot
  <2>4. CASE Invoke(p, "delete_auth", Target(p), Pin(p)) /\ Move(p, "removing")
             /\ kind = "change"
    BY <2>1, <2>4, CallErrand DEF CanManage, Errand, Ended, Stages, Inside, User, Target
  <2>5. CASE End(p, "rejected") /\ Outside /\ UNCHANGED fresh
    BY <1>1, <1>3, <1>9, <2>1, <2>5 DEF EnterNew, Inside
  <2> QED BY <1>9, <2>1, <2>2, <2>3, <2>4, <2>5 DEF EnterNew
<1>10. CASE Checked(p)
  <2>1. kind \in {"change", "test"} /\ at[p] = "idle" /\ UNCHANGED <<cmd, fresh>>
    BY <1>10 DEF Checked, Back, Errand
  <2>2. CASE Move(p, "reopen") /\ kind = "change"
    <3>1. stage'[p] = "reopen" /\ at'[p] = "idle" /\ UNCHANGED <<job, res, phase, cmd, fresh>>
      BY <1>2, <1>10, <2>1, <2>2 DEF Checked, Stages
    <3> QED BY <1>10, <2>2, <3>1 DEF Checked, Back, Errand, Ended, Inside
  <2>3. CASE \E result : End(p, result) /\ (result = "ok" => kind # "change")
    BY <1>3, <1>10, <2>1, <2>3 DEF Checked
  <2>4. \A r \in Refusals : Told(p, Verdict(r)) # "ok"
    BY DEF Refusals, Told, Verdict
  <2> QED BY <1>10, <2>1, <2>2, <2>3, <2>4 DEF Checked
<1>11. CASE Reopen(p)
  <2>1. kind = "change" /\ at[p] = "idle" /\ UNCHANGED <<cmd, fresh>>
    BY <1>1, <1>11 DEF Reopen, Errand, Inside
  <2>2. CASE Move(p, "new_pin")
    <3>1. stage'[p] = "new_pin" /\ at'[p] = "idle" /\ UNCHANGED <<job, res, phase, cmd, fresh>>
      BY <1>2, <1>11, <2>1, <2>2 DEF Reopen, Stages
    <3> QED BY <1>11, <2>1, <3>1 DEF Reopen, Errand, Ended, Inside
  <2> QED BY <1>3, <1>11, <2>1, <2>2 DEF Reopen
<1>12. CASE Removed(p)
  <2>1. kind \in {"change", "delete"} /\ at[p] = "idle" /\ UNCHANGED <<cmd, fresh>>
        /\ CanManage(cmd[p].by)
    BY <1>12 DEF Removed, Back, Errand
  <2>2. CASE Invoke(p, "setup", Target(p), fresh[p]) /\ Move(p, "storing") /\ kind = "change"
    BY <2>1, <2>2, CallErrand DEF CanManage, Errand, Ended, Stages, Inside, User, Pin, Target
  <2>3. CASE \E result : End(p, result) /\ Outside /\ (result = "ok" => kind = "delete")
    BY <1>3, <2>1, <2>3
  <2> QED BY <1>12, <2>2, <2>3 DEF Removed
<1>13. CASE Stored(p)
  <2>1. /\ kind \in {"setup", "change"} /\ UNCHANGED <<cmd, fresh>> /\ Outside
        /\ job[p].op = "setup" /\ Pin(p) = fresh[p] /\ User(p) = Target(p)
        /\ stage'[p] = "done" /\ at[p] = "idle"
        /\ out'[p] = IF res[p] = "ok" THEN "ok" ELSE "error"
    BY <1>1, <1>13 DEF Stored, Back, Errand, Inside, End
  <2> QED BY <2>1 DEF Outside, Errand, Ended, Inside, User, Pin, Target
<1>14. CASE ManagerStep(p)
  <2>1. /\ UNCHANGED <<cmd, stage, fresh, out, job>> /\ at[p] # "idle" /\ Step(p)
    BY <1>14, StepFrame, InACall DEF ManagerStep
  <2>2. stage[p] \in Inside
    BY <2>1 DEF Charge
  <2>3. at'[p] = "undefine" /\ job[p].op = "verify" => phase'[p] # "main"
    BY <1>1, <2>1, VerifyNeverDeletes
  <2> QED BY <2>1, <2>2, <2>3 DEF Errand, Ended, Inside, User, Pin, Target, IsRoot
<1>15. CASE Kill(p)
  <2>1. stage'[p] = "done" /\ out'[p] = "killed" /\ at'[p] = "idle"
    BY <1>1, <1>15 DEF Kill, Return, End, TypeOK
  <2> QED BY <2>1 DEF Errand, Ended, Inside
<1> QED BY <1>4, <1>5, <1>6, <1>7, <1>8, <1>9, <1>10, <1>11, <1>12, <1>13, <1>14, <1>15
        DEF ToolStep, UserStep

-----------------------------------------------------------------------------
(***************************************************************************)
(* One command at a time.                                                   *)
(***************************************************************************)
LEMMA OneStoreOutside ==
  ASSUME NEW p \in Procs, OneStore(p), Outside
  PROVE  OneStore(p)'
BY DEF Outside, OneStore, StoredIsChosen, OwnDelete, Vouched, SetUp, User, Pin

(* A step of the only command keeps what PinManager guarantees to one       *)
(* process.                                                                 *)
LEMMA OneStoreCommand ==
  ASSUME UtilTypeOK, NEW p \in Procs, OneStore(p),
         ToolStep(p) \/ UserStep(p) \/ ManagerStep(p) \/ Kill(p)
  PROVE  OneStore(p)'
<1>1. TypeOK
  BY DEF UtilTypeOK
<1>2. CASE Killed(p)
  BY <1>1, <1>2, OneStoreKilled DEF Killed
<1> QED BY <1>1, <1>2, CommandOnStore, OneStoreOutside, OneStoreInvoke, OneStoreStep

(* Only a setup, and a deletion that root or the right PIN has asked for,   *)
(* change which PIN is the user's; no other step does.                      *)
LEMMA WhoChanges ==
  ASSUME TypeOK, NEW p \in Procs, Charge(p), Errand(p), OneStore(p), Step(p),
         NEW u \in Uids, chosen'[u] # chosen[u]
  PROVE  /\ at'[p] # at[p] /\ Target(p) = u
         /\ \/ cmd[p].by = "root"
            \/ /\ cmd[p].by = "owner"
               /\ slot[u].state = "absent" \/ SameNumber(Pin(p), chosen[u])
<1>1. /\ stage[p] \in Inside /\ User(p) = Target(p) /\ u = User(p)
      /\ job[p] \in Jobs
  BY InACall, StepElsewhere DEF Charge, Errand, TypeOK
<1>2. job[p].op # "verify" => cmd[p].by \in {"root", "owner"}
  BY <1>1 DEF Errand, Inside, CanManage, IsRoot
<1>3. CASE job[p].op = "setup" /\ SetupDefine(p)
  <2>1. slot[u].state = "absent" /\ Goto(p, "setup_write") /\ at[p] = "setup_define"
    BY <1>1, <1>3 DEF SetupDefine
  <2> QED BY <1>1, <1>2, <1>3, <2>1 DEF Goto, TypeOK
<1>4. CASE Undefine(p) /\ (job[p].op = "setup" \/ phase[p] = "main")
  <2>1. slot[u].state # "absent" /\ Goto(p, "tag_undefine") /\ at[p] = "undefine"
    BY <1>1, <1>4 DEF Undefine
  <2>2. CASE job[p].op = "setup"
    <3>1. slot[u].auth = Pin(p) /\ SameNumber(slot[u].auth, chosen[u])
      BY <1>1, <2>1, <2>2 DEF OneStore, SetUp, StoredIsChosen
    <3> QED BY <1>1, <1>2, <2>1, <2>2, <3>1 DEF Goto, TypeOK
  <2>3. CASE job[p].op = "delete_auth"
    <3>1. SameNumber(Pin(p), chosen[u])
      BY <1>1, <2>1, <2>3 DEF OneStore, Vouched, Comparing
    <3> QED BY <1>1, <1>2, <2>1, <2>3, <3>1 DEF Goto, TypeOK
  <2>4. CASE job[p].op = "delete"
    <3>1. cmd[p].by = "root"
      BY <1>1, <2>4 DEF Errand, Inside, IsRoot
    <3> QED BY <1>1, <2>1, <3>1 DEF Goto, TypeOK
  <2>5. job[p].op # "verify"
    BY <1>4, <2>1 DEF Errand
  <2> QED BY <1>1, <2>2, <2>3, <2>4, <2>5 DEF Jobs
<1>5. ~UNCHANGED chosen
  OBVIOUS
<1>6. (SetupDefine(p) /\ job[p].op = "setup") \/ (Undefine(p) /\ (job[p].op = "setup" \/ phase[p] = "main"))
  BY <1>5
  DEF Step, SetupStep, TagStep, DeleteStep, VerifyStep, SetupOwner, SetupDefine,
      SetupWrite, SetupRestart, UndoRestart, TagWrite, TagDefine, TagRewrite,
      Undefine, EndsChoice, TagUndefine, VerifyTag, VerifyOpen, VerifyRead,
      VerifyOwner,
      VerifyRestart, VerifyReopen, MigrateRestart, MigrateReopen
<1> QED BY <1>3, <1>4, <1>6

(* A setup or change that ended Ok leaves its PIN stored and tagged.        *)
LEMMA OkIsStored ==
  ASSUME NEW p \in Procs, Charge(p), Errand(p), OneStore(p),
         Ended(p, "setup", "ok") \/ Ended(p, "change", "ok")
  PROVE  /\ slot[Target(p)].auth = fresh[p]
         /\ Compares(Target(p), fresh[p])
         /\ tag[Target(p)] = "current"
<1>1. /\ job[p].op = "setup" /\ res[p] = "ok" /\ at[p] = "idle"
      /\ Pin(p) = fresh[p] /\ User(p) = Target(p)
  BY DEF Charge, Errand, Ended, Inside
<1> QED BY <1>1 DEF OneStore, SetUp, Compares

OneCommandInv(p) == CommandInv /\ Errand(p) /\ OneStore(p)

(* Initially all of this holds.                                             *)
LEMMA OneCommandInit ==
  ASSUME UtilInit, NEW p \in Procs
  PROVE  OneCommandInv(p)
<1>1. OneStore(p)
  BY OneStoreInit DEF UtilInit
<1>2. Errand(p)
  BY DEF UtilInit, Init, Errand, Ended, Inside
<1> QED BY <1>1, <1>2, CommandInvInit DEF OneCommandInv

(* The only process keeps it at every step.                                 *)
LEMMA OneCommandNext ==
  ASSUME NEW p, Procs = {p}, OneCommandInv(p), [UtilNext]_utilVars
  PROVE  OneCommandInv(p)'
<1>1. CommandInv'
  BY CommandInvNext DEF OneCommandInv
<1>2. CASE UtilNext
  BY <1>1, <1>2, ErrandKept, OneStoreCommand DEF OneCommandInv, CommandInv, UtilNext
<1>3. CASE UNCHANGED utilVars
  BY <1>1, <1>3, OneStoreOutside
     DEF utilVars, Outside, OneCommandInv, Errand, Ended, IsRoot, User, Pin, Target
<1> QED BY <1>2, <1>3

(* While one command at a time runs, setup and change end with Ok only when *)
(* the new PIN is stored as it was entered and tagged: an Ok is never given *)
(* for a PIN that a failure, a rollback or an earlier kill has lost.        *)
THEOREM OkIsOk == Solo => (UtilSpec => []OkMeansStored)
<1> SUFFICES ASSUME NEW p, Procs = {p} PROVE UtilSpec => []OkMeansStored
  BY DEF Solo
<1>1. UtilInit => OneCommandInv(p)
  BY OneCommandInit
<1>2. OneCommandInv(p) /\ [UtilNext]_utilVars => OneCommandInv(p)'
  BY OneCommandNext
<1>3. OneCommandInv(p) => OkMeansStored
  BY OkIsStored DEF OneCommandInv, CommandInv, OkMeansStored
<1> QED BY <1>1, <1>2, <1>3, PTL DEF UtilSpec

(* While one command at a time runs, a user's PIN is set, replaced or       *)
(* removed only by root or by the user, who has entered the PIN that goes.  *)
THEOREM PinsHaveManagers == Solo => (UtilSpec => OnlyManagersChangePins)
<1> SUFFICES ASSUME NEW p, Procs = {p} PROVE UtilSpec => OnlyManagersChangePins
  BY DEF Solo
<1>1. UtilInit => OneCommandInv(p)
  BY OneCommandInit
<1>2. OneCommandInv(p) /\ [UtilNext]_utilVars => OneCommandInv(p)'
  BY OneCommandNext
<1>3. OneCommandInv(p) /\ [UtilNext]_utilVars => [ChangedByManagers]_utilVars
  <2>1. ASSUME OneCommandInv(p), UtilNext, ~Step(p) PROVE UNCHANGED chosen
    <3>1. UtilTypeOK /\ (ToolStep(p) \/ UserStep(p) \/ ManagerStep(p) \/ Kill(p))
      BY <2>1 DEF OneCommandInv, CommandInv, UtilNext
    <3> QED BY <2>1, <3>1, CommandOnStore DEF Outside, Invoke, Killed
  <2>2. ASSUME OneCommandInv(p), Step(p) PROVE ChangedByManagers
    BY <2>2, WhoChanges DEF OneCommandInv, CommandInv, UtilTypeOK, ChangedByManagers
  <2> QED BY <2>1, <2>2 DEF ChangedByManagers
<1> QED BY <1>1, <1>2, <1>3, PTL DEF UtilSpec, OnlyManagersChangePins

(* verify_pin never compares again once it has compared, and a step that    *)
(* leaves the call neither changes the slot nor finds the PIN wrong.        *)
LEMMA PastComparison ==
  ASSUME TypeOK, NEW p \in Procs, Step(p), at[p] \notin Comparing
  PROVE  /\ at'[p] \notin Comparing
         /\ at'[p] = "idle" => slot' = slot /\ res'[p] \notin Refusals
<1> DEFINE Late == Results \ Refusals
           Onward == Labels \ (Comparing \cup {"idle"})
<1>1. ASSUME \/ \E l \in Onward : Goto(p, l)
             \/ \E l \in Onward, ph \in Phases : Enter(p, l, ph)
      PROVE  at'[p] \in Onward
  BY <1>1 DEF TypeOK, Goto, Enter
<1>2. ASSUME NEW r, Return(p, r) PROVE at'[p] = "idle" /\ res'[p] = r
  BY <1>2 DEF TypeOK, Return
<1>3. CASE SetupStep(p)
  <2>1. \/ \E l \in Onward : Goto(p, l)
        \/ \E l \in Onward, ph \in Phases : Enter(p, l, ph)
        \/ \E r \in Late : Return(p, r) /\ slot' = slot
    BY <1>3 DEF SetupStep, SetupOwner, SetupDefine, SetupWrite, SetupRestart,
                UndoRestart, SetupFails, MigrationEnds, Labels, Phases, Results, Comparing, Refusals
  <2> QED BY <1>1, <1>2, <2>1 DEF Comparing
<1>4. CASE TagStep(p)
  <2>1. \/ \E l \in Onward : Goto(p, l)
        \/ \E l \in Onward, ph \in Phases : Enter(p, l, ph)
        \/ \E r \in Late : Return(p, r) /\ slot' = slot
    BY <1>4 DEF TagStep, TagWrite, TagDefine, TagRewrite, TagWritten,
                TagNotWritten, MigrationEnds, Labels, Phases, Results, Comparing, Refusals
  <2> QED BY <1>1, <1>2, <2>1 DEF Comparing
<1>5. CASE DeleteStep(p)
  <2>1. \/ \E l \in Onward : Goto(p, l)
        \/ \E l \in Onward, ph \in Phases : Enter(p, l, ph)
        \/ \E r \in Late : Return(p, r) /\ slot' = slot
    BY <1>5 DEF DeleteStep, Undefine, TagUndefine, Deleted, NotDeleted, SetupFails,
                MigrationEnds, Labels, Phases, Results, Comparing, Refusals
  <2> QED BY <1>1, <1>2, <2>1 DEF Comparing
<1>6. CASE VerifyStep(p)
  <2>1. VerifyRestart(p) \/ VerifyReopen(p) \/ MigrateRestart(p) \/ MigrateReopen(p)
    BY <1>6 DEF VerifyStep, VerifyTag, VerifyOpen, VerifyRead, VerifyOwner, Comparing
  <2>2. \/ \E l \in Onward : Goto(p, l)
        \/ \E l \in Onward, ph \in Phases : Enter(p, l, ph)
        \/ \E r \in Late : Return(p, r) /\ slot' = slot
    BY <2>1 DEF VerifyRestart, VerifyReopen, MigrateRestart, MigrateReopen, Accept,
                MigrationEnds, Labels, Phases, Results, Comparing, Refusals
  <2> QED BY <1>1, <1>2, <2>2 DEF Comparing
<1> QED BY <1>3, <1>4, <1>5, <1>6 DEF Step

-----------------------------------------------------------------------------
(***************************************************************************)
(* Commands that run one at a time while every TPM command works, with PINs *)
(* of S: what they enter, what the early returns on the counters screen,    *)
(* and what a change leaves in the slot at each of its steps.               *)
(***************************************************************************)
Entered(p, S) ==
  /\ stage[p] = "checking" => Pin(p) \in S
  /\ stage[p] \in {"reopen", "new_pin"} /\ cmd[p].kind = "change" /\ ~IsRoot(p) =>
       Pin(p) \in S
  /\ stage[p] \in {"removing", "storing"} /\ cmd[p].kind = "change" => fresh[p] \in S

(* Only a slot that takes guesses is given one, so that a refusal has but   *)
(* one reason.                                                              *)
Screened(p) ==
  /\ stage[p] = "old_pin" => Usable(slot[Target(p)])
  /\ stage[p] = "checking" /\ at[p] \in Guessing => Usable(slot[User(p)])
  /\ stage[p] = "checking" /\
     (at[p] = "verify_owner" \/ (at[p] = "idle" /\ res[p] # "success")) =>
       ~Compares(User(p), Pin(p))
  /\ stage[p] = "checking" /\ at[p] = "idle" => res[p] # "locked_out"
  /\ stage[p] = "done" /\ out[p] = "locked" => ~Usable(slot[Target(p)])
  /\ stage[p] = "done" /\ out[p] \in {"incorrect", "incorrect_locked"} =>
       /\ User(p) = Target(p) /\ ~Compares(Target(p), Pin(p))
       /\ res[p] = IF out[p] = "incorrect" THEN "invalid" ELSE "invalid_locked"

Replacing(p) ==
  cmd[p].kind = "change" =>
    LET state == slot[Target(p)].state IN
    /\ stage[p] \in {"old_pin", "reopen", "new_pin"} => state = "written"
    /\ stage[p] = "checking" /\ at[p] \in Comparing \cup {"idle"} => state = "written"
    /\ stage[p] = "removing" /\
       (\/ at[p] \in Comparing
        \/ at[p] = "undefine" /\ phase[p] = "main"
        \/ at[p] = "idle" /\ res[p] # "ok") => state = "written"
    /\ stage[p] = "removing" /\ at[p] = "idle" /\ res[p] = "ok" => state = "absent"
    /\ stage[p] = "storing" /\ at[p] = "setup_owner" => state = "absent"
    /\ stage[p] = "storing" /\ at[p] = "idle" => res[p] = "ok"
    /\ stage[p] = "done" /\ out[p] \notin {"none", "denied", "no_pin", "killed"} =>
         state = "written"

CalmTool(p, S) == Calmly(p, S) /\ Entered(p, S) /\ Screened(p) /\ Replacing(p)

(* Where Move and End leave a command.                                      *)
LEMMA Stands ==
  ASSUME UtilTypeOK, NEW p \in Procs
  PROVE  /\ \A l : Move(p, l) => stage'[p] = l /\ out'[p] = out[p]
         /\ \A r : End(p, r) => stage'[p] = "done" /\ out'[p] = r
BY DEF UtilTypeOK, Move, End

(* What a command does to the store, when the PINs it has been given are    *)
(* those of S: it calls PinManager with no others.                          *)
Does(p, S) ==
  \/ Outside
  \/ \E op \in {"setup", "verify", "delete", "delete_auth"}, pin \in S \cup {NoPin} :
       (op # "delete" => pin \in S) /\ Invoke(p, op, Target(p), pin)
  \/ Step(p)
  \/ Killed(p)

(* A command passes on what its user entered, the PIN of an earlier step    *)
(* included.                                                                *)
LEMMA EnteredKept ==
  ASSUME UtilTypeOK, NEW p \in Procs, NEW S, Entries \subseteq S,
         Entered(p, S), Charge(p), Errand(p),
         ToolStep(p) \/ UserStep(p) \/ ManagerStep(p) \/ Kill(p)
  PROVE  Does(p, S) /\ Entered(p, S)'
<1>1. /\ TypeOK /\ ToolType /\ cmd[p] \in Commands /\ Target(p) \in Uids
      /\ stage[p] \notin Inside => at[p] = "idle"
  BY DEF UtilTypeOK, ToolType, Commands, Target, Charge
<1>2. ASSUME Outside PROVE Does(p, S)
  BY <1>2 DEF Does
<1>3. ASSUME Outside, UNCHANGED <<cmd, fresh>>,
             stage'[p] \in {"reopen", "new_pin"} /\ cmd[p].kind = "change" /\ ~IsRoot(p)
               => Pin(p) \in S,
             stage'[p] \notin Inside
      PROVE  Entered(p, S)'
  BY <1>3 DEF Outside, Entered, Inside, Pin, IsRoot
<1>4. CASE Start(p)
  <2>1. stage'[p] \in {"open", "done"}
    BY <1>1, <1>4, Stands DEF Start, ToolType
  <2> QED BY <1>2, <1>4, <2>1 DEF Start, Entered
<1>5. CASE Open(p)
  BY <1>2, <1>3, <1>5, Stands DEF Open, Inside
<1>6. CASE Look(p)
  <2>1. \/ stage'[p] \in {"done", "old_pin", "confirm"}
        \/ stage'[p] = "new_pin" /\ (cmd[p].kind = "change" => IsRoot(p))
    BY <1>6, Stands DEF Look, AfterLook
  <2> QED BY <1>2, <1>3, <1>6, <2>1 DEF Look, Inside
<1>7. CASE Confirm(p)
  <2>1. cmd[p].kind = "delete" /\ UNCHANGED <<cmd, fresh>>
    BY <1>7 DEF Confirm, Errand
  <2>2. CASE Invoke(p, "delete", Target(p), NoPin) /\ Move(p, "removing")
    BY <1>1, <2>1, <2>2, Stands DEF Entered, Does
  <2> QED BY <1>2, <1>3, <1>7, <2>2, Stands DEF Confirm, Inside
<1>8. CASE EnterOld(p)
  <2>1. UNCHANGED <<cmd, fresh>>
    BY <1>8 DEF EnterOld
  <2>2. ASSUME NEW pin \in Entries, Invoke(p, "delete_auth", Target(p), pin),
               cmd[p].kind = "delete", Move(p, "removing")
        PROVE  Does(p, S) /\ Entered(p, S)'
    BY <1>1, <2>1, <2>2, Stands DEF Entered, Does
  <2>3. ASSUME NEW pin \in Entries, Invoke(p, "verify", Target(p), pin),
               Move(p, "checking")
        PROVE  Does(p, S) /\ Entered(p, S)'
    <3>1. job'[p].pin = pin /\ stage'[p] = "checking"
      BY <1>1, <2>3, CallErrand DEF Stages
    <3> QED BY <1>1, <2>1, <2>3, <3>1 DEF Entered, Does, Pin
  <2> QED BY <1>2, <1>3, <1>8, <2>2, <2>3, Stands DEF EnterOld, Inside
<1>9. CASE EnterNew(p)
  <2>1. UNCHANGED cmd /\ cmd[p].kind \in {"setup", "change"}
    BY <1>9 DEF EnterNew, Errand
  <2>2. CASE End(p, "rejected") /\ Outside
    BY <1>2, <2>2, Stands DEF Entered
  <2>3. ASSUME NEW pin \in Entries, fresh' = [fresh EXCEPT ![p] = pin],
               NEW op \in {"setup", "delete", "delete_auth"}, NEW old \in S \cup {NoPin},
               op # "delete" => old \in S,
               Invoke(p, op, Target(p), old), Move(p, "storing") \/ Move(p, "removing")
        PROVE  Does(p, S) /\ Entered(p, S)'
    <3>1. fresh'[p] = pin /\ stage'[p] \in {"storing", "removing"}
      BY <1>1, <2>3, Stands DEF ToolType
    <3> QED BY <1>1, <2>1, <2>3, <3>1 DEF Entered, Does
  <2>4. \/ End(p, "rejected") /\ Outside
        \/ \E pin \in Entries :
             /\ fresh' = [fresh EXCEPT ![p] = pin]
             /\ \/ Invoke(p, "setup", Target(p), pin) /\ Move(p, "storing")
                \/ Invoke(p, "delete", Target(p), NoPin) /\ Move(p, "removing")
                \/ /\ cmd[p].kind = "change" /\ ~IsRoot(p)
                   /\ Invoke(p, "delete_auth", Target(p), Pin(p)) /\ Move(p, "removing")
    BY <1>9, <2>1 DEF EnterNew
  <2>5. cmd[p].kind = "change" /\ ~IsRoot(p) => Pin(p) \in S
    BY <1>9 DEF EnterNew, Entered
  <2> QED BY <2>2, <2>3, <2>4, <2>5
<1>10. CASE Checked(p) \/ Reopen(p) \/ Stored(p)
  <2>1. \/ stage'[p] = "done"
        \/ stage'[p] = "reopen" /\ stage[p] = "checking"
        \/ stage'[p] = "new_pin" /\ stage[p] = "reopen"
    BY <1>10, Stands DEF Checked, Reopen, Stored, Back
  <2> QED BY <1>2, <1>3, <1>10, <2>1 DEF Checked, Reopen, Stored, Entered, Inside
<1>11. CASE Removed(p)
  <2>1. UNCHANGED <<cmd, fresh>> /\ stage[p] = "removing"
    BY <1>11 DEF Removed, Back
  <2>2. CASE /\ cmd[p].kind = "change"
             /\ Invoke(p, "setup", Target(p), fresh[p]) /\ Move(p, "storing")
    BY <1>1, <2>1, <2>2, Stands DEF Entered, Does
  <2>3. CASE Outside /\ \E r : End(p, r)
    BY <1>2, <1>3, <2>1, <2>3, Stands DEF Inside
  <2> QED BY <1>11, <2>2, <2>3 DEF Removed
<1>12. CASE ManagerStep(p)
  <2>1. UNCHANGED <<job, cmd, stage, fresh>> /\ Step(p)
    BY <1>12, StepFrame DEF ManagerStep
  <2> QED BY <1>1, <2>1 DEF Entered, Does, Pin, IsRoot
<1>13. CASE Kill(p)
  <2>1. stage'[p] = "done" /\ Killed(p)
    BY <1>1, <1>13, Stands DEF Kill, Killed
  <2> QED BY <2>1 DEF Entered, Does
<1> QED BY <1>4, <1>5, <1>6, <1>7, <1>8, <1>9, <1>10, <1>11, <1>12, <1>13
        DEF ToolStep, UserStep

(* While every TPM command works, such calls leave tidy slots behind.       *)
LEMMA CalmCommand ==
  ASSUME UtilTypeOK, Smooth, NEW p \in Procs, NEW S, Entries \subseteq S,
         Calmly(p, S), Entered(p, S), Charge(p), Errand(p),
         ToolStep(p) \/ UserStep(p) \/ ManagerStep(p)
  PROVE  Calmly(p, S)' /\ Entered(p, S)'
<1>1. TypeOK /\ Target(p) \in Uids /\ ~Killed(p)
  BY DEF UtilTypeOK, TypeOK, Commands, Target, Killed, Smooth, Unharmed
<1>2. ASSUME Outside PROVE Calmly(p, S)'
  BY <1>2 DEF Outside, Calmly, InPhase, AtCommand, Tidy, Holds, User, Pin
<1>3. Does(p, S) /\ Entered(p, S)'
  BY EnteredKept
<1> QED BY <1>1, <1>2, <1>3, CalmInvoke, CalmStep DEF Does

(* A comparison leaves a PIN in its slot, and removes none.                 *)
LEMMA ComparingKeeps ==
  ASSUME TypeOK, NEW p \in Procs, Step(p), at[p] \in Comparing,
         slot[User(p)].state = "written"
  PROVE  /\ slot'[User(p)].state = "written"
         /\ at'[p] = "idle" => res'[p] # "ok"
<1> DEFINE s == slot[User(p)]
<1>1. /\ s \in Slots
      /\ VerifyTag(p) \/ VerifyOpen(p) \/ VerifyRead(p) \/ VerifyOwner(p)
  BY JobTypes, AtItsLabel DEF Comparing
<1>2. ASSUME \/ \E l \in Labels \ {"idle"} : Goto(p, l)
             \/ \E l \in Labels \ {"idle"}, ph \in Phases : Enter(p, l, ph)
             \/ \E r \in Results \ {"ok"} : Return(p, r)
      PROVE  at'[p] = "idle" => res'[p] # "ok"
  BY <1>2, Moves
<1>3. CASE VerifyTag(p) \/ VerifyOpen(p) \/ VerifyOwner(p)
  <2>1. /\ UNCHANGED slot
        /\ \/ \E l \in Labels \ {"idle"} : Goto(p, l)
           \/ \E l \in Labels \ {"idle"}, ph \in Phases : Enter(p, l, ph)
           \/ \E r \in Results \ {"ok"} : Return(p, r)
    BY <1>3 DEF VerifyTag, VerifyOpen, VerifyOwner, Labels, Phases, Results
  <2> QED BY <1>2, <2>1
<1>4. CASE VerifyRead(p)
  <2>1. /\ UNCHANGED slot \/ SetSlot(p, Cleared(s)) \/ SetSlot(p, Incremented(s))
        /\ \/ \E l \in Labels \ {"idle"} : Goto(p, l)
           \/ \E l \in Labels \ {"idle"}, ph \in Phases : Enter(p, l, ph)
           \/ \E r \in Results \ {"ok"} : Return(p, r)
    BY <1>4 DEF VerifyRead, Accept, Labels, Phases, Results
  <2>2. Cleared(s).state = "written" /\ Incremented(s).state = "written"
    BY <1>1, JobTypes DEF Cleared, Incremented, Slots
  <2>3. slot'[User(p)].state = "written"
    BY <2>1, <2>2, Moves
  <2> QED BY <1>2, <2>1, <2>3
<1> QED BY <1>1, <1>3, <1>4

(* Under a command that runs alone the counters it read still hold when its *)
(* PIN is compared, so that the early return has screened out locked slots. *)
LEMMA ScreenedKept ==
  ASSUME UtilTypeOK, Smooth, NEW p \in Procs, NEW S, Calmly(p, S), Screened(p),
         Charge(p), Errand(p), ToolStep(p) \/ UserStep(p) \/ ManagerStep(p)
  PROVE  Screened(p)'
<1>1. /\ TypeOK /\ Target(p) \in Uids /\ slot[Target(p)] \in Slots
      /\ stage[p] \notin Inside => at[p] = "idle"
  BY DEF UtilTypeOK, TypeOK, Commands, Target, Charge
<1>2. ASSUME stage'[p] \notin {"old_pin", "checking"},
             stage'[p] = "done" => out'[p] \notin {"locked", "incorrect", "incorrect_locked"}
      PROVE  Screened(p)'
  BY <1>2 DEF Screened
<1>3. CASE Start(p)
  <2>1. stage'[p] = "open" \/ (stage'[p] = "done" /\ out'[p] = "denied")
    BY <1>3, Stands DEF Start, UtilTypeOK
  <2> QED BY <1>2, <2>1
<1>4. CASE Open(p) \/ Reopen(p) \/ Confirm(p) \/ EnterNew(p) \/ Stored(p)
  <2>1. \/ stage'[p] \in {"look", "new_pin", "removing", "storing"}
        \/ stage'[p] = "done" /\ out'[p] \in {"ok", "error", "told", "rejected"}
    BY <1>4, Stands DEF Open, Reopen, Confirm, EnterNew, Stored
  <2> QED BY <1>2, <2>1
<1>5. CASE Removed(p)
  <2>1. \/ stage'[p] = "storing"
        \/ stage'[p] = "done" /\ out'[p] \in {"ok", "error", "told", "cannot_delete"}
    BY <1>5, Stands DEF Removed
  <2> QED BY <1>2, <2>1
<1>6. CASE Look(p)
  <2>1. Tidy(Target(p), S) /\ UNCHANGED <<slot, cmd>>
    BY <1>1, <1>6 DEF Look, Outside, Inside, Calmly, AtCommand, Settled
  <2>2. \/ stage'[p] \in {"new_pin", "confirm"}
        \/ stage'[p] = "done" /\ out'[p] \in {"ok", "already_set", "no_pin", "error"}
        \/ stage'[p] = "done" /\ out'[p] = "locked" /\ InfoLocked(slot[Target(p)])
        \/ /\ stage'[p] = "old_pin" /\ slot[Target(p)].state = "written"
           /\ ~InfoLocked(slot[Target(p)])
    BY <1>6, Stands DEF Look, AfterLook, Gated, UtilTypeOK, Commands
  <2>3. InfoLocked(slot[Target(p)]) => ~Usable(slot[Target(p)])
    BY <1>1 DEF InfoLocked, Usable, Slots
  <2>4. slot[Target(p)].state = "written" /\ ~InfoLocked(slot[Target(p)]) =>
          Usable(slot[Target(p)])
    BY <1>1, <2>1 DEF InfoLocked, Usable, Slots, Tidy
  <2> QED BY <1>2, <2>1, <2>2, <2>3, <2>4 DEF Screened, Target
<1>7. CASE EnterOld(p)
  <2>1. CASE stage'[p] \in {"removing", "done"}
    <3>1. stage'[p] = "done" => out'[p] = "rejected"
      BY <1>7, <2>1, Stands DEF EnterOld
    <3> QED BY <1>2, <2>1, <3>1
  <2>2. CASE \E pin \in Entries : Invoke(p, "verify", Target(p), pin) /\ Move(p, "checking")
    <3>1. /\ stage'[p] = "checking" /\ job'[p].uid = Target(p) /\ at'[p] = "verify_tag"
          /\ slot' = slot
      BY <2>2, CallErrand DEF Stages, Invoke
    <3>2. Usable(slot[Target(p)])
      BY <1>7 DEF EnterOld, Screened
    <3> QED BY <3>1, <3>2 DEF Screened, User
  <2> QED BY <1>7, <2>1, <2>2, Stands DEF EnterOld
<1>8. CASE Checked(p)
  <2>1. stage[p] = "checking" /\ at[p] = "idle" /\ User(p) = Target(p)
    BY <1>8 DEF Checked, Back, Errand, Inside
  <2>2. CASE stage'[p] = "reopen" \/ (stage'[p] = "done" /\ out'[p] \in {"ok", "error", "told"})
    BY <1>2, <2>2
  <2>3. CASE res[p] \in Refusals /\ End(p, Verdict(res[p]))
    <3>1. res[p] \in {"invalid", "invalid_locked"} /\ ~Compares(Target(p), Pin(p))
      BY <2>1, <2>3 DEF Screened, Refusals
    <3>2. /\ stage'[p] = "done"
          /\ out'[p] = IF res[p] = "invalid" THEN "incorrect" ELSE "incorrect_locked"
      BY <2>3, <3>1, Stands DEF Verdict
    <3>3. UNCHANGED <<slot, tag, job, res, cmd>>
      BY <1>8 DEF Checked, Outside
    <3> QED BY <2>1, <3>1, <3>2, <3>3 DEF Screened, Target, User, Pin, Compares
  <2> QED BY <1>8, <2>2, <2>3, Stands DEF Checked, Told
<1>9. CASE ManagerStep(p)
  <2>1. UNCHANGED <<job, cmd, stage, out>> /\ Step(p) /\ stage[p] \in Inside
    BY <1>9, StepFrame, InACall DEF ManagerStep, Charge
  <2>2. CASE stage[p] # "checking"
    BY <1>2, <2>1, <2>2 DEF Inside
  <2>3. CASE stage[p] = "checking" /\ at[p] \in Guessing
    <3>1. Usable(slot[User(p)])
      BY <2>3 DEF Screened
    <3>2. \/ at'[p] \in {"verify_open", "verify_read"} /\ UNCHANGED slot
          \/ at'[p] = "verify_owner" /\ ~Compares(User(p), Pin(p))'
          \/ at'[p] = "idle" /\ res'[p] = "error" /\ ~Compares(User(p), Pin(p))'
          \/ at'[p] \notin Comparing /\ (at'[p] = "idle" => res'[p] = "success")
      BY <1>1, <2>1, <2>3, <3>1, GuessSettles
    <3> QED BY <2>1, <2>3, <3>1, <3>2 DEF Screened, Guessing, Comparing, User
  <2>4. CASE stage[p] = "checking" /\ at[p] = "verify_owner"
    <3>1. /\ at'[p] = "idle" /\ res'[p] \in {"invalid", "invalid_locked"}
          /\ UNCHANGED <<slot, tag>>
      BY <1>1, <2>1, <2>4, AtItsLabel, CalmWorks, Moves DEF VerifyOwner
    <3>2. ~Compares(User(p), Pin(p))'
      BY <2>1, <2>4, <3>1 DEF Screened, Compares, User, Pin
    <3> QED BY <2>1, <2>4, <3>1, <3>2 DEF Screened, Guessing
  <2>5. CASE stage[p] = "checking" /\ at[p] \notin Comparing
    <3>1. at'[p] \notin Comparing
      BY <1>1, <2>1, <2>5, PastComparison
    <3>2. at'[p] = "idle" => res'[p] = "success"
      BY <1>1, <2>1, <2>5, CalmEnds DEF Errand
    <3> QED BY <2>1, <2>5, <3>1, <3>2 DEF Screened, Guessing, Comparing
  <2> QED BY <2>2, <2>3, <2>4, <2>5 DEF Guessing, Comparing
<1> QED BY <1>3, <1>4, <1>5, <1>6, <1>7, <1>8, <1>9 DEF ToolStep, UserStep

(* Inside a call, only a migration goes on to a setup.                      *)
LEMMA OnlyMigrationSetsUp ==
  ASSUME TypeOK, NEW p \in Procs, Step(p), ~MigrateRestart(p)
  PROVE  at'[p] # "setup_owner"
<1> DEFINE Others == Labels \ {"setup_owner"}
<1>1. \/ \E l \in Others : Goto(p, l)
      \/ \E l \in Others, ph \in Phases : Enter(p, l, ph)
      \/ \E r \in Results : Return(p, r)
  <2>1. CASE SetupStep(p)
    BY <2>1 DEF SetupStep, SetupOwner, SetupDefine, SetupWrite, SetupRestart,
                UndoRestart, SetupFails, MigrationEnds, Labels, Phases, Results
  <2>2. CASE TagStep(p)
    BY <2>2 DEF TagStep, TagWrite, TagDefine, TagRewrite, TagWritten, TagNotWritten,
                MigrationEnds, Labels, Phases, Results
  <2>3. CASE DeleteStep(p)
    BY <2>3 DEF DeleteStep, Undefine, TagUndefine, Deleted, NotDeleted, SetupFails,
                MigrationEnds, Labels, Phases, Results
  <2>4. CASE VerifyTag(p) \/ VerifyOpen(p) \/ VerifyRead(p) \/ VerifyOwner(p)
    BY <2>4 DEF VerifyTag, VerifyOpen, VerifyRead, VerifyOwner, Accept,
                Labels, Phases, Results
  <2>5. CASE VerifyRestart(p) \/ VerifyReopen(p) \/ MigrateReopen(p)
    BY <2>5 DEF VerifyRestart, VerifyReopen, MigrateReopen, Accept,
                MigrationEnds, Labels, Phases, Results
  <2> QED BY <2>1, <2>2, <2>3, <2>4, <2>5 DEF Step, VerifyStep
<1> QED BY <1>1, Moves

(* A change that runs alone has a PIN in the slot until the deletion, and   *)
(* the setup that follows finds the slot free and succeeds.                 *)
LEMMA ReplacingKept ==
  ASSUME UtilTypeOK, Smooth, NEW p \in Procs, NEW S, Entries \subseteq S,
         Calmly(p, S), Calmly(p, S)', Screened(p), Replacing(p),
         Charge(p), Errand(p), OneStore(p),
         ToolStep(p) \/ UserStep(p) \/ ManagerStep(p)
  PROVE  Replacing(p)'
<1> DEFINE state == slot[Target(p)].state
<1>1. /\ TypeOK
      /\ stage[p] \notin Inside => at[p] = "idle"
      /\ stage[p] \in Inside => User(p) = Target(p)
  BY DEF UtilTypeOK, Charge, Errand
<1>2. ASSUME UNCHANGED <<slot, cmd>>, stage'[p] \notin Inside,
             stage'[p] \in {"old_pin", "reopen", "new_pin"} => state = "written",
             stage'[p] = "done" => \/ out'[p] \in {"none", "denied", "no_pin"}
                                   \/ state = "written"
      PROVE  Replacing(p)'
  BY <1>2 DEF Replacing, Target, Inside
<1>3. ASSUME UNCHANGED cmd, cmd[p].kind # "change" PROVE Replacing(p)'
  BY <1>3 DEF Replacing
<1>4. CASE Start(p)
  <2>1. stage'[p] = "open" \/ (stage'[p] = "done" /\ out'[p] = "denied")
    BY <1>4, Stands DEF Start, UtilTypeOK
  <2> QED BY <2>1 DEF Replacing
<1>5. CASE Open(p)
  <2>1. stage'[p] = "look" /\ UNCHANGED <<slot, cmd>>
    BY <1>1, <1>5, CalmWorks, Stands DEF Open, Outside
  <2> QED BY <1>2, <2>1 DEF Inside
<1>6. CASE Look(p) /\ cmd[p].kind = "change"
  <2>1. /\ UNCHANGED <<slot, cmd>>
        /\ \/ stage'[p] = "done" /\ out'[p] = "no_pin"
           \/ state = "written" /\ stage'[p] \in {"done", "new_pin", "old_pin"}
    BY <1>1, <1>6, CalmWorks, Stands DEF Look, AfterLook, Outside
  <2> QED BY <1>2, <2>1 DEF Inside
<1>7. CASE Look(p) /\ cmd[p].kind # "change"
  BY <1>3, <1>7 DEF Look
<1>8. CASE Confirm(p)
  BY <1>3, <1>8 DEF Confirm, Errand
<1>9. CASE EnterOld(p) /\ cmd[p].kind = "change"
  <2>1. state = "written" /\ UNCHANGED cmd
    BY <1>9 DEF EnterOld, Replacing
  <2>2. CASE \E pin \in Entries : Invoke(p, "verify", Target(p), pin) /\ Move(p, "checking")
    <3>1. stage'[p] = "checking" /\ slot' = slot
      BY <2>2, Stands DEF Invoke
    <3> QED BY <2>1, <3>1 DEF Replacing, Target
  <2>3. CASE End(p, "rejected") /\ Outside
    <3>1. stage'[p] = "done" /\ slot' = slot
      BY <2>3, Stands DEF Outside
    <3> QED BY <1>2, <2>1, <3>1 DEF Inside
  <2> QED BY <1>9, <2>2, <2>3 DEF EnterOld
<1>10. CASE EnterOld(p) /\ cmd[p].kind # "change"
  BY <1>3, <1>10 DEF EnterOld
<1>11. CASE EnterNew(p) /\ cmd[p].kind = "change"
  <2>1. state = "written" /\ UNCHANGED <<cmd, slot>>
    BY <1>11 DEF EnterNew, Replacing, Invoke, Outside
  <2>2. stage'[p] = "done" \/ (stage'[p] = "removing" /\ at'[p] # "idle")
    <3>1. \A op, pin : Invoke(p, op, Target(p), pin) => at'[p] # "idle"
      BY <1>1 DEF Invoke, EntryLabel, TypeOK
    <3> QED BY <1>11, <3>1, Stands DEF EnterNew
  <2> QED BY <2>1, <2>2 DEF Replacing, Target
<1>12. CASE EnterNew(p) /\ cmd[p].kind # "change"
  BY <1>3, <1>12 DEF EnterNew
<1>13. CASE Checked(p) /\ cmd[p].kind = "change"
  <2>1. state = "written" /\ UNCHANGED <<cmd, slot>> /\ stage'[p] \in {"done", "reopen"}
    BY <1>13, Stands DEF Checked, Back, Replacing, Outside
  <2> QED BY <1>2, <2>1 DEF Inside
<1>14. CASE Checked(p) /\ cmd[p].kind # "change"
  BY <1>3, <1>14 DEF Checked
<1>15. CASE Reopen(p)
  <2>1. cmd[p].kind = "change" /\ UNCHANGED <<cmd, slot>> /\ stage'[p] = "new_pin"
    BY <1>1, <1>15, CalmWorks, Stands DEF Reopen, Outside, Errand
  <2>2. state = "written"
    BY <1>15, <2>1 DEF Reopen, Replacing
  <2> QED BY <1>2, <2>1, <2>2 DEF Inside
<1>16. CASE Removed(p) /\ cmd[p].kind = "change"
  <2>1. UNCHANGED <<cmd, slot>> /\ stage[p] = "removing" /\ at[p] = "idle"
    BY <1>16 DEF Removed, Back, Invoke, Outside
  <2>2. CASE res[p] = "ok" /\ Invoke(p, "setup", Target(p), fresh[p]) /\ Move(p, "storing")
    <3>1. stage'[p] = "storing" /\ at'[p] = "setup_owner"
      BY <1>1, <2>2, Stands DEF Invoke, EntryLabel, TypeOK
    <3> QED BY <1>16, <2>1, <2>2, <3>1 DEF Replacing, Target
  <2>3. CASE res[p] # "ok" /\ stage'[p] = "done"
    BY <1>2, <1>16, <2>1, <2>3 DEF Replacing, Inside
  <2> QED BY <1>16, <2>2, <2>3, Stands DEF Removed, Refusals
<1>17. CASE Removed(p) /\ cmd[p].kind # "change"
  BY <1>3, <1>17 DEF Removed
<1>18. CASE Stored(p)
  <2>1. /\ stage[p] = "storing" /\ at[p] = "idle" /\ UNCHANGED <<cmd, slot>>
        /\ stage'[p] = "done"
    BY <1>18, Stands DEF Stored, Back, Outside
  <2>2. cmd[p].kind = "change" => state = "written"
    BY <1>1, <2>1 DEF Replacing, Errand, OneStore, SetUp, Inside
  <2> QED BY <1>2, <1>3, <2>1, <2>2 DEF Inside
<1>19. CASE ManagerStep(p) /\ cmd[p].kind = "change"
  <2>1. /\ UNCHANGED <<job, cmd, stage, out>> /\ Step(p) /\ stage[p] \in Inside
        /\ User(p) = Target(p) /\ User(p)' = User(p) /\ Target(p)' = Target(p)
    BY <1>1, <1>19, StepFrame, InACall DEF ManagerStep, Charge, User, Target
  <2>2. CASE stage[p] = "checking" /\ at[p] \in Comparing
    <3>1. state' = "written"
      BY <1>1, <1>19, <2>1, <2>2, ComparingKeeps DEF Replacing
    <3> QED BY <2>1, <2>2, <3>1 DEF Replacing
  <2>3. CASE stage[p] = "checking" /\ at[p] \notin Comparing
    <3>1. at'[p] \notin Comparing
      BY <1>1, <2>1, <2>3, PastComparison
    <3>2. at'[p] = "idle" => res'[p] = "success" /\ job'[p].op = "verify"
      BY <1>1, <2>1, <2>3, CalmEnds DEF Errand
    <3>3. at'[p] = "idle" => state' = "written"
      BY <2>1, <3>2 DEF Calmly, AtCommand, Holds, Usable
    <3> QED BY <2>1, <2>3, <3>1, <3>3 DEF Replacing
  <2>4. CASE stage[p] = "removing" /\ at[p] \in Comparing
    <3>1. state' = "written" /\ (at'[p] = "idle" => res'[p] # "ok")
      BY <1>1, <1>19, <2>1, <2>4, ComparingKeeps DEF Replacing
    <3> QED BY <2>1, <2>4, <3>1 DEF Replacing
  <2>5. CASE stage[p] = "removing" /\ at[p] \notin Comparing
    <3>1. at'[p] \notin Comparing
      BY <1>1, <2>1, <2>5, PastComparison
    <3>2. at'[p] = "idle" => res'[p] = "ok" /\ state' = "absent"
      BY <1>1, <1>19, <2>1, <2>5, CalmEnds DEF Errand, Replacing
    <3>3. at'[p] = "undefine" => state' = "written"
      <4>1. CASE job[p].op = "delete_auth"
        BY <2>1, <4>1 DEF Calmly, AtCommand
      <4>2. CASE job[p].op = "delete"
        <5>1. phase[p] = "main" /\ at[p] \in {"undefine", "tag_undefine"}
          BY <2>1, <4>2, InACall DEF OneStore, OwnDelete
        <5>2. Undefine(p) \/ TagUndefine(p)
          BY <2>1, <5>1, AtItsLabel
        <5> QED BY <1>1, <5>1, <5>2, Moves DEF Undefine, TagUndefine, Deleted, NotDeleted
      <4> QED BY <2>5, <4>1, <4>2 DEF Errand
    <3> QED BY <2>1, <2>5, <3>1, <3>2, <3>3 DEF Replacing
  <2>6. CASE stage[p] = "storing"
    <3>1. job[p].op = "setup" /\ at[p] \notin Comparing /\ phase[p] # "migrate"
      BY <2>6 DEF Errand, OneStore, SetUp, Setting, Tagging, Undoing, Comparing
    <3>2. at'[p] # "setup_owner"
      <4>1. ~MigrateRestart(p)
        BY <3>1 DEF MigrateRestart, OneStore, SetUp, Setting, Tagging, Undoing
      <4> QED BY <1>1, <2>1, <4>1, OnlyMigrationSetsUp
    <3>3. at'[p] = "idle" => res'[p] = "ok"
      BY <1>1, <1>19, <2>1, <2>6, <3>1, CalmEnds DEF Replacing
    <3> QED BY <2>1, <2>6, <3>2, <3>3 DEF Replacing
  <2> QED BY <2>1, <2>2, <2>3, <2>4, <2>5, <2>6 DEF Inside
<1>20. CASE ManagerStep(p) /\ cmd[p].kind # "change"
  BY <1>3, <1>20 DEF ManagerStep
<1> QED BY <1>4, <1>5, <1>6, <1>7, <1>8, <1>9, <1>10, <1>11, <1>12, <1>13, <1>14,
           <1>15, <1>16, <1>17, <1>18, <1>19, <1>20 DEF ToolStep, UserStep

-----------------------------------------------------------------------------
(***************************************************************************)
(* Any number of commands at a time, with PINs of S none of which starts    *)
(* with a zero.                                                             *)
(***************************************************************************)

(* Each slot still holds the chosen PIN, and a guess of it costs nothing.   *)
LEMMA PlainDoes ==
  ASSUME UtilTypeOK, PlainStore, NEW p \in Procs, NEW S, Plain(S), Does(p, S)
  PROVE  PlainStore' /\ RightPinIsFree
<1>1. TypeOK /\ Target(p) \in Uids
  BY DEF UtilTypeOK, Target, Commands
<1>2. PlainStore'
  <2>1. CASE Outside
    BY <2>1, PlainStoreKept DEF Outside
  <2>2. CASE Killed(p)
    BY <1>1, <2>2, PlainStoreKilled DEF Killed
  <2>3. CASE Step(p)
    BY <1>1, <2>3, PlainStoreStep
  <2> QED BY <1>1, <2>1, <2>2, <2>3, PlainStoreInvoke DEF Does, Plain
<1>3. RightPinIsFree
  <2> SUFFICES ASSUME NEW q \in Procs, at[q] = "verify_read", at'[q] # at[q],
                      Pin(q) = chosen[User(q)]
               PROVE  slot'[User(q)].count <= slot[User(q)].count
    BY DEF RightPinIsFree
  <2>1. slot[User(q)] \in Slots
    BY <1>1, JobTypes DEF TypeOK
  <2>2. CASE Step(p)
    BY <1>1, <2>2, PlainGuess, StepMovesOne
  <2>3. CASE UNCHANGED slot
    BY <2>1, <2>3 DEF Slots
  <2> QED BY <2>2, <2>3 DEF Does, Outside, Invoke, Killed
<1> QED BY <1>2, <1>3

(* Nor does any of them leave an index unwritten, if nothing fails.         *)
LEMMA BlanksDo ==
  ASSUME UtilTypeOK, BlanksWritten, MaxFaults = 0, MaxCrashes = 0,
         NEW p \in Procs, NEW S, Does(p, S)
  PROVE  BlanksWritten'
<1>1. TypeOK /\ ~Fails /\ ~Killed(p)
  BY DEF UtilTypeOK, TypeOK, Fails, Killed
<1>2. CASE Step(p)
  BY <1>1, <1>2, StepFrame, BlanksStep
<1>3. CASE Outside
  BY <1>3, BlanksKept DEF Outside
<1>4. CASE \E op, pin : Invoke(p, op, Target(p), pin)
  BY <1>1, <1>4, BlanksKept DEF Invoke, TypeOK
<1> QED BY <1>1, <1>2, <1>3, <1>4 DEF Does
=============================================================================
