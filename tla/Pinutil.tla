------------------------------ MODULE Pinutil ------------------------------
(***************************************************************************)
(* The commands of pinutil over the PIN store: setup, change, delete, test  *)
(* and status.  A command reads the slot's counters, asks the user, and     *)
(* then calls PinManager, so other processes run between what it has read   *)
(* and what it does.  The steps inside PinManager are those of PinManager.  *)
(***************************************************************************)
EXTENDS PinManager

CONSTANTS Kinds,     \* the commands that are run
          Callers    \* by whom

ASSUME PinutilAssumption ==
  /\ Kinds \subseteq {"setup", "change", "delete", "test", "status"}
  /\ Callers \subseteq {"root", "owner", "elevated", "other"}

VARIABLES cmd,      \* the command of a process
          stage,    \* where it stands outside PinManager
          fresh,    \* the new PIN the user entered
          spent,    \* history: attempts the command has cost
          out       \* its result

tool     == <<cmd, stage, fresh, spent, out>>
utilVars == <<slot, tag, chosen, at, phase, job, res, faults, crashes,
              cmd, stage, fresh, spent, out>>

(* "told" is Ok with a message for the terminal that the command was not    *)
(* carried out.                                                             *)
Outcomes == {"none", "ok", "told", "denied", "no_pin", "already_set", "locked",
             "incorrect", "incorrect_locked", "cannot_delete", "rejected",
             "error", "killed"}
Stages   == {"done", "open", "look", "confirm", "old_pin", "checking",
             "reopen", "new_pin", "removing", "storing"}
Prompts  == {"confirm", "old_pin", "new_pin"}
Commands == [kind : {"setup", "change", "delete", "test", "status"},
             by : {"root", "owner", "elevated", "other"},
             machine : BOOLEAN, uid : Uids]

UtilInit ==
  /\ Init
  /\ cmd \in [Procs -> {[kind |-> "status", by |-> "other", machine |-> TRUE,
                         uid |-> u] : u \in Uids}]
  /\ stage = [p \in Procs |-> "done"]
  /\ fresh = [p \in Procs |-> NoPin]
  /\ spent = [p \in Procs |-> 0]
  /\ out   = [p \in Procs |-> "none"]

-----------------------------------------------------------------------------
Target(p) == cmd[p].uid
IsRoot(p) == cmd[p].by = "root"

Move(p, label) == /\ stage' = [stage EXCEPT ![p] = label]
                  /\ UNCHANGED out

End(p, result) == /\ stage' = [stage EXCEPT ![p] = "done"]
                  /\ out' = [out EXCEPT ![p] = result]

(* A step outside PinManager that sends nothing, or reads, or reconnects.   *)
Outside == UNCHANGED <<slot, tag, chosen, at, phase, job, res, crashes>>

(* Mutant: anyone whose effective uid is 0 may manage PINs.                 *)
ElevatedManagesMutant(by) == by \in {"root", "owner", "elevated"}

(* "elevated" has the effective uid 0 and the real uid of another user.     *)
CanManage(by)  == by \in {"root", "owner"}
CanAttempt(by) == by \in {"root", "owner", "elevated"}

Permitted(kind, by) ==
  CASE kind = "status" -> TRUE
    [] kind = "test"   -> CanAttempt(by)
    [] OTHER           -> CanManage(by)

(* AttemptInfo::locked of the slot that was read.                           *)
InfoLocked(s) == s.state = "written" /\ s.limit > 0 /\ s.count >= s.limit

Start(p) ==
  /\ stage[p] = "done"
  /\ \E kind \in Kinds, by \in Callers, machine \in BOOLEAN, u \in Uids :
       /\ cmd' = [cmd EXCEPT ![p] = [kind |-> kind, by |-> by,
                                     machine |-> machine, uid |-> u]]
       /\ IF Permitted(kind, by)
            THEN /\ stage' = [stage EXCEPT ![p] = "open"]
                 /\ out' = [out EXCEPT ![p] = "none"]
            ELSE End(p, "denied")
  /\ fresh' = [fresh EXCEPT ![p] = NoPin]
  /\ spent' = [spent EXCEPT ![p] = 0]
  /\ Outside /\ UNCHANGED faults

(* new_manager connects to the TPM.                                         *)
Open(p) ==
  /\ stage[p] = "open"
  /\ \/ Works /\ Move(p, "look")
     \/ Fails /\ End(p, "error")
  /\ Outside /\ UNCHANGED <<cmd, fresh, spent>>

(* Mutants: only a command that shows a prompt to a terminal looks at the   *)
(* lock; the last attempt is refused.                                       *)
LastAttemptMutant(p) ==
  /\ cmd[p].kind = "test" \/ ~IsRoot(p)
  /\ slot[Target(p)].count + 1 >= slot[Target(p)].limit

HumanGateMutant(p) ==
  /\ ~cmd[p].machine
  /\ InfoLocked(slot[Target(p)])

(* The commands that refuse at once if the slot they read is locked.        *)
Gated(p) ==
  /\ cmd[p].kind = "test" \/ ~IsRoot(p)
  /\ InfoLocked(slot[Target(p)])

AfterLook(p) ==
  CASE cmd[p].kind = "delete" /\ IsRoot(p) -> "confirm"
    [] cmd[p].kind = "change" /\ IsRoot(p) -> "new_pin"
    [] OTHER                               -> "old_pin"

(* get_attempt_count or get_attempt_info and the early returns on what it   *)
(* says; change also reconnects.                                            *)
Look(p) ==
  /\ stage[p] = "look"
  /\ \/ /\ Works
        /\ \/ cmd[p].kind = "status" /\ End(p, "ok")
           \/ /\ cmd[p].kind = "setup"
              /\ IF slot[Target(p)].state = "written" THEN End(p, "already_set")
                                                      ELSE Move(p, "new_pin")
           \/ /\ cmd[p].kind \notin {"status", "setup"}
              /\ IF slot[Target(p)].state # "written" THEN End(p, "no_pin")
                 ELSE IF Gated(p) THEN End(p, "locked")
                 ELSE Move(p, AfterLook(p))
     \/ Fails /\ End(p, "error")
  /\ Outside /\ UNCHANGED <<cmd, fresh, spent>>

-----------------------------------------------------------------------------
(* Root is asked before a deletion, unless in machine mode.                 *)
Confirm(p) ==
  /\ stage[p] = "confirm"
  /\ \/ Invoke(p, "delete", Target(p), NoPin) /\ Move(p, "removing")
     \/ ~cmd[p].machine /\ End(p, "told") /\ Outside /\ UNCHANGED faults
  /\ UNCHANGED <<cmd, fresh, spent>>

(* prompt_pin for the current PIN.  An input that Pin::new rejects, or the  *)
(* end of the input, ends the command.                                      *)
EnterOld(p) ==
  /\ stage[p] = "old_pin"
  /\ \/ \E pin \in Entries :
          IF cmd[p].kind = "delete"
            THEN Invoke(p, "delete_auth", Target(p), pin) /\ Move(p, "removing")
            ELSE Invoke(p, "verify", Target(p), pin) /\ Move(p, "checking")
     \/ End(p, "rejected") /\ Outside /\ UNCHANGED faults
  /\ UNCHANGED <<cmd, fresh, spent>>

(* prompt_pin for the new PIN, and its confirmation at a terminal.  change  *)
(* first removes the old PIN, with the current one unless for root.         *)
EnterNew(p) ==
  /\ stage[p] = "new_pin"
  /\ \/ \E pin \in Entries :
          /\ fresh' = [fresh EXCEPT ![p] = pin]
          /\ IF cmd[p].kind = "setup"
               THEN Invoke(p, "setup", Target(p), pin) /\ Move(p, "storing")
             ELSE IF IsRoot(p)
               THEN Invoke(p, "delete", Target(p), NoPin) /\ Move(p, "removing")
             ELSE Invoke(p, "delete_auth", Target(p), Pin(p)) /\ Move(p, "removing")
     \/ End(p, "rejected") /\ Outside /\ UNCHANGED <<faults, fresh>>
  /\ UNCHANGED <<cmd, spent>>

-----------------------------------------------------------------------------
(* PinManager returned to the command.                                      *)
Back(p, label) == stage[p] = label /\ at[p] = "idle"

Refusals == {"invalid", "invalid_locked", "locked_out"}

Verdict(result) == CASE result = "invalid"        -> "incorrect"
                     [] result = "invalid_locked" -> "incorrect_locked"
                     [] result = "locked_out"     -> "locked"

(* At a terminal test reports a wrong PIN with a message only.              *)
Told(p, result) ==
  IF cmd[p].kind = "test" /\ ~cmd[p].machine THEN "told" ELSE result

(* Mutant: change goes on after a wrong PIN.                                 *)
CheckAnywayMutant(p) ==
  /\ Back(p, "checking")
  /\ \/ /\ res[p] \in {"success"} \cup Refusals
        /\ IF cmd[p].kind = "change" THEN Move(p, "reopen") ELSE End(p, "ok")
     \/ res[p] \in {"error", "not_provisioned"} /\ End(p, "error")
  /\ Outside /\ UNCHANGED <<faults, cmd, fresh, spent>>

(* test_pin and change_pin after verify_pin.                                *)
Checked(p) ==
  /\ Back(p, "checking")
  /\ \/ /\ res[p] = "success"
        /\ IF cmd[p].kind = "change" THEN Move(p, "reopen") ELSE End(p, "ok")
     \/ res[p] \in Refusals /\ End(p, Told(p, Verdict(res[p])))
     \/ res[p] \in {"error", "not_provisioned"} /\ End(p, "error")
  /\ Outside /\ UNCHANGED <<faults, cmd, fresh, spent>>

(* change_pin reconnects before it asks for the new PIN.                    *)
Reopen(p) ==
  /\ stage[p] = "reopen"
  /\ \/ Works /\ Move(p, "new_pin")
     \/ Fails /\ End(p, "error")
  /\ Outside /\ UNCHANGED <<cmd, fresh, spent>>

(* Mutant: change_pin forgets to set up the new PIN.                        *)
ForgetMutant(p) ==
  /\ Back(p, "removing")
  /\ End(p, IF res[p] = "ok" THEN "ok" ELSE "error")
  /\ Outside /\ UNCHANGED <<faults, cmd, fresh, spent>>

(* After a deletion.  change_pin goes on with the setup; delete_pin by the  *)
(* owner is Ok whether or not the PIN was right, and tells a terminal which.*)
Removed(p) ==
  /\ Back(p, "removing")
  /\ \/ /\ cmd[p].kind = "change" /\ res[p] = "ok"
        /\ Invoke(p, "setup", Target(p), fresh[p]) /\ Move(p, "storing")
     \/ /\ cmd[p].kind = "change" /\ res[p] \in Refusals
        /\ End(p, "cannot_delete") /\ Outside /\ UNCHANGED faults
     \/ /\ cmd[p].kind = "delete" /\ res[p] = "ok"
        /\ End(p, "ok") /\ Outside /\ UNCHANGED faults
     \/ /\ cmd[p].kind = "delete" /\ res[p] \in Refusals
        /\ End(p, IF cmd[p].machine THEN "ok" ELSE "told")
        /\ Outside /\ UNCHANGED faults
     \/ /\ res[p] \in {"error", "not_provisioned"}
        /\ End(p, "error") /\ Outside /\ UNCHANGED faults
  /\ UNCHANGED <<cmd, fresh, spent>>

(* After a setup.                                                           *)
Stored(p) ==
  /\ Back(p, "storing")
  /\ End(p, IF res[p] = "ok" THEN "ok" ELSE "error")
  /\ Outside /\ UNCHANGED <<faults, cmd, fresh, spent>>

-----------------------------------------------------------------------------
Kill(p) ==
  /\ stage[p] # "done"
  /\ crashes < MaxCrashes
  /\ crashes' = crashes + 1
  /\ Return(p, "killed")
  /\ End(p, "killed")
  /\ UNCHANGED <<slot, tag, chosen, job, faults, cmd, fresh, spent>>

(* A step inside PinManager.                                                *)
ManagerStep(p) ==
  /\ Step(p)
  /\ spent' = IF slot'[User(p)].count > slot[User(p)].count
                THEN [spent EXCEPT ![p] = spent[p] + 1] ELSE spent
  /\ UNCHANGED <<cmd, stage, fresh, out>>

ToolStep(p) == Open(p) \/ Look(p) \/ Checked(p) \/ Reopen(p) \/ Removed(p) \/ Stored(p)
UserStep(p) == Start(p) \/ Confirm(p) \/ EnterOld(p) \/ EnterNew(p)

UtilNext == \E p \in Procs : ToolStep(p) \/ UserStep(p) \/ ManagerStep(p) \/ Kill(p)

UtilSpec == UtilInit /\ [][UtilNext]_utilVars
=============================================================================
