----------------------------- MODULE PinManager -----------------------------
(***************************************************************************)
(* PinManager of pinpam-core: setup_pin, verify_pin, delete_pin_admin and   *)
(* delete_pin_with_auth, each run by a process of its own (a pinutil        *)
(* command) as a series of TPM commands.  The TPM executes one command at a *)
(* time, so an action is one command together with everything the process   *)
(* does until the next one: operations interleave between commands, a       *)
(* command or a reconnection may fail, and a process may be killed.         *)
(*                                                                          *)
(* The call stack is kept as a label and a phase.  setup_pin runs on its    *)
(* own behalf or inside a migration, delete_pin_admin on its own behalf, in *)
(* a migration or as setup's rollback; phase says which.                    *)
(***************************************************************************)
EXTENDS TpmNv, FiniteSets

CONSTANTS Uids,        \* users whose uid has an NV index
          Procs,       \* processes that may be inside PinManager at once
          Ops,         \* the operations they call
          Entries,     \* the PINs they are called with
          Origins,     \* what earlier runs left in the TPM
          MaxFaults,   \* bound on failing commands and reconnections
          MaxCrashes   \* bound on killed processes

ASSUME PinManagerAssumption ==
  /\ Ops \subseteq {"setup", "verify", "delete", "delete_auth"}
  /\ Entries \subseteq Pins
  /\ Origins \subseteq {"none", "legacy", "current", "newer"}
  /\ MaxFaults \in Nat
  /\ MaxCrashes \in Nat

VARIABLES slot,     \* the PinFail index of a uid
          tag,      \* the version tag index of a uid
          chosen,   \* history: the PIN last set up for a uid, unless a deletion
                    \* or that setup's own rollback has removed it
          at,       \* the next command of a process
          phase,    \* on whose behalf it runs
          job,      \* the call's operation and arguments
          res,      \* what the last call returned
          faults, crashes

tpm     == <<slot, tag, chosen>>
control == <<at, phase, res>>
vars    == <<slot, tag, chosen, at, phase, job, res, faults, crashes>>

TagValues == {"absent", "blank", "current", "newer"}
Phases    == {"main", "legacy", "migrate", "undo"}
Labels    == {"idle",
              "setup_owner", "setup_define", "setup_write", "setup_restart",
              "tag_write", "tag_define", "tag_rewrite", "undo_restart",
              "undefine", "tag_undefine",
              "verify_tag", "verify_open", "verify_read", "verify_owner",
              "verify_restart", "verify_reopen",
              "migrate_restart", "migrate_reopen"}
Results   == {"none", "ok", "success", "invalid", "invalid_locked",
              "locked_out", "already", "not_provisioned", "error", "killed"}
Jobs      == [op : {"setup", "verify", "delete", "delete_auth"},
              uid : Uids, pin : PinStrings]

(***************************************************************************)
(* Initial states: what a release without tags ("legacy"), this release     *)
(* ("current") or one with another tag version ("newer") stored for PIN c.  *)
(***************************************************************************)
StoredBy(origin, c, limit) ==
  CASE origin = "none"   -> [slot |-> NoSlot, tag |-> "absent", chosen |-> NoPin]
    [] origin = "legacy" -> [slot |-> Written(BlankSlot(Normalize(c)), limit),
                             tag |-> "absent", chosen |-> c]
    [] OTHER             -> [slot |-> Written(BlankSlot(c), limit),
                             tag |-> origin, chosen |-> c]

Init ==
  /\ \E store \in [Uids -> {StoredBy(o, c, l) :
                              o \in Origins, c \in Entries, l \in Limits}] :
       /\ slot   = [u \in Uids |-> store[u].slot]
       /\ tag    = [u \in Uids |-> store[u].tag]
       /\ chosen = [u \in Uids |-> store[u].chosen]
  /\ at    = [p \in Procs |-> "idle"]
  /\ phase = [p \in Procs |-> "main"]
  /\ job \in [Procs -> {[op |-> "verify", uid |-> u, pin |-> NoPin] : u \in Uids}]
  /\ res   = [p \in Procs |-> "none"]
  /\ faults = 0
  /\ crashes = 0

-----------------------------------------------------------------------------
(* Control: go to the next command, enter it in another phase, return.      *)
Goto(p, label) ==
  /\ at' = [at EXCEPT ![p] = label]
  /\ UNCHANGED <<phase, res>>

Enter(p, label, ph) ==
  /\ at' = [at EXCEPT ![p] = label]
  /\ phase' = [phase EXCEPT ![p] = ph]
  /\ UNCHANGED res

Return(p, r) ==
  /\ at' = [at EXCEPT ![p] = "idle"]
  /\ phase' = [phase EXCEPT ![p] = "main"]
  /\ res' = [res EXCEPT ![p] = r]

(* The command fails without any effect: Works and Fails are the two ways   *)
(* a command can go.                                                        *)
Works == UNCHANGED faults
Fails == /\ faults < MaxFaults
         /\ faults' = faults + 1

User(p) == job[p].uid
Pin(p)  == job[p].pin

(* Mutants: every PIN is normalized, tagged or not; tr_set_auth is missing, *)
(* so that the command carries no PIN.                                      *)
TypedMutant(p)     == Normalize(Pin(p))
EmptyAuthMutant(p) == NoPin

(* The bytes verify_pin_exact is called with.                               *)
Typed(p) == IF phase[p] = "legacy" THEN Normalize(Pin(p)) ELSE Pin(p)

(* Mutants: the test for leading zeros is always true, or always false.     *)
NoZerosMutant(p)  == TRUE
AnyZerosMutant(p) == FALSE

(* migrate_legacy_pin_format: the stored form is the entered form, so that  *)
(* only the tag is missing.                                                 *)
OnlyTagMissing(p) == Normalize(Pin(p)) = Pin(p)

(* verify_pin returns Success to its caller.                                *)
Accept(p) ==
  IF job[p].op = "delete_auth" THEN Enter(p, "undefine", "main")
                               ELSE Return(p, "success")

(* migrate_legacy_pin_format returned, with whatever result.                *)
MigrationEnds(p) == Enter(p, "verify_reopen", "legacy")

(* setup_pin returns an error.                                              *)
SetupFails(p, r) ==
  IF job[p].op = "setup" THEN Return(p, r) ELSE MigrationEnds(p)

(* write_pin_version_tag returns.                                           *)
TagWritten(p) ==
  IF phase[p] # "migrate" THEN Return(p, "ok")
  ELSE IF OnlyTagMissing(p) THEN MigrationEnds(p)
  ELSE Goto(p, "migrate_reopen")

(* Mutant: a tag that could not be written is only logged.                  *)
TagErrorIgnoredMutant(p) == TagWritten(p)

TagNotWritten(p) ==
  IF phase[p] = "migrate" /\ OnlyTagMissing(p) THEN MigrationEnds(p)
  ELSE Goto(p, "undo_restart")

(* Mutant: a migration returns once it has deleted the legacy slot.         *)
EarlyEndMutant(p) ==
  CASE phase[p] = "migrate" -> MigrationEnds(p)
    [] phase[p] = "undo"    -> SetupFails(p, "error")
    [] OTHER                -> Return(p, "ok")

(* delete_pin_admin returns.                                                *)
Deleted(p) ==
  CASE phase[p] = "migrate" -> Goto(p, "migrate_restart")
    [] phase[p] = "undo"    -> SetupFails(p, "error")
    [] OTHER                -> Return(p, "ok")

NotDeleted(p, r) ==
  CASE phase[p] = "migrate" -> MigrationEnds(p)
    [] phase[p] = "undo"    -> SetupFails(p, "error")
    [] OTHER                -> Return(p, r)

SetSlot(p, s) == slot' = [slot EXCEPT ![User(p)] = s]
SetTag(p, t)  == tag'  = [tag EXCEPT ![User(p)] = t]

-----------------------------------------------------------------------------
(* A process calls one of the four operations.                              *)
EntryLabel(op) ==
  CASE op = "setup"  -> "setup_owner"
    [] op = "delete" -> "undefine"
    [] OTHER         -> "verify_tag"

Invoke(p, op, u, pin) ==
  /\ at[p] = "idle"
  /\ job' = [job EXCEPT ![p] = [op |-> op, uid |-> u, pin |-> pin]]
  /\ at' = [at EXCEPT ![p] = EntryLabel(op)]
  /\ res' = [res EXCEPT ![p] = "none"]
  /\ UNCHANGED <<slot, tag, chosen, phase, faults, crashes>>

Call(p) == \E op \in Ops, u \in Uids, pin \in Entries \cup {NoPin} :
             /\ (pin = NoPin) <=> (op = "delete")
             /\ Invoke(p, op, u, pin)

(* setup_pin: an owner read must find no PIN.  An index that is defined but *)
(* unwritten reads as no PIN.                                               *)
SetupOwner(p) ==
  /\ at[p] = "setup_owner"
  /\ \/ /\ slot[User(p)].state = "written"
        /\ Works /\ SetupFails(p, "already")
     \/ /\ slot[User(p)].state # "written"
        /\ Works /\ Goto(p, "setup_define")
     \/ Fails /\ SetupFails(p, "error")
  /\ UNCHANGED <<slot, tag, chosen, job, crashes>>

(* define_pin_slot: NV_DefineSpace refuses an index that is defined.  The   *)
(* trial session that precedes it can only fail.                            *)
SetupDefine(p) ==
  /\ at[p] = "setup_define"
  /\ \/ /\ slot[User(p)].state = "absent"
        /\ Works
        /\ SetSlot(p, BlankSlot(Pin(p)))
        /\ chosen' = IF job[p].op = "setup"
                       THEN [chosen EXCEPT ![User(p)] = Pin(p)] ELSE chosen
        /\ Goto(p, "setup_write")
     \/ /\ slot[User(p)].state # "absent"
        /\ Works /\ SetupFails(p, "error") /\ UNCHANGED <<slot, chosen>>
     \/ Fails /\ SetupFails(p, "error") /\ UNCHANGED <<slot, chosen>>
  /\ UNCHANGED <<tag, job, crashes>>

(* define_pin_slot: the one policy write, of the counter and the limit.     *)
SetupWrite(p) ==
  /\ at[p] = "setup_write"
  /\ \/ /\ slot[User(p)].state = "blank"
        /\ Works
        /\ \E limit \in Limits : SetSlot(p, Written(slot[User(p)], limit))
        /\ Goto(p, "setup_restart")
     \/ /\ slot[User(p)].state # "blank"
        /\ Works /\ SetupFails(p, "error") /\ UNCHANGED slot
     \/ Fails /\ SetupFails(p, "error") /\ UNCHANGED slot
  /\ UNCHANGED <<tag, chosen, job, crashes>>

(* setup_pin reconnects; if it cannot, it leaves the slot without a tag.    *)
SetupRestart(p) ==
  /\ at[p] = "setup_restart"
  /\ \/ Works /\ Goto(p, "tag_write")
     \/ Fails /\ SetupFails(p, "error")
  /\ UNCHANGED <<slot, tag, chosen, job, crashes>>

(* Mutant: the write is retried without defining the index.                 *)
TagRetryMutant(p) ==
  /\ at[p] = "tag_write"
  /\ \/ /\ tag[User(p)] # "absent"
        /\ Works /\ SetTag(p, "current") /\ TagWritten(p)
     \/ /\ tag[User(p)] = "absent"
        /\ Works /\ Goto(p, "tag_write") /\ UNCHANGED tag
     \/ Fails /\ Goto(p, "tag_write") /\ UNCHANGED tag
  /\ UNCHANGED <<slot, chosen, job, crashes>>

(* write_pin_version_tag: write the tag; if that fails for any reason,      *)
(* define its index and write again.                                        *)
TagWrite(p) ==
  /\ at[p] = "tag_write"
  /\ \/ /\ tag[User(p)] # "absent"
        /\ Works /\ SetTag(p, "current") /\ TagWritten(p)
     \/ /\ tag[User(p)] = "absent"
        /\ Works /\ Goto(p, "tag_define") /\ UNCHANGED tag
     \/ Fails /\ Goto(p, "tag_define") /\ UNCHANGED tag
  /\ UNCHANGED <<slot, chosen, job, crashes>>

TagDefine(p) ==
  /\ at[p] = "tag_define"
  /\ \/ /\ tag[User(p)] = "absent"
        /\ Works /\ SetTag(p, "blank") /\ Goto(p, "tag_rewrite")
     \/ /\ tag[User(p)] # "absent"
        /\ Works /\ TagNotWritten(p) /\ UNCHANGED tag
     \/ Fails /\ TagNotWritten(p) /\ UNCHANGED tag
  /\ UNCHANGED <<slot, chosen, job, crashes>>

(* Mutant: after defining the index, the tag of the last release is written. *)
OldVersionMutant(p) ==
  /\ at[p] = "tag_rewrite"
  /\ \/ /\ tag[User(p)] # "absent"
        /\ Works /\ SetTag(p, "older") /\ TagWritten(p)
     \/ /\ tag[User(p)] = "absent"
        /\ Works /\ TagNotWritten(p) /\ UNCHANGED tag
     \/ Fails /\ TagNotWritten(p) /\ UNCHANGED tag
  /\ UNCHANGED <<slot, chosen, job, crashes>>

TagRewrite(p) ==
  /\ at[p] = "tag_rewrite"
  /\ \/ /\ tag[User(p)] # "absent"
        /\ Works /\ SetTag(p, "current") /\ TagWritten(p)
     \/ /\ tag[User(p)] = "absent"
        /\ Works /\ TagNotWritten(p) /\ UNCHANGED tag
     \/ Fails /\ TagNotWritten(p) /\ UNCHANGED tag
  /\ UNCHANGED <<slot, chosen, job, crashes>>

(* setup_pin could not tag the slot: reconnect, then roll back.             *)
UndoRestart(p) ==
  /\ at[p] = "undo_restart"
  /\ \/ Works /\ Enter(p, "undefine", "undo")
     \/ Fails /\ SetupFails(p, "error")
  /\ UNCHANGED <<slot, tag, chosen, job, crashes>>

(* A deletion on the user's behalf ends what was chosen, and so does the    *)
(* rollback of a setup that fails, if the choice is its own.  A migration,  *)
(* or a rollback that meets another setup's slot, has nobody's word for it. *)
EndsChoice(p) ==
  phase[p] = "main" \/ (job[p].op = "setup" /\ chosen[User(p)] = Pin(p))

(* delete_pin_admin: undefine the slot, whoever's PIN it holds by now.      *)
Undefine(p) ==
  /\ at[p] = "undefine"
  /\ \/ /\ slot[User(p)].state # "absent"
        /\ Works
        /\ SetSlot(p, NoSlot)
        /\ chosen' = IF EndsChoice(p) THEN [chosen EXCEPT ![User(p)] = NoPin]
                                      ELSE chosen
        /\ Goto(p, "tag_undefine")
     \/ /\ slot[User(p)].state = "absent"
        /\ Works /\ NotDeleted(p, "not_provisioned") /\ UNCHANGED <<slot, chosen>>
     \/ Fails /\ NotDeleted(p, "error") /\ UNCHANGED <<slot, chosen>>
  /\ UNCHANGED <<tag, job, crashes>>

(* delete_pin_admin: remove the tag, if there is one; a failure is logged.  *)
TagUndefine(p) ==
  /\ at[p] = "tag_undefine"
  /\ \/ Works /\ SetTag(p, "absent")
     \/ Fails /\ UNCHANGED tag
  /\ Deleted(p)
  /\ UNCHANGED <<slot, chosen, job, crashes>>

(* verify_pin: the tag says in which form the PIN is stored.                *)
VerifyTag(p) ==
  /\ at[p] = "verify_tag"
  /\ \/ /\ tag[User(p)] = "current"
        /\ Works /\ Goto(p, "verify_open")
     \/ /\ tag[User(p)] \in {"absent", "blank"}
        /\ Works /\ Enter(p, "verify_open", "legacy")
     \/ /\ tag[User(p)] = "newer"
        /\ Works /\ Return(p, "error")
     \/ Fails /\ Return(p, "error")
  /\ UNCHANGED <<slot, tag, chosen, job, crashes>>

(* verify_pin_exact: resolve the index.                                     *)
VerifyOpen(p) ==
  /\ at[p] = "verify_open"
  /\ \/ /\ slot[User(p)].state # "absent"
        /\ Works /\ Goto(p, "verify_read")
     \/ /\ slot[User(p)].state = "absent"
        /\ Works /\ Return(p, "error")
     \/ Fails /\ Return(p, "error")
  /\ UNCHANGED <<slot, tag, chosen, job, crashes>>

(* verify_pin_exact: read the slot with the PIN as its authorisation.  TPMs *)
(* answer an unusable index differently: with an authorisation failure,     *)
(* like a wrong PIN, or with another error.                                 *)
VerifyRead(p) ==
  LET s == slot[User(p)] IN
  /\ at[p] = "verify_read"
  /\ \/ /\ Usable(s) /\ s.auth = Typed(p)
        /\ Works /\ SetSlot(p, Cleared(s))
        /\ IF Cleared(s).count >= s.limit THEN Return(p, "locked_out")
           ELSE IF phase[p] = "legacy"    THEN Goto(p, "verify_restart")
           ELSE Accept(p)
     \/ /\ Usable(s) /\ s.auth # Typed(p)
        /\ Works /\ SetSlot(p, Incremented(s)) /\ Goto(p, "verify_owner")
     \/ /\ s.state # "absent" /\ ~Usable(s)
        /\ Works /\ (Goto(p, "verify_owner") \/ Return(p, "error"))
        /\ UNCHANGED slot
     \/ /\ s.state = "absent"
        /\ Works /\ Return(p, "not_provisioned") /\ UNCHANGED slot
     \/ Fails /\ Return(p, "error") /\ UNCHANGED slot
  /\ UNCHANGED <<tag, chosen, job, crashes>>

(* Mutants: verify_pin migrates whatever the result was, and                *)
(* delete_pin_with_auth deletes whatever the result was.                    *)
MigrateAnywayMutant(p) ==
  /\ at[p] = "verify_owner"
  /\ \/ Works /\ (IF phase[p] = "legacy" THEN Goto(p, "verify_restart")
                                        ELSE Return(p, "invalid"))
     \/ Fails /\ Return(p, "invalid")
  /\ UNCHANGED <<slot, tag, chosen, job, crashes>>

DeleteAnywayMutant(p) ==
  /\ at[p] = "verify_owner"
  /\ \/ Works /\ (IF job[p].op = "delete_auth" THEN Enter(p, "undefine", "main")
                                              ELSE Return(p, "invalid"))
     \/ Fails /\ Return(p, "invalid")
  /\ UNCHANGED <<slot, tag, chosen, job, crashes>>

(* verify_pin_exact after an authorisation failure: an owner read tells     *)
(* whether the PIN is locked by now; if it fails, the answer is no.         *)
VerifyOwner(p) ==
  /\ at[p] = "verify_owner"
  /\ \/ /\ Works
        /\ Return(p, IF ReadsLocked(slot[User(p)]) THEN "invalid_locked" ELSE "invalid")
     \/ Fails /\ Return(p, "invalid")
  /\ UNCHANGED <<slot, tag, chosen, job, crashes>>

(* verify_pin reconnects before a migration ...                             *)
VerifyRestart(p) ==
  /\ at[p] = "verify_restart"
  /\ \/ /\ Works
        /\ Enter(p, IF OnlyTagMissing(p) THEN "tag_write" ELSE "undefine", "migrate")
     \/ Fails /\ Return(p, "error")
  /\ UNCHANGED <<slot, tag, chosen, job, crashes>>

(* ... and after it.                                                        *)
VerifyReopen(p) ==
  /\ at[p] = "verify_reopen"
  /\ \/ Works /\ Accept(p)
     \/ Fails /\ Return(p, "error")
  /\ UNCHANGED <<slot, tag, chosen, job, crashes>>

(* migrate_legacy_pin_format reconnects between deletion and setup ...      *)
MigrateRestart(p) ==
  /\ at[p] = "migrate_restart"
  /\ \/ Works /\ Goto(p, "setup_owner")
     \/ Fails /\ MigrationEnds(p)
  /\ UNCHANGED <<slot, tag, chosen, job, crashes>>

(* ... and after setup, where a failure comes too late to matter.           *)
MigrateReopen(p) ==
  /\ at[p] = "migrate_reopen"
  /\ (Works \/ Fails) /\ MigrationEnds(p)
  /\ UNCHANGED <<slot, tag, chosen, job, crashes>>

(* The process is killed between two commands.                              *)
Crash(p) ==
  /\ at[p] # "idle"
  /\ crashes < MaxCrashes
  /\ crashes' = crashes + 1
  /\ Return(p, "killed")
  /\ UNCHANGED <<slot, tag, chosen, job, faults>>

SetupStep(p)  == SetupOwner(p) \/ SetupDefine(p) \/ SetupWrite(p)
                   \/ SetupRestart(p) \/ UndoRestart(p)
TagStep(p)    == TagWrite(p) \/ TagDefine(p) \/ TagRewrite(p)
DeleteStep(p) == Undefine(p) \/ TagUndefine(p)
VerifyStep(p) == VerifyTag(p) \/ VerifyOpen(p) \/ VerifyRead(p)
                   \/ VerifyOwner(p) \/ VerifyRestart(p) \/ VerifyReopen(p)
                   \/ MigrateRestart(p) \/ MigrateReopen(p)

Step(p) == SetupStep(p) \/ TagStep(p) \/ DeleteStep(p) \/ VerifyStep(p)

Next == \E p \in Procs : Call(p) \/ Step(p) \/ Crash(p)

Spec == Init /\ [][Next]_vars

(* A process that is inside an operation keeps running: every command gets  *)
(* an answer, and the code waits for nothing else.                          *)
FairSpec == Spec /\ \A p \in Procs : WF_vars(Step(p))
=============================================================================
