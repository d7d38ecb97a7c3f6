---------------------------- MODULE PinutilProps ----------------------------
(***************************************************************************)
(* The properties of the commands of pinutil.                               *)
(***************************************************************************)
EXTENDS Pinutil, PinManagerProps

(* Every variable of the commands and of the PIN store has its type.        *)
UtilTypeOK ==
  /\ TypeOK
  /\ cmd   \in [Procs -> Commands]
  /\ stage \in [Procs -> Stages]
  /\ fresh \in [Procs -> PinStrings]
  /\ spent \in [Procs -> Nat]
  /\ out   \in [Procs -> Outcomes]

Done == \A p \in Procs : stage[p] = "done"

Ended(p, kind, result) == stage[p] = "done" /\ cmd[p].kind = kind /\ out[p] = result

(* Each wrong attempt permanently consumes a lockout slot: no command costs *)
(* its user more than one, although change authenticates twice and other    *)
(* commands may change the PIN in between.                                  *)
AtMostOneAttempt == \A p \in Procs : spent[p] <= 1

(* Ok of setup and change, one command at a time: the new PIN is stored     *)
(* exactly and tagged so that it verifies.  It must hold although change    *)
(* deletes first, and whatever earlier commands that failed or were killed  *)
(* have left.  (Beside another setup it does not hold: OkSetupLasts.)       *)
OkMeansStored ==
  \A p \in Procs :
    Ended(p, "setup", "ok") \/ Ended(p, "change", "ok") =>
      /\ slot[Target(p)].auth = fresh[p]
      /\ Compares(Target(p), fresh[p])
      /\ tag[Target(p)] = "current"

(* The result "incorrect" is never given to the right PIN.  PinManager      *)
(* gives it to any PIN at a locked slot: it is the early return on the      *)
(* counters, read before the prompt, that keeps this from the user.         *)
IncorrectMeansWrong ==
  \A p \in Procs :
    Done /\ out[p] \in {"incorrect", "incorrect_locked"} => ~Compares(Target(p), Pin(p))

(* setup that finds no PIN set succeeds, once its user has entered one.     *)
SetupProceeds == \A p \in Procs : ~Ended(p, "setup", "error")

(* However a change ends, the user is left with a PIN that verifies.        *)
ChangeLeavesAPin ==
  \A p \in Procs :
    /\ Done /\ cmd[p].kind = "change"
    /\ out[p] \notin {"none", "denied", "no_pin", "killed"}
    => Compares(Target(p), chosen[Target(p)])

(* A PIN is set, replaced or removed only by a command run by root, or by   *)
(* one its owner runs, who has entered the PIN that is removed.             *)
ChangedByManagers ==
  \A u \in Uids : chosen'[u] # chosen[u] =>
    \E p \in Procs :
      /\ at'[p] # at[p] /\ Target(p) = u
      /\ \/ cmd[p].by = "root"
         \/ /\ cmd[p].by = "owner"
            /\ slot[u].state = "absent" \/ SameNumber(Pin(p), chosen[u])

OnlyManagersChangePins == [][ChangedByManagers]_utilVars

(* A command ends, or waits for its user.                                   *)
CommandsEnd ==
  \A p \in Procs : stage[p] # "done" ~> stage[p] \in {"done"} \cup Prompts
=============================================================================
