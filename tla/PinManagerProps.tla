-------------------------- MODULE PinManagerProps --------------------------
(***************************************************************************)
(* The properties of PinManager.                                            *)
(***************************************************************************)
EXTENDS PinManager

(* Every variable has its type; in particular no counter of wrong guesses   *)
(* goes below zero and the bounds on failures hold.                         *)
TypeOK ==
  /\ slot   \in [Uids -> Slots]
  /\ tag    \in [Uids -> TagValues]
  /\ chosen \in [Uids -> PinStrings]
  /\ at     \in [Procs -> Labels]
  /\ phase  \in [Procs -> Phases]
  /\ job    \in [Procs -> Jobs]
  /\ res    \in [Procs -> Results]
  /\ faults \in 0..MaxFaults
  /\ crashes \in 0..MaxCrashes

(***************************************************************************)
(* The abstract vault: a written slot is an entry, an index that is defined *)
(* but unwritten holds nothing a guess could be compared with.              *)
(***************************************************************************)
vaultMap == [u \in Uids |->
  IF slot[u].state = "written"
    THEN [pin |-> slot[u].auth, wrong |-> slot[u].count, limit |-> slot[u].limit]
    ELSE [pin |-> NoPin, wrong |-> 0, limit |-> 0]]

callMap == [p \in Procs |-> [uid |-> job[p].uid, pin |-> job[p].pin]]

Vault == INSTANCE PinVault WITH vault <- vaultMap, call <- callMap, Callers <- Procs

(* No interleaving, failed command, killed process, rollback or migration   *)
(* lets a stored PIN be replaced in place, or its counter of wrong guesses  *)
(* be lowered other than by the right PIN or by removing the PIN.           *)
VaultSpec == Vault!Spec

-----------------------------------------------------------------------------
AllIdle == \A p \in Procs : at[p] = "idle"

(* So far no command has failed and no process was killed.                  *)
Unharmed == faults = 0 /\ crashes = 0

(* Would verify_pin compare equal, lockout aside?  Untagged slots compare   *)
(* the normalized PIN, slots of a newer format are refused.                 *)
Compares(u, pin) ==
  /\ slot[u].state = "written"
  /\ slot[u].auth = IF tag[u] = "current" THEN pin ELSE Normalize(pin)
  /\ tag[u] # "newer"

(* The last call of p returned r to operation op, and no call is running.   *)
Returned(p, op, r) == AllIdle /\ job[p].op = op /\ res[p] = r

(* Across migrations, rollbacks, failures and crashes of one process at a   *)
(* time, the slot never holds a PIN other than the one its user chose, up   *)
(* to the leading zeros the untagged format cannot represent.               *)
StoredIsChosen ==
  \A u \in Uids :
    slot[u].state # "absent" => SameNumber(slot[u].auth, chosen[u])

(* setup_pin returned Ok: the PIN it was given is stored exactly, and the   *)
(* tag that makes later verifications compare it exactly is in place, even  *)
(* if commands failed along the way or an earlier call was killed.          *)
SetupVerifiable ==
  \A p \in Procs :
    Returned(p, "setup", "ok") =>
      /\ Compares(User(p), Pin(p))
      /\ tag[User(p)] = "current"

(* verify_pin returned Success for a PIN: the same PIN succeeds again.  In  *)
(* between lies the migration, which may delete and set up the slot anew.   *)
(* (One that fails after it deleted the slot loses the PIN.)                *)
AcceptedStaysAccepted ==
  \A p \in Procs :
    Unharmed /\ Returned(p, "verify", "success") =>
      /\ Compares(User(p), Pin(p))
      /\ Usable(slot[User(p)])

(* A PIN that an earlier release stored or a setup has put in remains       *)
(* verifiable (lockout aside), whatever calls were made since, as long as   *)
(* none of them was a deletion and no call of setup returned an error.      *)
ProvisionedStaysVerifiable ==
  AllIdle =>
    \A u \in Uids : chosen[u] # NoPin /\ tag[u] # "newer" => Compares(u, chosen[u])

(* A setup that returned Ok has left a PIN that verifies, unless another    *)
(* setup or a deletion has taken its place since: no failing setup, however *)
(* late its rollback comes, removes a PIN other than its own.               *)
OkSetupLasts ==
  \A p \in Procs :
    Returned(p, "setup", "ok") /\ chosen[User(p)] = Pin(p) =>
      Compares(User(p), Pin(p))

(* Whatever setups, changes, deletions and verifications were interleaved,  *)
(* once none is running no slot is left unwritten, and a slot that is there *)
(* compares, in whichever form its tag asks for, the very PIN it was set up *)
(* with.  (Setups that overlap may remove each other's slot altogether.)    *)
RemainingVerifies ==
  AllIdle =>
    \A u \in Uids :
      slot[u].state # "absent" /\ tag[u] # "newer" => Compares(u, chosen[u])

(* verify_pin's Invalid { locked } tells the caller whether another attempt *)
(* is left, although it is computed from a second read of the slot (unless  *)
(* that read failed).                                                       *)
LockReportTrue ==
  \A p \in Procs : Unharmed /\ AllIdle =>
    /\ res[p] = "invalid"        => Usable(slot[User(p)])
    /\ res[p] = "invalid_locked" => ReadsLocked(slot[User(p)])

(* A call with the very PIN the user chose never consumes an attempt.       *)
RightPinIsFree ==
  \A p \in Procs :
    at[p] = "verify_read" /\ at'[p] # at[p] /\ Pin(p) = chosen[User(p)] =>
      slot'[User(p)].count <= slot[User(p)].count

RightPinCostsNothing == [][RightPinIsFree]_vars

(* delete_pin_with_auth removes no PIN other than the one it was            *)
(* authorised with (up to leading zeros): the PIN is checked by one TPM     *)
(* command and the slot removed by a later one.                             *)
DeletionAuthorised ==
  \A p \in Procs :
    /\ at[p] = "undefine" /\ job[p].op = "delete_auth" /\ phase[p] = "main"
    /\ at'[p] = "tag_undefine"
    => SameNumber(chosen[User(p)], Pin(p))

DeleteNeedsThePin == [][DeletionAuthorised]_vars

(* A legacy PIN that was entered correctly ends up in the current format,   *)
(* unless a command fails or the process is killed.                         *)
MigrationCompletes ==
  \A p \in Procs, u \in Uids :
    (at[p] = "verify_restart" /\ User(p) = u)
      ~> (slot[u].state = "written" /\ tag[u] = "current") \/ ~Unharmed
=============================================================================
