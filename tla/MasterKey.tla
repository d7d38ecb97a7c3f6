----------------------------- MODULE MasterKey -----------------------------
(***************************************************************************)
(* The master key: an HMAC key kept in the TPM under an RSA parent, and a   *)
(* copy of it in a file, sealed with a recovery phrase.  init, import and   *)
(* the two clear commands of pinutil are series of TPM commands and file    *)
(* operations; a process stands at the label of its next one.               *)
(***************************************************************************)
EXTENDS Naturals

CONSTANTS Procs,       \* processes that run a command
          MaxKeys,     \* bound on the keys drawn
          MaxFaults,   \* bound on failing operations
          MaxCrashes   \* bound on processes killed

ASSUME MasterKeyAssumption ==
  /\ MaxKeys \in Nat
  /\ MaxFaults \in Nat
  /\ MaxCrashes \in Nat

VARIABLES parent,    \* whether the RSA parent is persistent in the TPM
          hmac,      \* the persistent HMAC key
          file,      \* the file with the sealed key
          drawn,     \* how many keys and phrases were drawn
          known,     \* history: the keys whose phrase was shown
          erased,    \* history: the keys whose file was deleted
          at,        \* the next operation of a process
          job,       \* its command
          res,       \* the result of its last command
          start,     \* history: whether it began without a key and a file
          faults, crashes

vars == <<parent, hmac, file, drawn, known, erased, at, job, res, start,
          faults, crashes>>

(* A key stands for itself and for the phrase drawn with it: both are       *)
(* random and never drawn again.  As a phrase, NoKey is a wrong one.        *)
Keys  == 1..MaxKeys
NoKey == 0

Files   == [state : {"none", "partial", "sealed"}, key : Keys \cup {NoKey}]
NoFile  == [state |-> "none", key |-> NoKey]
Partial(k) == [state |-> "partial", key |-> k]
Sealed(k)  == [state |-> "sealed", key |-> k]

Commands == {"init", "import", "clear_tpm", "clear_disk"}
Labels   == {"idle", "status_parent", "status_key", "unseal", "look_parent",
             "make_parent", "look_key", "load_key", "keep_key", "seal_open",
             "seal_write", "confirm", "evict_open", "evict_key",
             "evict_parent", "remove"}
(* "unconfirmed": the phrase was shown, but not typed back.                 *)
Results  == {"none", "ok", "unconfirmed", "error", "killed"}
Jobs     == [op : Commands, key : Keys \cup {NoKey}, sealed : BOOLEAN]
Starts   == [clear : BOOLEAN, faults : 0..MaxFaults]

Seen == [clear |-> hmac = NoKey /\ file = NoFile, faults |-> faults]

Init ==
  /\ parent = FALSE /\ hmac = NoKey /\ file = NoFile
  /\ drawn = 0 /\ known = {} /\ erased = {}
  /\ at = [p \in Procs |-> "idle"]
  /\ job = [p \in Procs |-> [op |-> "init", key |-> NoKey, sealed |-> FALSE]]
  /\ res = [p \in Procs |-> "none"]
  /\ faults = 0 /\ crashes = 0
  /\ start = [p \in Procs |-> Seen]

-----------------------------------------------------------------------------
Op(p)  == job[p].op
Key(p) == job[p].key

Works == UNCHANGED faults
Fails == faults < MaxFaults /\ faults' = faults + 1

Goto(p, label)    == at' = [at EXCEPT ![p] = label] /\ UNCHANGED res
Return(p, result) == at' = [at EXCEPT ![p] = "idle"] /\ res' = [res EXCEPT ![p] = result]

Store  == <<parent, hmac, file>>
Begun  == <<drawn, erased, job, start, crashes>>

Begin(p, op, key) ==
  /\ job' = [job EXCEPT ![p] = [op |-> op, key |-> key,
                                sealed |-> file.state # "none"]]
  /\ start' = [start EXCEPT ![p] = Seen]
  /\ UNCHANGED <<parent, hmac, file, known, erased, faults, crashes>>

(* init refuses if there is a file; otherwise it draws a key and a phrase.  *)
CallInit(p) ==
  /\ at[p] = "idle"
  /\ \/ /\ file.state # "none"
        /\ Begin(p, "init", NoKey) /\ Return(p, "error") /\ UNCHANGED drawn
     \/ /\ file.state = "none" /\ drawn < MaxKeys
        /\ drawn' = drawn + 1
        /\ Begin(p, "init", drawn + 1) /\ Goto(p, "look_parent")

(* import: the user types a phrase that was shown, or a wrong one.  status  *)
(* first looks for the file.                                                *)
CallImport(p) ==
  /\ at[p] = "idle"
  /\ \E phrase \in known \cup {NoKey} : Begin(p, "import", phrase)
  /\ Goto(p, "status_parent") /\ UNCHANGED drawn

CallClear(p) ==
  /\ at[p] = "idle"
  /\ \/ Begin(p, "clear_tpm", NoKey) /\ Goto(p, "evict_open")
     \/ Begin(p, "clear_disk", NoKey) /\ Goto(p, "remove")
  /\ UNCHANGED drawn

-----------------------------------------------------------------------------
(* The rest of status and the refusals of import_to_tpm.  With the parent   *)
(* there it is an error whatever the second look says.                      *)
StatusParent(p) ==
  /\ at[p] = "status_parent"
  /\ \/ Works /\ ~parent /\ Goto(p, "status_key")
     \/ Works /\ parent /\ Return(p, "error")
     \/ Fails /\ Return(p, "error")
  /\ UNCHANGED <<Store, Begun, known>>

StatusKey(p) ==
  /\ at[p] = "status_key"
  /\ \/ Works /\ hmac = NoKey /\ job[p].sealed /\ Goto(p, "unseal")
     \/ Works /\ ~(hmac = NoKey /\ job[p].sealed) /\ Return(p, "error")
     \/ Fails /\ Return(p, "error")
  /\ UNCHANGED <<Store, Begun, known>>

(* unseal_key_bytes_from_path: only the phrase a complete file was sealed   *)
(* with opens it, and gives the key drawn with it.                          *)
Unseal(p) ==
  /\ at[p] = "unseal"
  /\ \/ Works /\ file = Sealed(Key(p)) /\ Goto(p, "look_parent")
     \/ Works /\ file # Sealed(Key(p)) /\ Return(p, "error")
     \/ Fails /\ Return(p, "error")
  /\ UNCHANGED <<Store, Begun, known>>

-----------------------------------------------------------------------------
(* Mutant: provisioning refuses a parent that is there, as import does.     *)
NoReuseMutant(p) ==
  /\ at[p] = "look_parent"
  /\ \/ Works /\ ~parent /\ Goto(p, "make_parent")
     \/ Works /\ parent /\ Return(p, "error")
     \/ Fails /\ Return(p, "error")
  /\ UNCHANGED <<Store, Begun, known>>

(* provision_tpm_objects.  Its errors undo nothing.                         *)
LookParent(p) ==
  /\ at[p] = "look_parent"
  /\ \/ Works /\ Goto(p, IF parent THEN "look_key" ELSE "make_parent")
     \/ Fails /\ Return(p, "error")
  /\ UNCHANGED <<Store, Begun, known>>

(* A handle that has been taken meanwhile is refused by the TPM.            *)
MakeParent(p) ==
  /\ at[p] = "make_parent"
  /\ \/ Works /\ ~parent /\ parent' = TRUE /\ Goto(p, "look_key")
     \/ Works /\ parent /\ Return(p, "error") /\ UNCHANGED parent
     \/ Fails /\ Return(p, "error") /\ UNCHANGED parent
  /\ UNCHANGED <<hmac, file, Begun, known>>

(* Mutant: a refused provisioning clears the TPM as a failed sealing does.  *)
RollbackMutant(p) ==
  /\ at[p] = "look_key"
  /\ \/ Works /\ hmac = NoKey /\ Goto(p, "load_key")
     \/ Works /\ hmac # NoKey /\ Goto(p, "evict_open")
     \/ Fails /\ Return(p, "error")
  /\ UNCHANGED <<Store, Begun, known>>

LookKey(p) ==
  /\ at[p] = "look_key"
  /\ \/ Works /\ hmac = NoKey /\ Goto(p, "load_key")
     \/ Works /\ hmac # NoKey /\ Return(p, "error")
     \/ Fails /\ Return(p, "error")
  /\ UNCHANGED <<Store, Begun, known>>

(* Creating and loading the key needs the parent.                           *)
LoadKey(p) ==
  /\ at[p] = "load_key"
  /\ \/ Works /\ parent /\ Goto(p, "keep_key")
     \/ Works /\ ~parent /\ Return(p, "error")
     \/ Fails /\ Return(p, "error")
  /\ UNCHANGED <<Store, Begun, known>>

(* Making it persistent needs a free handle, and no parent any more.        *)
KeepKey(p) ==
  /\ at[p] = "keep_key"
  /\ \/ /\ Works /\ hmac = NoKey
        /\ hmac' = Key(p)
        /\ Goto(p, IF Op(p) = "init" THEN "seal_open" ELSE "confirm")
     \/ Works /\ hmac # NoKey /\ Return(p, "error") /\ UNCHANGED hmac
     \/ Fails /\ Return(p, "error") /\ UNCHANGED hmac
  /\ UNCHANGED <<parent, file, Begun, known>>

-----------------------------------------------------------------------------
(* Mutants: the file is truncated if it exists; its error is only returned. *)
TruncateMutant(p) ==
  /\ at[p] = "seal_open"
  /\ \/ Works /\ file' = Partial(Key(p)) /\ Goto(p, "seal_write")
     \/ Fails /\ Goto(p, "evict_open") /\ UNCHANGED file
  /\ UNCHANGED <<parent, hmac, Begun, known>>

NoRollbackMutant(p) ==
  /\ at[p] = "seal_open"
  /\ \/ Works /\ file = NoFile /\ file' = Partial(Key(p)) /\ Goto(p, "seal_write")
     \/ Works /\ file # NoFile /\ Return(p, "error") /\ UNCHANGED file
     \/ Fails /\ Return(p, "error") /\ UNCHANGED file
  /\ UNCHANGED <<parent, hmac, Begun, known>>

(* seal_key_bytes_to_path: create_new, then the writes.  An error makes     *)
(* init clear the TPM.                                                      *)
SealOpen(p) ==
  /\ at[p] = "seal_open"
  /\ \/ Works /\ file = NoFile /\ file' = Partial(Key(p)) /\ Goto(p, "seal_write")
     \/ Works /\ file # NoFile /\ Goto(p, "evict_open") /\ UNCHANGED file
     \/ Fails /\ Goto(p, "evict_open") /\ UNCHANGED file
  /\ UNCHANGED <<parent, hmac, Begun, known>>

(* The writes go to the file that was created, whether or not it is still   *)
(* at its path.                                                             *)
SealWrite(p) ==
  /\ at[p] = "seal_write"
  /\ \/ /\ Works
        /\ file' = IF file = Partial(Key(p)) THEN Sealed(Key(p)) ELSE file
        /\ Goto(p, "confirm")
     \/ Fails /\ Goto(p, "evict_open") /\ UNCHANGED file
  /\ UNCHANGED <<parent, hmac, Begun, known>>

(* The status that init and import return.  Only with it is the phrase      *)
(* shown; the user may then fail to type it back.                           *)
Confirm(p) ==
  /\ at[p] = "confirm"
  /\ \/ /\ Works /\ Op(p) = "init"
        /\ known' = known \cup {Key(p)}
        /\ \E result \in {"ok", "unconfirmed"} : Return(p, result)
     \/ Works /\ Op(p) = "import" /\ Return(p, "ok") /\ UNCHANGED known
     \/ Fails /\ Return(p, "error") /\ UNCHANGED known
  /\ UNCHANGED <<Store, Begun>>

-----------------------------------------------------------------------------
(* clear_from_tpm, as a command and as init's rollback, where it ends in    *)
(* the error that led to it.  Failures of the evictions are ignored.        *)
Cleared(p) == IF Op(p) = "init" THEN "error" ELSE "ok"

EvictOpen(p) ==
  /\ at[p] = "evict_open"
  /\ \/ Works /\ Goto(p, "evict_key")
     \/ Fails /\ Return(p, "error")
  /\ UNCHANGED <<Store, Begun, known>>

EvictKey(p) ==
  /\ at[p] = "evict_key"
  /\ \/ Works /\ hmac' = NoKey
     \/ Fails /\ UNCHANGED hmac
  /\ Goto(p, "evict_parent")
  /\ UNCHANGED <<parent, file, Begun, known>>

EvictParent(p) ==
  /\ at[p] = "evict_parent"
  /\ \/ Works /\ parent' = FALSE
     \/ Fails /\ UNCHANGED parent
  /\ Return(p, Cleared(p))
  /\ UNCHANGED <<hmac, file, Begun, known>>

(* clear_from_disk.                                                         *)
Remove(p) ==
  /\ at[p] = "remove"
  /\ \/ /\ Works /\ file' = NoFile /\ Return(p, "ok")
        /\ erased' = erased \cup ({file.key} \ {NoKey})
     \/ Fails /\ Return(p, "error") /\ UNCHANGED <<file, erased>>
  /\ UNCHANGED <<parent, hmac, known, drawn, job, start, crashes>>

Kill(p) ==
  /\ at[p] # "idle" /\ crashes < MaxCrashes
  /\ crashes' = crashes + 1
  /\ Return(p, "killed")
  /\ UNCHANGED <<Store, known, drawn, erased, job, start, faults>>

-----------------------------------------------------------------------------
Next == \E p \in Procs :
  \/ CallInit(p) \/ CallImport(p) \/ CallClear(p)
  \/ StatusParent(p) \/ StatusKey(p) \/ Unseal(p)
  \/ LookParent(p) \/ MakeParent(p) \/ LookKey(p) \/ LoadKey(p) \/ KeepKey(p)
  \/ SealOpen(p) \/ SealWrite(p) \/ Confirm(p)
  \/ EvictOpen(p) \/ EvictKey(p) \/ EvictParent(p) \/ Remove(p)
  \/ Kill(p)

Spec == Init /\ [][Next]_vars
=============================================================================
