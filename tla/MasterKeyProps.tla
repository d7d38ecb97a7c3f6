--------------------------- MODULE MasterKeyProps ---------------------------
(***************************************************************************)
(* The properties of the master key.                                        *)
(***************************************************************************)
EXTENDS MasterKey

(* Every variable has its type.                                             *)
KeyTypeOK ==
  /\ parent \in BOOLEAN
  /\ hmac   \in Keys \cup {NoKey}
  /\ file   \in Files
  /\ drawn  \in 0..MaxKeys
  /\ known  \subseteq Keys
  /\ erased \subseteq Keys
  /\ at     \in [Procs -> Labels]
  /\ job    \in [Procs -> Jobs]
  /\ res    \in [Procs -> Results]
  /\ start  \in [Procs -> Starts]
  /\ faults \in 0..MaxFaults
  /\ crashes \in 0..MaxCrashes

Quiet == \A p \in Procs : at[p] = "idle"

Ended(p, op, result) == at[p] = "idle" /\ Op(p) = op /\ res[p] = result

(* Whoever was shown a recovery phrase can restore its key, through every   *)
(* race, failure and crash, until clear_from_disk deletes the file: it is   *)
(* complete when the phrase is shown, and nothing replaces it.              *)
PhraseRestores == \A k \in known \ erased : file = Sealed(k)

(* Provisioning comes before sealing, so sealing may fail with the key      *)
(* already in use: once no command runs, a key is in the TPM only if the    *)
(* file that restores it was written.  The rollback must manage this for    *)
(* any single failure, and import must bring back no other key.             *)
KeyHasFile == Quiet /\ hmac # NoKey => hmac \in erased \/ file = Sealed(hmac)

(* init fails only because of what it found or because an operation failed: *)
(* whatever earlier commands that failed have left, clearing TPM and disk   *)
(* is enough to start again, and with no file and no key even a parent that *)
(* was left behind is reused.                                               *)
InitStartsAgain ==
  \A p \in Procs : Ended(p, "init", "error") =>
    ~start[p].clear \/ faults > start[p].faults

(* A key whose phrase was shown leaves the TPM by clear_from_tpm, never by  *)
(* the rollback of an init that failed.                                     *)
KeyCleared ==
  hmac' # hmac /\ hmac \in known =>
    \E p \in Procs : Op(p) = "clear_tpm" /\ at[p] = "evict_key"

ShownKeysStay == [][KeyCleared]_vars
=============================================================================
