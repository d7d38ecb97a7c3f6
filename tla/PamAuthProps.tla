---------------------------- MODULE PamAuthProps ----------------------------
(***************************************************************************)
(* The properties of libpinpam.                                             *)
(***************************************************************************)
EXTENDS PamAuth, PinutilProps

(* Every variable of a login has its type.                                  *)
PamTypeOK ==
  /\ UtilTypeOK
  /\ pam     \in [Procs -> PamStages]
  /\ login   \in [Procs -> Requests]
  /\ report  \in [Procs -> Reports]
  /\ hand    \in [Procs -> PinStrings]
  /\ given   \in [Procs -> 0..2]
  /\ charged \in [Procs -> Nat]
  /\ code    \in [Procs -> Codes]

(***************************************************************************)
(* The abstract login.  A PIN is in hand until the TPM compares it; it has  *)
(* matched while verify_pin is past the comparison, or has returned or      *)
(* printed its success, and when the answer was SUCCESS.                    *)
(***************************************************************************)
Testing(p) == pam[p] \in {"first", "test"}

InHand(p) ==
  /\ Testing(p)
  /\ \/ stage[p] \in {"open", "look", "old_pin"}
     \/ stage[p] = "checking" /\ at[p] \in {"verify_tag", "verify_open", "verify_read"}

Matched(p) ==
  \/ code[p] = "SUCCESS"
  \/ /\ Testing(p)
     /\ \/ stage[p] = "done" /\ out[p] = "ok"
        \/ stage[p] = "checking" /\ at[p] = "idle" /\ res[p] = "success"
        \/ /\ stage[p] = "checking"
           /\ at[p] \notin {"idle", "verify_tag", "verify_open", "verify_read",
                           "verify_owner"}

storedMap == [u \in Uids |-> IF slot[u].state = "written" THEN slot[u].auth ELSE NoPin]

loginMap == [p \in Procs |->
  [uid     |-> login[p].uid,
   hand    |-> IF InHand(p) THEN hand[p] ELSE NoPin,
   given   |-> given[p],
   verdict |-> IF Matched(p) THEN "match" ELSE "none",
   charged |-> charged[p],
   code    |-> code[p]]]

Abstract == INSTANCE Login WITH stored <- storedMap, login <- loginMap, Logins <- Procs

(* SUCCESS is answered only after the TPM accepted the very PIN the login's *)
(* helper was given, and at most one attempt is consumed per PIN that was   *)
(* given and was wrong, whatever other processes do to the slot between     *)
(* status, prompt and test, and wherever a helper fails or is killed.       *)
LoginSpec == Abstract!Spec

-----------------------------------------------------------------------------
Answered(p, result) == pam[p] = "idle" /\ code[p] = result

(* One login at a time, nothing failing: if the last PIN that was handed in *)
(* is the right one, be it typed or left by an earlier module, the login    *)
(* succeeds, unless its user may not test PINs: neither the status read     *)
(* before nor the attempt a token cost stands in its way.                   *)
RightPinLogsIn ==
  \A p \in Procs :
    /\ pam[p] = "idle" /\ code[p] \notin {"none", "SUCCESS"}
    /\ given[p] > 0 /\ cmd[p].by # "other"
    => ~Compares(login[p].uid, hand[p])

(* MAXTRIES means that the slot is locked (or that its limit is 0), also    *)
(* when the module only counted on from an earlier report.                  *)
MaxTriesMeansLocked ==
  \A p \in Procs :
    Answered(p, "MAXTRIES") => ~Usable(slot[login[p].uid])

(* A locked slot is reported: no login that cannot succeed any more is told *)
(* that its PIN was merely wrong.                                           *)
AuthErrLeavesAttempts ==
  \A p \in Procs :
    Answered(p, "AUTH_ERR") => Usable(slot[login[p].uid])

(* The prompt warns of the attempts that are left: what status printed,     *)
(* less the one the token cost, is what the TPM holds when the user is      *)
(* asked.                                                                   *)
PromptCountsRight ==
  \A p \in Procs :
    pam[p] = "prompt" =>
      /\ report[p].used  = slot[login[p].uid].count
      /\ report[p].limit = slot[login[p].uid].limit

(* A login ends, or waits for its user.                                     *)
LoginsEnd == \A p \in Procs : pam[p] # "idle" ~> pam[p] \in {"idle", "prompt"}
=============================================================================
