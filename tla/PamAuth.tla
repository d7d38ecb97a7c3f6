------------------------------ MODULE PamAuth ------------------------------
(***************************************************************************)
(* pam_sm_authenticate of libpinpam.  A process that serves a login runs    *)
(* pinutil as its helper: `status` first, then `test` with a PIN that an    *)
(* earlier module left or that the user types.  The helper's steps are      *)
(* those of Pinutil, so between them, and while the user is asked, other    *)
(* logins and commands run; what the module decides on is what an earlier   *)
(* helper printed.                                                          *)
(***************************************************************************)
EXTENDS Pinutil

CONSTANTS Hosts,    \* processes that serve logins
          Modes,    \* "try" an earlier module's token first, or "use" only that
          Tokens    \* tokens of earlier modules that Pin::new accepts

ASSUME PamAssumption == /\ Hosts \subseteq Procs
                        /\ Modes \subseteq {"try", "use"}
                        /\ Tokens \subseteq Pins

VARIABLES pam,      \* where the module stands
          login,    \* whom the login is for, its mode, the token
          report,   \* what the status helper printed
          hand,     \* the PIN the test helper was given
          given,    \* history: how many PINs helpers were given
          charged,  \* history: attempts they consumed
          code      \* the module's answer

loginVars == <<pam, login, report, hand, given, charged, code>>
pamVars   == <<slot, tag, chosen, at, phase, job, res, faults, crashes,
               cmd, stage, fresh, spent, out,
               pam, login, report, hand, given, charged, code>>

PamStages == {"idle", "status", "first", "prompt", "test"}
Codes     == {"none", "SUCCESS", "AUTH_ERR", "MAXTRIES", "AUTHINFO_UNAVAIL",
              "USER_UNKNOWN", "CONV_ERR"}
Requests  == [uid : Uids, mode : {"try", "use"}, token : PinStrings]
Reports   == [status : {"none", "locked", "free"}, used : Nat, limit : Nat]
NoReport  == [status |-> "none", used |-> 0, limit |-> 0]
NoRequest(u) == [uid |-> u, mode |-> "try", token |-> NoPin]

PamInit ==
  /\ UtilInit
  /\ pam    = [p \in Procs |-> "idle"]
  /\ login \in [Procs -> {NoRequest(u) : u \in Uids}]
  /\ report = [p \in Procs |-> NoReport]
  /\ hand    = [p \in Procs |-> NoPin]
  /\ given   = [p \in Procs |-> 0]
  /\ charged = [p \in Procs |-> 0]
  /\ code    = [p \in Procs |-> "none"]

-----------------------------------------------------------------------------
(* Outside the helper: the store is not touched.                            *)
Still == UNCHANGED <<slot, tag, chosen, at, phase, job, res, crashes>>

(* No helper is started.                                                    *)
Resting == UNCHANGED <<cmd, stage, fresh, out, spent>>

(* The module starts pinutil in machine mode.                               *)
Helper(p, kind, by, u) ==
  LET allowed == Permitted(kind, by) IN
  /\ cmd'   = [cmd EXCEPT ![p] = [kind |-> kind, by |-> by, machine |-> TRUE, uid |-> u]]
  /\ stage' = [stage EXCEPT ![p] = IF allowed THEN "open" ELSE "done"]
  /\ out'   = [out EXCEPT ![p] = IF allowed THEN "none" ELSE "denied"]
  /\ fresh' = [fresh EXCEPT ![p] = NoPin]
  /\ spent' = [spent EXCEPT ![p] = 0]

Answer(p, result) ==
  /\ pam'    = [pam EXCEPT ![p] = "idle"]
  /\ code'   = [code EXCEPT ![p] = result]
  /\ login'  = [login EXCEPT ![p] = NoRequest(@.uid)]
  /\ report' = [report EXCEPT ![p] = NoReport]
  /\ UNCHANGED <<hand, given>>

Go(p, label, said) ==
  /\ pam'    = [pam EXCEPT ![p] = label]
  /\ report' = [report EXCEPT ![p] = said]
  /\ UNCHANGED <<code, login>>

(* run_pinutil_test: the PIN is written to the helper that was started.     *)
Test(p, label, pin) ==
  \/ /\ Works
     /\ Helper(p, "test", cmd[p].by, login[p].uid)
     /\ Go(p, label, report[p])
     /\ hand'  = [hand EXCEPT ![p] = pin]
     /\ given' = [given EXCEPT ![p] = @ + 1]
  \/ Fails /\ Answer(p, "AUTHINFO_UNAVAIL") /\ Resting

(* Nothing is left of an earlier login of this process.                     *)
Blank(p) ==
  /\ report'  = [report EXCEPT ![p] = NoReport]
  /\ hand'    = [hand EXCEPT ![p] = NoPin]
  /\ given'   = [given EXCEPT ![p] = 0]
  /\ charged' = [charged EXCEPT ![p] = 0]

(* PamIo::new and get_username fail.                                        *)
Unserved == {"CONV_ERR", "USER_UNKNOWN"}

(* PAM_AUTHTOK, as far as Pin::new accepts it.                              *)
Offered == Tokens \cup {NoPin}

(* A login begins: run_pinutil_status starts a helper, unless there is no   *)
(* conversation or no such user.  Without arguments the module ignores a    *)
(* token, as if there were none.                                            *)
Authenticate(p) ==
  /\ p \in Hosts
  /\ pam[p] = "idle" /\ stage[p] = "done"
  /\ \E u \in Uids :
       \/ \E by \in Callers, mode \in Modes, token \in Offered :
            /\ Works /\ Helper(p, "status", by, u)
            /\ login' = [login EXCEPT ![p] = [uid |-> u, mode |-> mode, token |-> token]]
            /\ pam'  = [pam EXCEPT ![p] = "status"]
            /\ code' = [code EXCEPT ![p] = "none"]
       \/ /\ \/ Works /\ \E refusal \in Unserved : code' = [code EXCEPT ![p] = refusal]
             \/ Fails /\ code' = [code EXCEPT ![p] = "AUTHINFO_UNAVAIL"]
          /\ login' = [login EXCEPT ![p] = NoRequest(u)]
          /\ Resting /\ UNCHANGED pam
  /\ Blank(p)
  /\ Still

-----------------------------------------------------------------------------
(* The helper.                                                              *)

(* What status prints of a slot.                                            *)
Info(s) ==
  IF s.state # "written" THEN NoReport
  ELSE [status |-> IF InfoLocked(s) THEN "locked" ELSE "free",
        used |-> s.count, limit |-> s.limit]

HelperLook(p) ==
  /\ Look(p)
  /\ report' = IF pam[p] = "status"
                 THEN [report EXCEPT ![p] = Info(slot[Target(p)])] ELSE report
  /\ UNCHANGED <<pam, login, hand, given, charged, code>>

(* The helper reads the PIN.  It validates it against the policy it has     *)
(* loaded itself, which need not be the module's.                           *)
Feed(p) ==
  /\ pam[p] \in {"first", "test"} /\ stage[p] = "old_pin"
  /\ \/ Invoke(p, "verify", Target(p), hand[p]) /\ Move(p, "checking")
     \/ Fails /\ End(p, "rejected") /\ Outside
  /\ UNCHANGED <<cmd, fresh, spent>>
  /\ UNCHANGED loginVars

HelperManagerStep(p) ==
  /\ ManagerStep(p)
  /\ charged' = IF pam[p] # "idle" /\ slot'[User(p)].count > slot[User(p)].count
                  THEN [charged EXCEPT ![p] = @ + 1] ELSE charged
  /\ UNCHANGED <<pam, login, report, hand, given, code>>

HelperStep(p) ==
  \/ HelperLook(p) \/ Feed(p) \/ HelperManagerStep(p)
  \/ /\ Open(p) \/ Checked(p) \/ Reopen(p) \/ Removed(p) \/ Stored(p)
     /\ UNCHANGED loginVars

-----------------------------------------------------------------------------
(* The module reads what its helper printed.  A helper that was killed or   *)
(* failed has printed nothing, or an error.                                 *)
Printed(p, label) == pam[p] = label /\ stage[p] = "done"

(* Mutants: a result without a message is taken for an Ok; the lock flag of *)
(* a wrong PIN is not looked at.                                            *)
LenientMutant(outcome) ==
  CASE outcome \in {"ok", "killed"}                -> "SUCCESS"
    [] outcome = "incorrect"                       -> "AUTH_ERR"
    [] outcome \in {"incorrect_locked", "locked"}  -> "MAXTRIES"
    [] OTHER                                       -> "AUTHINFO_UNAVAIL"

FlagMutant(outcome) ==
  CASE outcome = "ok"                              -> "SUCCESS"
    [] outcome \in {"incorrect", "incorrect_locked"} -> "AUTH_ERR"
    [] outcome = "locked"                          -> "MAXTRIES"
    [] OTHER                                       -> "AUTHINFO_UNAVAIL"

(* PinutilTestOutcome and finalize_outcome.                                 *)
Final(outcome) ==
  CASE outcome = "ok"                              -> "SUCCESS"
    [] outcome = "incorrect"                       -> "AUTH_ERR"
    [] outcome \in {"incorrect_locked", "locked"}  -> "MAXTRIES"
    [] OTHER                                       -> "AUTHINFO_UNAVAIL"

(* The user is asked unless, as far as the module knows, no attempt is left.*)
Prompt(p, said) ==
  /\ Works /\ Resting
  /\ \/ /\ said.used >= said.limit
        /\ Answer(p, "MAXTRIES")
     \/ /\ said.used < said.limit
        /\ Go(p, "prompt", said) /\ UNCHANGED <<hand, given>>

Finish(p, result) == Works /\ Resting /\ Answer(p, result)

(* decide_first_pass, once status said that the PIN may be tried.           *)
Decide(p) ==
  \/ login[p].token # NoPin /\ Test(p, "first", login[p].token)
  \/ login[p].token = NoPin /\ login[p].mode = "use" /\ Finish(p, "AUTH_ERR")
  \/ login[p].token = NoPin /\ login[p].mode = "try" /\ Prompt(p, report[p])

(* Mutant: the module asks again while the PIN is locked.                   *)
PollMutant(p) ==
  /\ Printed(p, "status")
  /\ \/ /\ out[p] # "ok" \/ report[p].status = "none"
        /\ Finish(p, "AUTHINFO_UNAVAIL")
     \/ /\ out[p] = "ok" /\ report[p].status = "locked"
        /\ Works /\ Helper(p, "status", cmd[p].by, login[p].uid)
        /\ Go(p, "status", NoReport) /\ UNCHANGED <<hand, given>>
     \/ /\ out[p] = "ok" /\ report[p].status = "free"
        /\ Decide(p)
  /\ UNCHANGED charged /\ Still

StatusDone(p) ==
  /\ Printed(p, "status")
  /\ \/ /\ out[p] # "ok" \/ report[p].status = "none"
        /\ Finish(p, "AUTHINFO_UNAVAIL")
     \/ /\ out[p] = "ok" /\ report[p].status = "locked"
        /\ Finish(p, "MAXTRIES")
     \/ /\ out[p] = "ok" /\ report[p].status = "free"
        /\ Decide(p)
  /\ UNCHANGED charged /\ Still

(* Mutants: the attempt that the token cost is not counted, or twice.       *)
RecountMutant(said)    == said
CountTwiceMutant(said) == [said EXCEPT !.used = @ + 2]

Counted(said) == [said EXCEPT !.used = @ + 1]

(* The token was wrong: with try_first_pass the user is asked after all.    *)
FirstDone(p) ==
  /\ Printed(p, "first")
  /\ \/ /\ out[p] = "incorrect" /\ login[p].mode = "try"
        /\ Prompt(p, Counted(report[p]))
     \/ /\ out[p] # "incorrect" \/ login[p].mode = "use"
        /\ Finish(p, Final(out[p]))
  /\ UNCHANGED charged /\ Still

(* prompt_hidden fails, or is given no text or one that Pin::new rejects.   *)
NoInput == {"AUTH_ERR", "CONV_ERR"}

(* prompt_for_pin.                                                          *)
Type(p) ==
  /\ pam[p] = "prompt"
  /\ \/ \E pin \in Entries : Test(p, "test", pin)
     \/ \E refusal \in NoInput : Finish(p, refusal)
  /\ UNCHANGED charged /\ Still

TestDone(p) ==
  /\ Printed(p, "test")
  /\ Finish(p, Final(out[p]))
  /\ UNCHANGED charged /\ Still

-----------------------------------------------------------------------------
ModuleStep(p) == StatusDone(p) \/ FirstDone(p) \/ TestDone(p)

(* A process that serves no login may run commands of pinutil.              *)
CommandStep(p) ==
  /\ pam[p] = "idle"
  /\ UserStep(p)
  /\ code' = [code EXCEPT ![p] = "none"]
  /\ Blank(p) /\ UNCHANGED <<pam, login>>

KillHelper(p) == Kill(p) /\ UNCHANGED loginVars

PamNext == \E p \in Procs :
  \/ Authenticate(p) \/ Type(p) \/ ModuleStep(p)
  \/ HelperStep(p) \/ CommandStep(p) \/ KillHelper(p)

PamSpec == PamInit /\ [][PamNext]_pamVars

(* Everything but users and failures keeps going.                           *)
PamFairSpec ==
  PamSpec /\ \A p \in Procs : WF_pamVars(ModuleStep(p) \/ HelperStep(p))
=============================================================================
