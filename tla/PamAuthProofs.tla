--------------------------- MODULE PamAuthProofs ---------------------------
(***************************************************************************)
(* Theorems about libpinpam, for any number of users, of processes that     *)
(* serve logins or run commands at the same time, of failures and of kills. *)
(***************************************************************************)
EXTENDS PamAuthProps, PinutilProofs

LoginType == /\ pam     \in [Procs -> PamStages]
             /\ login   \in [Procs -> Requests]
             /\ report  \in [Procs -> Reports]
             /\ hand    \in [Procs -> PinStrings]
             /\ given   \in [Procs -> 0..2]
             /\ charged \in [Procs -> Nat]
             /\ code    \in [Procs -> Codes]

(* The PINs that helpers are handed: typed, or left by an earlier module.   *)
Typeable == Entries \cup Tokens

(* What the module's position says of its helper: which command it is, for  *)
(* whom, and that it is verifying the very PIN it was handed.               *)
Flow(p) ==
  /\ login[p].token \in Offered
  /\ pam[p] # "idle" => code[p] = "none"
  /\ pam[p] = "status" =>
       /\ stage[p] \in {"open", "look", "done"} /\ cmd[p].kind = "status"
       /\ given[p] = 0
  /\ pam[p] = "prompt" => stage[p] = "done" /\ given[p] \in 0..1
  /\ pam[p] = "first" => given[p] = 1
  /\ pam[p] = "test" => given[p] \in 1..2
  /\ Testing(p) =>
       /\ stage[p] \in {"open", "look", "old_pin", "checking", "done"}
       /\ cmd[p].kind = "test" /\ cmd[p].uid = login[p].uid
       /\ hand[p] \in Typeable
       /\ stage[p] = "checking" =>
            job[p].op = "verify" /\ Pin(p) = hand[p] /\ User(p) = login[p].uid

PamInv == UtilTypeOK /\ LoginType /\ \A p \in Procs : Charge(p) /\ Flow(p)

-----------------------------------------------------------------------------
(* What the module itself does, once its helper has ended: it begins a      *)
(* login or refuses one, hands in a PIN, asks the user, or answers.         *)
Begins(p, u) ==
  /\ pam[p] = "idle"
  /\ \E by \in Callers, mode \in Modes, token \in Offered :
       /\ Helper(p, "status", by, u)
       /\ login' = [login EXCEPT ![p] = [uid |-> u, mode |-> mode, token |-> token]]
  /\ pam'  = [pam EXCEPT ![p] = "status"]
  /\ code' = [code EXCEPT ![p] = "none"]
  /\ Blank(p)

Refuses(p, u, result) ==
  /\ pam[p] = "idle"
  /\ code' = [code EXCEPT ![p] = result]
  /\ login' = [login EXCEPT ![p] = NoRequest(u)]
  /\ Resting /\ UNCHANGED pam /\ Blank(p)

HandsIn(p, label, pin) ==
  /\ pam[p] = IF label = "first" THEN "status" ELSE "prompt"
  /\ Helper(p, "test", cmd[p].by, login[p].uid)
  /\ Go(p, label, report[p])
  /\ hand'  = [hand EXCEPT ![p] = pin]
  /\ given' = [given EXCEPT ![p] = @ + 1]
  /\ UNCHANGED charged

Asks(p, said) ==
  /\ pam[p] = "status" \/ (pam[p] = "first" /\ out[p] = "incorrect")
  /\ Resting /\ Go(p, "prompt", said) /\ UNCHANGED <<hand, given, charged>>

Answers(p, result) ==
  /\ pam[p] # "idle" /\ (result = "SUCCESS" <=> Testing(p) /\ out[p] = "ok")
  /\ Resting /\ Answer(p, result) /\ UNCHANGED charged

ByModule(p) ==
  \/ \E u \in Uids : Begins(p, u)
  \/ \E u \in Uids, result \in Codes \ {"none", "SUCCESS"} : Refuses(p, u, result)
  \/ \E label \in {"first", "test"}, pin \in Typeable : HandsIn(p, label, pin)
  \/ \E said \in Reports : Asks(p, said)
  \/ \E result \in Codes \ {"none"} : Answers(p, result)

(* What can be typed or left is a PIN; a login may begin without one.       *)
LEMMA TypeablePins ==
  /\ Typeable \subseteq Pins
  /\ Entries \subseteq Typeable /\ Tokens \subseteq Typeable
  /\ NoPin \in Offered /\ \A token \in Offered : token = NoPin \/ token \in Typeable
  /\ \A u : NoRequest(u).token \in Offered
BY PinManagerAssumption, PamAssumption DEF Typeable, Offered, NoRequest

(* A step of the module itself leaves PinManager and pinutil alone, and is  *)
(* taken when its last helper has ended.                                    *)
LEMMA ModuleDoes ==
  ASSUME PamInv, NEW p \in Procs, Authenticate(p) \/ Type(p) \/ ModuleStep(p)
  PROVE  Still /\ (Works \/ Fails) /\ stage[p] = "done" /\ ByModule(p)
<1> USE DEF ByModule
<1>1. LoginType /\ Flow(p) /\ login[p] \in Requests /\ report[p] \in Reports
  BY DEF PamInv, LoginType
<1>2. ASSUME NEW label \in {"first", "test"}, NEW pin \in Typeable, Test(p, label, pin),
             pam[p] = IF label = "first" THEN "status" ELSE "prompt",
             UNCHANGED charged
      PROVE  HandsIn(p, label, pin) \/ \E result \in Codes \ {"none"} : Answers(p, result)
  BY <1>2 DEF Test, HandsIn, Answers, Testing, Codes
<1>3. ASSUME NEW said \in Reports, Prompt(p, said), UNCHANGED charged,
             pam[p] = "status" \/ (pam[p] = "first" /\ out[p] = "incorrect")
      PROVE  Asks(p, said) \/ \E result \in Codes \ {"none"} : Answers(p, result)
  BY <1>3 DEF Prompt, Asks, Answers, Testing, Codes
<1>4. CASE Authenticate(p)
  <2>1. Still /\ stage[p] = "done" /\ (Works \/ Fails)
    BY <1>4 DEF Authenticate
  <2>2. \/ \E u \in Uids : Begins(p, u)
        \/ \E u \in Uids, result \in Codes \ {"none", "SUCCESS"} : Refuses(p, u, result)
    BY <1>4 DEF Authenticate, Begins, Refuses, Unserved, Codes
  <2> QED BY <2>1, <2>2
<1>5. CASE Type(p)
  <2>1. stage[p] = "done" /\ pam[p] = "prompt"
    BY <1>1, <1>5 DEF Flow, Type
  <2>2. CASE \E pin \in Entries : Test(p, "test", pin)
    <3>1. PICK pin \in Entries : Test(p, "test", pin)
      BY <2>2
    <3>2. pin \in Typeable
      BY TypeablePins
    <3>3. Still /\ UNCHANGED charged /\ (Works \/ Fails)
      BY <1>5, <3>1 DEF Type, Test
    <3> QED BY <1>2, <2>1, <3>1, <3>2, <3>3
  <2>3. CASE \E refusal \in NoInput : Finish(p, refusal)
    BY <1>5, <2>1, <2>3 DEF Type, Finish, NoInput, Answers, Testing, Codes
  <2> QED BY <1>5, <2>2, <2>3 DEF Type
<1>6. CASE StatusDone(p)
  <2>1. stage[p] = "done" /\ pam[p] = "status" /\ Still /\ UNCHANGED charged
    BY <1>6 DEF StatusDone, Printed
  <2>2. CASE Finish(p, "AUTHINFO_UNAVAIL") \/ Finish(p, "MAXTRIES")
    BY <2>1, <2>2 DEF Finish, Answers, Testing, Codes
  <2>3. CASE Decide(p)
    <3>1. CASE login[p].token # NoPin /\ Test(p, "first", login[p].token)
      <4>1. login[p].token \in Typeable
        BY <1>1, <3>1, TypeablePins DEF Flow
      <4>2. Works \/ Fails
        BY <3>1 DEF Test
      <4> QED BY <1>2, <2>1, <3>1, <4>1, <4>2
    <3>2. CASE Finish(p, "AUTH_ERR")
      BY <2>1, <3>2 DEF Finish, Answers, Testing, Codes
    <3>3. CASE Prompt(p, report[p])
      <4>1. Works
        BY <3>3 DEF Prompt
      <4> QED BY <1>1, <1>3, <2>1, <3>3, <4>1
    <3> QED BY <2>3, <3>1, <3>2, <3>3 DEF Decide
  <2> QED BY <1>6, <2>2, <2>3 DEF StatusDone
<1>7. ASSUME Finish(p, Final(out[p])), Testing(p), UNCHANGED charged
      PROVE  \E result \in Codes \ {"none"} : Answers(p, result)
  <2>1. /\ Final(out[p]) \in Codes \ {"none"}
        /\ Final(out[p]) = "SUCCESS" <=> out[p] = "ok"
    BY DEF Final, Codes
  <2> QED BY <1>7, <2>1 DEF Finish, Answers, Testing
<1>8. CASE FirstDone(p)
  <2>1. stage[p] = "done" /\ pam[p] = "first" /\ Still /\ UNCHANGED charged /\ Testing(p)
    BY <1>8 DEF FirstDone, Printed, Testing
  <2>2. CASE out[p] = "incorrect" /\ Prompt(p, Counted(report[p]))
    <3>1. Works /\ Counted(report[p]) \in Reports
      BY <1>1, <2>2 DEF Prompt, Counted, Reports
    <3> QED BY <1>3, <2>1, <2>2, <3>1
  <2>3. CASE Finish(p, Final(out[p]))
    BY <1>7, <2>1, <2>3 DEF Finish
  <2> QED BY <1>8, <2>2, <2>3 DEF FirstDone
<1>9. CASE TestDone(p)
  <2>1. stage[p] = "done" /\ Still /\ UNCHANGED charged /\ Testing(p)
    BY <1>9 DEF TestDone, Printed, Testing
  <2> QED BY <1>7, <1>9, <2>1 DEF TestDone, Finish
<1> QED BY <1>4, <1>5, <1>6, <1>8, <1>9 DEF ModuleStep

-----------------------------------------------------------------------------
(* The invariant is kept: by the module, ...                                *)
LEMMA ModuleKeepsTool ==
  ASSUME PamInv, NEW p \in Procs, Still, Works \/ Fails, stage[p] = "done", ByModule(p)
  PROVE  UtilTypeOK' /\ \A q \in Procs : Charge(q)'
<1>1. TypeOK /\ ToolType /\ cmd[p] \in Commands /\ login[p].uid \in Uids
  BY DEF PamInv, UtilTypeOK, ToolType, LoginType, Requests
<1>2. TypeOK'
  <2>1. Outside /\ Target(p) \in Uids
    BY <1>1 DEF Still, Outside, Target, Commands
  <2> QED BY <1>1, <2>1, StoreTypes
<1>3. Charge(p) /\ at[p] = "idle"
  BY DEF PamInv, Charge, Inside
<1>4. CASE Resting
  BY <1>1, <1>2, <1>4 DEF PamInv, Resting, Still, UtilTypeOK, ToolType, Charge
<1>5. CASE \E kind \in {"status", "test"}, u \in Uids,
              by \in {"root", "owner", "elevated", "other"} : Helper(p, kind, by, u)
  <2>1. PICK kind \in {"status", "test"}, u \in Uids,
             by \in {"root", "owner", "elevated", "other"} : Helper(p, kind, by, u)
    BY <1>5
  <2>2. NoPin \in PinStrings
    BY PinsAssumption DEF NoPin, PinStrings
  <2>3. [kind |-> kind, by |-> by, machine |-> TRUE, uid |-> u] \in Commands
    BY DEF Commands
  <2>4. ToolType'
    BY <1>1, <2>1, <2>2, <2>3 DEF Helper, ToolType, Stages, Outcomes
  <2>5. at' = at /\ res' = res
    BY DEF Still
  <2>6. Charge(p)'
    BY <1>1, <1>3, <2>1, <2>5 DEF Helper, Charge, ToolType
  <2>7. ASSUME NEW q \in Procs, q # p PROVE Charge(q)'
    <3>1. stage'[q] = stage[q] /\ spent'[q] = spent[q]
      BY <1>1, <2>1, <2>7 DEF Helper, ToolType
    <3> QED BY <2>5, <3>1 DEF PamInv, Charge
  <2> QED BY <1>2, <2>4, <2>6, <2>7 DEF UtilTypeOK, ToolType
<1>6. Resting \/ \E kind \in {"status", "test"}, u \in Uids,
                    by \in {"root", "owner", "elevated", "other"} : Helper(p, kind, by, u)
  <2>1. CASE \E u \in Uids : Begins(p, u)
    BY <2>1, PinutilAssumption DEF Begins
  <2>2. CASE \E label \in {"first", "test"}, pin \in Typeable : HandsIn(p, label, pin)
    BY <1>1, <2>2 DEF HandsIn, Commands
  <2> QED BY <2>1, <2>2 DEF ByModule, Refuses, Asks, Answers
<1> QED BY <1>4, <1>5, <1>6

(* What the module does by itself keeps the types, the charge and the flow. *)
LEMMA ModuleKeeps ==
  ASSUME PamInv, NEW p \in Procs, Still, Works \/ Fails, stage[p] = "done", ByModule(p)
  PROVE  PamInv'
<1>1. /\ LoginType /\ ToolType /\ cmd[p] \in Commands /\ login[p] \in Requests /\ Flow(p)
      /\ NoPin \in PinStrings /\ NoReport \in Reports
  BY PinsAssumption DEF PamInv, UtilTypeOK, ToolType, LoginType, NoPin, PinStrings,
                        NoReport, Reports
<1>2. \A u \in Uids : NoRequest(u) \in Requests
  BY <1>1 DEF NoRequest, Requests
<1>3. SUFFICES LoginType' /\ \A q \in Procs : Flow(q)'
  BY ModuleKeepsTool DEF PamInv
<1>4. job' = job
  BY DEF Still
<1>5. ASSUME LoginType', Flow(p)',
             \A q \in Procs \ {p} :
               /\ pam'[q] = pam[q] /\ code'[q] = code[q] /\ given'[q] = given[q]
               /\ hand'[q] = hand[q] /\ login'[q] = login[q]
               /\ stage'[q] = stage[q] /\ cmd'[q] = cmd[q]
      PROVE  LoginType' /\ \A q \in Procs : Flow(q)'
  BY <1>4, <1>5 DEF PamInv, Flow, Testing, Pin, User
<1>6. ASSUME NEW u \in Uids, Begins(p, u)
      PROVE  LoginType' /\ \A q \in Procs : Flow(q)'
  <2>1. PICK by \in Callers, mode \in Modes, token \in Offered :
          /\ Helper(p, "status", by, u)
          /\ login' = [login EXCEPT ![p] = [uid |-> u, mode |-> mode, token |-> token]]
    BY <1>6 DEF Begins
  <2>2. [uid |-> u, mode |-> mode, token |-> token] \in Requests
    BY <1>1, PamAssumption DEF Requests, Offered, Pins
  <2>3. LoginType'
    BY <1>1, <1>6, <2>1, <2>2 DEF Begins, Blank, LoginType, PamStages, Codes
  <2>4. Flow(p)'
    BY <1>1, <1>6, <2>1 DEF Begins, Helper, Blank, LoginType, ToolType, Flow, Testing
  <2> QED BY <1>1, <1>5, <1>6, <2>1, <2>3, <2>4
          DEF Begins, Helper, Blank, LoginType, ToolType
<1>7. ASSUME NEW u \in Uids, NEW result \in Codes, Refuses(p, u, result)
      PROVE  LoginType' /\ \A q \in Procs : Flow(q)'
  <2>1. LoginType'
    BY <1>1, <1>2, <1>7 DEF Refuses, Blank, LoginType, PamStages
  <2>2. Flow(p)'
    BY <1>1, <1>7, TypeablePins DEF Refuses, LoginType, Flow, Testing
  <2> QED BY <1>1, <1>5, <1>7, <2>1, <2>2 DEF Refuses, Blank, LoginType, Resting
<1>8. ASSUME NEW label \in {"first", "test"}, NEW pin \in Typeable, HandsIn(p, label, pin)
      PROVE  LoginType' /\ \A q \in Procs : Flow(q)'
  <2>1. given[p] \in 0..1 /\ (label = "first" => given[p] = 0)
    BY <1>1, <1>8 DEF HandsIn, Flow
  <2>2. LoginType'
    BY <1>1, <1>8, <2>1, TypeablePins DEF HandsIn, Go, LoginType, PamStages, Pins
  <2>3. /\ pam'[p] = label /\ given'[p] = given[p] + 1 /\ hand'[p] = pin
        /\ stage'[p] \in {"open", "done"} /\ cmd'[p].kind = "test"
        /\ cmd'[p].uid = login[p].uid
        /\ login' = login /\ code' = code
    BY <1>1, <1>8 DEF HandsIn, Go, Helper, LoginType, ToolType
  <2>4. code[p] = "none"
    BY <1>1, <1>8 DEF HandsIn, Flow
  <2>5. Flow(p)'
    BY <1>1, <2>1, <2>3, <2>4 DEF Flow, Testing
  <2> QED BY <1>1, <1>5, <1>8, <2>2, <2>5
          DEF HandsIn, Go, Helper, LoginType, ToolType
<1>9. ASSUME NEW said \in Reports, Asks(p, said)
      PROVE  LoginType' /\ \A q \in Procs : Flow(q)'
  <2>1. LoginType'
    BY <1>1, <1>9 DEF Asks, Go, LoginType, PamStages
  <2>2. given[p] \in 0..1 /\ code[p] = "none"
    BY <1>1, <1>9 DEF Asks, Flow
  <2>3. Flow(p)'
    BY <1>1, <1>9, <2>2 DEF Asks, Go, Resting, LoginType, Flow, Testing
  <2> QED BY <1>1, <1>5, <1>9, <2>1, <2>3 DEF Asks, Go, LoginType, Resting
<1>10. ASSUME NEW result \in Codes, Answers(p, result)
       PROVE  LoginType' /\ \A q \in Procs : Flow(q)'
  <2>1. NoRequest(login[p].uid) \in Requests
    BY <1>1, <1>2 DEF Requests
  <2>2. LoginType'
    BY <1>1, <1>10, <2>1 DEF Answers, Answer, LoginType, PamStages
  <2>3. Flow(p)'
    BY <1>1, <1>10, TypeablePins DEF Answers, Answer, LoginType, Flow, Testing
  <2> QED BY <1>1, <1>5, <1>10, <2>2, <2>3 DEF Answers, Answer, LoginType, Resting
<1> QED BY <1>6, <1>7, <1>8, <1>9, <1>10 DEF ByModule

(* ... by its helper as by any command, ...                                 *)
Lone(p) == Open(p) \/ Checked(p) \/ Reopen(p) \/ Removed(p) \/ Stored(p)

OneCommand(p) == HelperLook(p) \/ HelperManagerStep(p) \/ CommandStep(p) \/ KillHelper(p)
                  \/ (Lone(p) /\ UNCHANGED loginVars)

(* A step of a helper, or of a command by another user, keeps what pinutil  *)
(* guarantees of it.                                                        *)
LEMMA CommandKeepsTool ==
  ASSUME PamInv, NEW p \in Procs, OneCommand(p)
  PROVE  UtilTypeOK' /\ \A q \in Procs : Charge(q)'
<1>1. ToolStep(p) \/ UserStep(p) \/ ManagerStep(p) \/ Kill(p)
  BY DEF OneCommand, Lone, HelperLook, HelperManagerStep, CommandStep, KillHelper, ToolStep
<1>2. UtilTypeOK' /\ Charge(p)'
  BY <1>1, CommandTypes, ChargeKept DEF PamInv
<1>3. ASSUME NEW q \in Procs, q # p PROVE Charge(q)'
  BY <1>1, <1>3, OthersStand DEF PamInv, Charge
<1> QED BY <1>2, <1>3

(* ... by the PIN it is fed, ...                                            *)
LEMMA FeedKeepsTool ==
  ASSUME PamInv, NEW p \in Procs, Feed(p)
  PROVE  UtilTypeOK' /\ \A q \in Procs : Charge(q)'
<1>1. TypeOK /\ ToolType /\ Target(p) \in Uids /\ hand[p] \in PinStrings
  BY DEF PamInv, UtilTypeOK, ToolType, LoginType, Target, Commands
<1>2. \/ Invoke(p, "verify", Target(p), hand[p]) /\ Move(p, "checking")
      \/ Outside /\ Fails /\ End(p, "rejected")
  BY DEF Feed
<1>3. TypeOK'
  BY <1>1, <1>2, StoreTypes
<1>4. ToolType'
  <2>1. stage' \in [Procs -> Stages] /\ out' \in [Procs -> Outcomes]
    BY <1>1, <1>2, MoveTypes DEF Stages, Outcomes
  <2> QED BY <1>1, <2>1 DEF Feed, ToolType
<1>5. Charge(p)'
  <2>1. at[p] = "idle" /\ spent[p] = 0 /\ spent' = spent
    BY DEF PamInv, Charge, Feed, Inside
  <2> QED BY <1>1, <1>2, <2>1
          DEF Invoke, Outside, Move, End, Charge, Inside, TypeOK, ToolType
<1>6. ASSUME NEW q \in Procs, q # p PROVE Charge(q)'
  <2>1. /\ at'[q] = at[q] /\ res'[q] = res[q] /\ stage'[q] = stage[q]
        /\ spent'[q] = spent[q]
    BY <1>1, <1>2, <1>6 DEF Invoke, Outside, Move, End, Feed, TypeOK, ToolType
  <2> QED BY <2>1 DEF PamInv, Charge
<1> QED BY <1>3, <1>4, <1>5, <1>6 DEF UtilTypeOK, ToolType

(* ... so that the module knows what its helper is doing.                   *)
LEMMA HelperLoginTypes ==
  ASSUME PamInv, NEW p \in Procs, OneCommand(p) \/ Feed(p)
  PROVE  LoginType'
<1>1. LoginType /\ UtilTypeOK /\ NoPin \in PinStrings /\ NoReport \in Reports
  BY PinsAssumption DEF PamInv, NoPin, PinStrings, NoReport, Reports
<1>2. CASE UNCHANGED loginVars
  BY <1>1, <1>2 DEF loginVars, LoginType
<1>3. CASE HelperLook(p)
  <2>1. slot[Target(p)] \in Slots
    BY <1>1 DEF UtilTypeOK, TypeOK, Target, Commands
  <2>2. Info(slot[Target(p)]) \in Reports
    BY <1>1, <2>1 DEF Info, Reports, Slots
  <2> QED BY <1>1, <1>3, <2>2 DEF HelperLook, LoginType
<1>4. CASE HelperManagerStep(p)
  BY <1>1, <1>4 DEF HelperManagerStep, LoginType
<1>5. CASE CommandStep(p)
  BY <1>1, <1>5 DEF CommandStep, Blank, LoginType, Codes
<1> QED BY <1>2, <1>3, <1>4, <1>5 DEF OneCommand, KillHelper, Feed

(* A helper does not change what its login handed to it.                    *)
LEMMA HelperFlow ==
  ASSUME PamInv, NEW p \in Procs, OneCommand(p) \/ Feed(p)
  PROVE  Flow(p)'
<1>1. LoginType /\ UtilTypeOK /\ Flow(p) /\ Charge(p)
  BY DEF PamInv
<1>2. /\ stage \in [Procs -> Stages] /\ job \in [Procs -> Jobs]
      /\ out \in [Procs -> Outcomes]
  BY <1>1 DEF UtilTypeOK, TypeOK
<1>3. CASE CommandStep(p)
  BY <1>1, <1>3 DEF CommandStep, Blank, Flow, Testing
<1>4. CASE Feed(p)
  <2>1. UNCHANGED <<cmd, pam, login, hand, given, code>>
    BY <1>4 DEF Feed, loginVars
  <2>2. /\ stage'[p] \in {"checking", "done"}
        /\ stage'[p] = "checking" =>
             job'[p] = [op |-> "verify", uid |-> Target(p), pin |-> hand[p]]
    BY <1>2, <1>4 DEF Feed, Invoke, Move, End
  <2> QED BY <1>1, <1>4, <2>1, <2>2 DEF Feed, Flow, Testing, Pin, User, Target
<1>5. ASSUME NEW label \in {"open", "look", "old_pin", "done"},
             stage'[p] = label, UNCHANGED <<cmd, pam, login, hand, given, code>>,
             pam[p] = "status" => label \in {"look", "done"},
             pam[p] # "idle" => stage[p] # "done"
      PROVE  Flow(p)'
  BY <1>1, <1>5 DEF Flow, Testing
<1>6. CASE KillHelper(p)
  BY <1>2, <1>5, <1>6 DEF KillHelper, Kill, End, loginVars
<1>7. CASE HelperManagerStep(p)
  <2>1. UNCHANGED <<cmd, stage, job, pam, login, hand, given, code>>
    BY <1>7, StepFrame DEF HelperManagerStep, ManagerStep
  <2> QED BY <1>1, <2>1 DEF Flow, Testing, Pin, User
<1>8. CASE HelperLook(p)
  <2>1. UNCHANGED <<cmd, pam, login, hand, given, code>> /\ stage[p] = "look"
    BY <1>8 DEF HelperLook, Look
  <2>2. CASE pam[p] = "idle"
    BY <1>1, <2>1, <2>2 DEF Flow, Testing
  <2>3. CASE pam[p] = "status"
    BY <1>1, <1>2, <1>5, <1>8, <2>1, <2>3 DEF Flow, HelperLook, Look, End
  <2>4. CASE Testing(p)
    <3>1. cmd[p].kind = "test"
      BY <1>1, <2>4 DEF Flow
    <3>2. stage'[p] \in {"old_pin", "done"}
      BY <1>2, <1>8, <2>1, <3>1 DEF HelperLook, Look, AfterLook, End, Move
    <3> QED BY <1>5, <2>1, <2>4, <3>2 DEF Testing
  <2> QED BY <1>1, <2>1, <2>2, <2>3, <2>4 DEF Flow, LoginType, PamStages, Testing
<1>9. CASE Lone(p) /\ UNCHANGED loginVars
  <2>1. UNCHANGED <<cmd, pam, login, hand, given, code>>
    BY <1>9 DEF Lone, Open, Checked, Reopen, Removed, Stored, loginVars
  <2>2. CASE pam[p] = "idle"
    BY <1>1, <2>1, <2>2 DEF Flow, Testing
  <2>3. CASE Open(p)
    BY <1>2, <1>5, <2>1, <2>3 DEF Open, Move, End
  <2>4. CASE Checked(p) /\ pam[p] # "idle"
    <3>1. cmd[p].kind = "test" /\ Testing(p)
      BY <1>1, <2>4 DEF Flow, Checked, Back, LoginType, PamStages, Testing
    <3>2. stage'[p] = "done"
      BY <1>2, <2>4, <3>1 DEF Checked, End
    <3> QED BY <1>5, <2>1, <2>4, <3>1, <3>2 DEF Checked, Back, Testing
  <2>5. pam[p] # "idle" => ~(Reopen(p) \/ Removed(p) \/ Stored(p))
    BY <1>1 DEF Flow, Reopen, Removed, Stored, Back, LoginType, PamStages, Testing
  <2> QED BY <1>9, <2>2, <2>3, <2>4, <2>5 DEF Lone
<1> QED BY <1>3, <1>4, <1>6, <1>7, <1>8, <1>9 DEF OneCommand

(* A step of one process changes nothing of another's login or helper.      *)
LEMMA OtherLogins ==
  ASSUME PamInv, NEW p \in Procs, NEW q \in Procs, q # p, OneCommand(p) \/ Feed(p)
  PROVE  /\ at'[q] = at[q] /\ phase'[q] = phase[q] /\ job'[q] = job[q] /\ res'[q] = res[q]
         /\ cmd'[q] = cmd[q] /\ stage'[q] = stage[q] /\ out'[q] = out[q]
         /\ fresh'[q] = fresh[q]
         /\ pam'[q] = pam[q] /\ login'[q] = login[q] /\ hand'[q] = hand[q]
         /\ given'[q] = given[q] /\ charged'[q] = charged[q] /\ code'[q] = code[q]
<1>1. LoginType /\ UtilTypeOK
  BY DEF PamInv
<1>2. /\ at'[q] = at[q] /\ phase'[q] = phase[q] /\ job'[q] = job[q] /\ res'[q] = res[q]
      /\ cmd'[q] = cmd[q] /\ stage'[q] = stage[q] /\ out'[q] = out[q]
      /\ fresh'[q] = fresh[q]
  <2>1. CASE Feed(p)
    BY <1>1, <2>1 DEF Feed, Invoke, Outside, Move, End, UtilTypeOK, TypeOK
  <2>2. CASE ToolStep(p) \/ UserStep(p) \/ ManagerStep(p) \/ Kill(p)
    BY <1>1, <2>2, OthersStand
  <2> QED BY <2>1, <2>2 DEF OneCommand, Lone, HelperLook, HelperManagerStep,
                            CommandStep, KillHelper, ToolStep
<1>3. /\ pam'[q] = pam[q] /\ login'[q] = login[q] /\ hand'[q] = hand[q]
      /\ given'[q] = given[q] /\ charged'[q] = charged[q] /\ code'[q] = code[q]
  <2>1. CASE UNCHANGED loginVars
    BY <2>1 DEF loginVars
  <2>2. CASE HelperLook(p) \/ HelperManagerStep(p)
    BY <1>1, <2>2 DEF HelperLook, HelperManagerStep, LoginType
  <2>3. CASE CommandStep(p)
    BY <1>1, <2>3 DEF CommandStep, Blank, LoginType
  <2> QED BY <2>1, <2>2, <2>3 DEF OneCommand, KillHelper, Feed
<1> QED BY <1>2, <1>3

(* Initially the types, the charge and the flow are as they should be.      *)
LEMMA PamInvInit == PamInit => PamInv
<1> SUFFICES ASSUME PamInit PROVE PamInv
  OBVIOUS
<1>1. CommandInv
  BY CommandInvInit DEF PamInit
<1>2. NoPin \in PinStrings /\ NoReport \in Reports
  BY PinsAssumption DEF NoPin, PinStrings, NoReport, Reports
<1>3. \A u \in Uids : NoRequest(u) \in Requests
  BY <1>2 DEF NoRequest, Requests
<1>4. LoginType
  BY <1>2, <1>3 DEF PamInit, LoginType, PamStages, Codes
<1>5. \A p \in Procs : Flow(p)
  BY TypeablePins DEF PamInit, Flow, Testing
<1> QED BY <1>1, <1>4, <1>5 DEF CommandInv, PamInv

(* What a step of the whole is.                                             *)
LEMMA PamSteps ==
  ASSUME NEW p \in Procs,
         \/ Authenticate(p) \/ Type(p) \/ ModuleStep(p)
         \/ HelperStep(p) \/ CommandStep(p) \/ KillHelper(p)
  PROVE  Authenticate(p) \/ Type(p) \/ ModuleStep(p) \/ OneCommand(p) \/ Feed(p)
BY DEF HelperStep, OneCommand, Lone

(* Every step keeps them.                                                   *)
LEMMA PamInvNext == PamInv /\ [PamNext]_pamVars => PamInv'
<1> SUFFICES ASSUME PamInv, [PamNext]_pamVars PROVE PamInv'
  OBVIOUS
<1>1. ASSUME NEW p \in Procs, Authenticate(p) \/ Type(p) \/ ModuleStep(p)
      PROVE  PamInv'
  BY <1>1, ModuleDoes, ModuleKeeps
<1>2. ASSUME NEW p \in Procs, OneCommand(p) \/ Feed(p)
      PROVE  PamInv'
  <2>1. UtilTypeOK' /\ \A q \in Procs : Charge(q)'
    BY <1>2, CommandKeepsTool, FeedKeepsTool
  <2>2. LoginType' /\ Flow(p)'
    BY <1>2, HelperLoginTypes, HelperFlow
  <2>3. ASSUME NEW q \in Procs, q # p PROVE Flow(q)'
    BY <1>2, <2>3, OtherLogins DEF PamInv, Flow, Testing, Pin, User
  <2> QED BY <2>1, <2>2, <2>3 DEF PamInv
<1>3. CASE UNCHANGED pamVars
  BY <1>3 DEF pamVars, PamInv, UtilTypeOK, TypeOK, LoginType, Charge, Flow, Testing,
              Pin, User
<1> QED BY <1>1, <1>2, <1>3, PamSteps DEF PamNext

(* Every variable of the logins, of the commands and of the PIN store keeps *)
(* its type; in particular no login is handed more than two PINs.           *)
THEOREM LoginsTyped == PamSpec => []PamTypeOK
<1>1. PamInv => PamTypeOK
  BY DEF PamInv, LoginType, PamTypeOK
<1> QED BY <1>1, PamInvInit, PamInvNext, PTL DEF PamSpec

(* While logins and commands run beside each other, no helper and no        *)
(* command costs its user more than one attempt.                            *)
THEOREM HelpersCostOneAttempt == PamSpec => []AtMostOneAttempt
<1>1. PamInv => AtMostOneAttempt
  BY DEF PamInv, UtilTypeOK, Charge, AtMostOneAttempt
<1> QED BY <1>1, PamInvInit, PamInvNext, PTL DEF PamSpec

-----------------------------------------------------------------------------
(***************************************************************************)
(* The logins implement Login.  The map forgets everything about a helper   *)
(* but whether a PIN is still to be compared and whether the last one       *)
(* matched; both follow from where the helper stands.                       *)
(***************************************************************************)

(* Nothing of another login or helper changes.                              *)
Apart(p) ==
  \A q \in Procs \ {p} :
    /\ at'[q] = at[q] /\ res'[q] = res[q] /\ stage'[q] = stage[q] /\ out'[q] = out[q]
    /\ pam'[q] = pam[q] /\ login'[q] = login[q] /\ hand'[q] = hand[q]
    /\ given'[q] = given[q] /\ charged'[q] = charged[q] /\ code'[q] = code[q]

(* A step of one login's module touches no other login.                     *)
LEMMA ModuleApart ==
  ASSUME PamInv, NEW p \in Procs, Still, ByModule(p)
  PROVE  Apart(p)
<1>1. LoginType /\ ToolType
  BY DEF PamInv, UtilTypeOK, ToolType
<1>2. ASSUME NEW q \in Procs \ {p}
      PROVE  /\ stage'[q] = stage[q] /\ out'[q] = out[q]
             /\ pam'[q] = pam[q] /\ login'[q] = login[q] /\ hand'[q] = hand[q]
             /\ given'[q] = given[q] /\ charged'[q] = charged[q] /\ code'[q] = code[q]
  <2>1. CASE \E u \in Uids : Begins(p, u)
    BY <1>1, <1>2, <2>1 DEF Begins, Helper, Blank, LoginType, ToolType
  <2>2. CASE \E u \in Uids, result \in Codes \ {"none", "SUCCESS"} : Refuses(p, u, result)
    BY <1>1, <1>2, <2>2 DEF Refuses, Resting, Blank, LoginType, ToolType
  <2>3. CASE \E label \in {"first", "test"}, pin \in Typeable : HandsIn(p, label, pin)
    BY <1>1, <1>2, <2>3 DEF HandsIn, Helper, Go, LoginType, ToolType
  <2>4. CASE \E said \in Reports : Asks(p, said)
    BY <1>1, <1>2, <2>4 DEF Asks, Resting, Go, LoginType, ToolType
  <2>5. CASE \E result \in Codes \ {"none"} : Answers(p, result)
    BY <1>1, <1>2, <2>5 DEF Answers, Resting, Answer, LoginType, ToolType
  <2> QED BY <2>1, <2>2, <2>3, <2>4, <2>5 DEF ByModule
<1> QED BY <1>2 DEF Apart, Still

(* A step of one login's helper touches no other login.                     *)
LEMMA HelperApart ==
  ASSUME PamInv, NEW p \in Procs, OneCommand(p) \/ Feed(p)
  PROVE  Apart(p)
BY OtherLogins DEF Apart

(* A login as the map shows it.                                             *)
Shown(u, h, g, m, c, r) ==
  [uid |-> u, hand |-> h, given |-> g, verdict |-> m, charged |-> c, code |-> r]

(* What changing one field of what a login shows amounts to.                *)
LEMMA ShownWith ==
  ASSUME NEW u, NEW h, NEW g, NEW m, NEW c, NEW r, NEW x
  PROVE  /\ [Shown(u, h, g, m, c, r) EXCEPT !.hand = x] = Shown(u, x, g, m, c, r)
         /\ [Shown(u, h, g, m, c, r) EXCEPT !.given = x] = Shown(u, h, x, m, c, r)
         /\ [Shown(u, h, g, m, c, r) EXCEPT !.verdict = x] = Shown(u, h, g, x, c, r)
         /\ [Shown(u, h, g, m, c, r) EXCEPT !.charged = x] = Shown(u, h, g, m, x, r)
         /\ [Shown(u, h, g, m, c, r) EXCEPT !.code = x] = Shown(u, h, g, m, c, x)
         /\ Shown(u, h, g, m, c, r).given = g
         /\ Shown(u, h, g, m, c, r).charged = c
BY DEF Shown

(* What the abstraction shows of a login.                                   *)
LEMMA MapAt ==
  ASSUME NEW p \in Procs, NEW h, h = IF InHand(p) THEN hand[p] ELSE NoPin,
         NEW m, m = IF Matched(p) THEN "match" ELSE "none"
  PROVE  loginMap[p] = Shown(login[p].uid, h, given[p], m, charged[p], code[p])
BY DEF loginMap, Shown, Matched

(* What it shows of the login that took a step.                             *)
LEMMA MapBecomes ==
  ASSUME NEW p \in Procs, Apart(p),
         NEW h, h = IF InHand(p)' THEN hand'[p] ELSE NoPin,
         NEW m, m = IF Matched(p)' THEN "match" ELSE "none"
  PROVE  loginMap' = [loginMap EXCEPT ![p] =
           Shown(login'[p].uid, h, given'[p], m, charged'[p], code'[p])]
<1>1. ASSUME NEW q \in Procs, q # p PROVE loginMap'[q] = loginMap[q]
  BY <1>1 DEF Apart, loginMap, InHand, Matched, Testing
<1>2. loginMap'[p] = Shown(login'[p].uid, h, given'[p], m, charged'[p], code'[p])
  BY DEF loginMap, Shown, Matched
<1>3. loginMap = [q \in Procs |-> loginMap[q]] /\ loginMap' = [q \in Procs |-> loginMap'[q]]
  BY DEF loginMap
<1> QED BY <1>1, <1>2, <1>3

(* The stored PINs are those of the slots, and types.                       *)
LEMMA StoredType ==
  ASSUME TypeOK
  PROVE  storedMap \in [Uids -> PinStrings]
BY PinsAssumption DEF TypeOK, Slots, storedMap, NoPin, PinStrings

(* What the map shows of a login stays, or only its PIN is lost.            *)
SameLogin(p) == /\ login'[p].uid = login[p].uid /\ given'[p] = given[p]
                /\ charged'[p] = charged[p] /\ code'[p] = code[p]

SameHand(p) == InHand(p)' <=> InHand(p)

(* A step that changes nothing of what a login shows is no step of the      *)
(* abstract login.                                                          *)
LEMMA ToStutter ==
  ASSUME NEW p \in Procs, Apart(p), SameLogin(p), SameHand(p), hand'[p] = hand[p],
         Matched(p)' <=> Matched(p)
  PROVE  loginMap' = loginMap
<1>1. PICK h : h = IF InHand(p) THEN hand[p] ELSE NoPin
  OBVIOUS
<1>2. PICK m : m = IF Matched(p) THEN "match" ELSE "none"
  OBVIOUS
<1>3. h = IF InHand(p)' THEN hand'[p] ELSE NoPin
  BY <1>1 DEF SameHand
<1>4. loginMap[p] = Shown(login[p].uid, h, given[p], m, charged[p], code[p])
  BY <1>1, <1>2, MapAt
<1>5. loginMap' = [loginMap EXCEPT ![p] =
        Shown(login'[p].uid, h, given'[p], m, charged'[p], code'[p])]
  BY <1>2, <1>3, MapBecomes
<1>6. loginMap' = [loginMap EXCEPT ![p] = loginMap[p]]
  BY <1>4, <1>5 DEF SameLogin
<1> QED BY <1>6 DEF loginMap

(* Losing what was typed is one.                                            *)
LEMMA ToFumble ==
  ASSUME NEW p \in Procs, Apart(p), SameLogin(p), ~InHand(p)', ~Matched(p)',
         UNCHANGED storedMap
  PROVE  Abstract!Fumble(p)
<1>1. PICK h : h = IF InHand(p) THEN hand[p] ELSE NoPin
  OBVIOUS
<1>2. PICK m : m = IF Matched(p) THEN "match" ELSE "none"
  OBVIOUS
<1>3. loginMap[p] = Shown(login[p].uid, h, given[p], m, charged[p], code[p])
  BY <1>1, <1>2, MapAt
<1>4. loginMap' = [loginMap EXCEPT ![p] =
        Shown(login'[p].uid, NoPin, given'[p], "none", charged'[p], code'[p])]
  BY MapBecomes
<1>5. Shown(login'[p].uid, NoPin, given'[p], "none", charged'[p], code'[p]) =
        [loginMap[p] EXCEPT !.hand = NoPin, !.verdict = "none"]
  <2>1. PICK t : t = Shown(login[p].uid, NoPin, given[p], m, charged[p], code[p])
    OBVIOUS
  <2>2. [loginMap[p] EXCEPT !.hand = NoPin] = t
    BY <1>3, <2>1, ShownWith
  <2>3. [t EXCEPT !.verdict = "none"] =
          Shown(login[p].uid, NoPin, given[p], "none", charged[p], code[p])
    BY <2>1 DEF Shown
  <2> QED BY <2>2, <2>3 DEF SameLogin
<1> QED BY <1>4, <1>5 DEF Abstract!Fumble, Abstract!Become, Abstract!NoPin, NoPin

(* While no login of p runs, its commands may manage the PIN.               *)
LEMMA ToManage ==
  ASSUME UtilTypeOK', UNCHANGED loginMap
  PROVE  Abstract!Manage
<1>1. storedMap' \in [Uids -> PinStrings]
  BY PinsAssumption DEF UtilTypeOK, TypeOK, Slots, storedMap, NoPin, PinStrings
<1> QED BY <1>1 DEF Abstract!Manage, Abstract!PinStrings, PinStrings

(* The stored PINs of the abstraction are those of the slots.               *)
LEMMA SlotStands ==
  ASSUME UNCHANGED slot
  PROVE  UNCHANGED storedMap
BY DEF storedMap

(* A login begins, is refused, or gives way to a command.                   *)
LEMMA ToBegin ==
  ASSUME PamInv, NEW p \in Procs, Apart(p), UNCHANGED slot, LoginType',
         NEW r \in Codes \ {"SUCCESS"}, code'[p] = r, ~Testing(p)',
         given'[p] = 0, charged'[p] = 0
  PROVE  Abstract!Begin(p)
<1>1. ~InHand(p)' /\ ~Matched(p)'
  BY DEF InHand, Matched
<1>2. login'[p].uid \in Uids
  BY DEF LoginType, Requests
<1>3. loginMap' = [loginMap EXCEPT ![p] = Shown(login'[p].uid, NoPin, 0, "none", 0, r)]
  BY <1>1, MapBecomes
<1>4. Shown(login'[p].uid, NoPin, 0, "none", 0, r) =
        [Abstract!Fresh(login'[p].uid) EXCEPT !.code = r]
  <2>1. Abstract!Fresh(login'[p].uid) = Shown(login'[p].uid, NoPin, 0, "none", 0, "none")
    BY DEF Shown, Abstract!Fresh, Abstract!NoPin, NoPin
  <2>2. PICK fresh0 : fresh0 = Shown(login'[p].uid, NoPin, 0, "none", 0, "none")
    OBVIOUS
  <2>3. [fresh0 EXCEPT !.code = r] = Shown(login'[p].uid, NoPin, 0, "none", 0, r)
    BY <2>2 DEF Shown
  <2> QED BY <2>1, <2>2, <2>3
<1>5. Abstract!Become(p, [Abstract!Fresh(login'[p].uid) EXCEPT !.code = r])
  BY <1>3, <1>4 DEF Abstract!Become
<1> QED BY <1>2, <1>5, SlotStands DEF Abstract!Begin, Abstract!Codes, Codes

(* Handing a PIN to a helper is the Supply of the abstract login.           *)
LEMMA ToSupply ==
  ASSUME PamInv, NEW p \in Procs, Apart(p), Still,
         NEW label \in {"first", "test"}, NEW pin \in Typeable, HandsIn(p, label, pin)
  PROVE  Abstract!Supply(p)
<1>1. LoginType /\ ToolType /\ Flow(p)
  BY DEF PamInv, UtilTypeOK, ToolType
<1>2. /\ code[p] = "none" /\ ~Testing(p) /\ given[p] < 2 /\ given[p] \in Nat
  BY <1>1 DEF Flow, HandsIn, Testing
<1>3. /\ pam'[p] = label /\ given'[p] = given[p] + 1 /\ hand'[p] = pin
      /\ stage'[p] = "open" \/ (stage'[p] = "done" /\ out'[p] = "denied")
      /\ login' = login /\ code' = code /\ charged' = charged
  BY <1>1 DEF HandsIn, Go, Helper, LoginType, ToolType
<1>4. ~InHand(p) /\ ~Matched(p) /\ ~Matched(p)'
  BY <1>2, <1>3 DEF InHand, Matched, Testing
<1>5. PICK h \in Pins \cup {NoPin} : h = IF InHand(p)' THEN hand'[p] ELSE NoPin
  BY <1>3, TypeablePins
<1>6. loginMap[p] = Shown(login[p].uid, NoPin, given[p], "none", charged[p], code[p])
  BY <1>4, MapAt
<1>7. loginMap' = [loginMap EXCEPT ![p] =
        Shown(login'[p].uid, h, given'[p], "none", charged'[p], code'[p])]
  BY <1>4, <1>5, MapBecomes
<1>8. Shown(login'[p].uid, h, given'[p], "none", charged'[p], code'[p]) =
        [loginMap[p] EXCEPT !.hand = h, !.given = @ + 1]
  <2>1. PICK t : t = Shown(login[p].uid, h, given[p], "none", charged[p], code[p])
    OBVIOUS
  <2>2. [loginMap[p] EXCEPT !.hand = h] = t
    BY <1>6, <2>1, ShownWith
  <2>3. [t EXCEPT !.given = @ + 1] =
          Shown(login[p].uid, h, given[p] + 1, "none", charged[p], code[p])
    BY <2>1, ShownWith
  <2> QED BY <1>3, <2>2, <2>3
<1>9. loginMap[p].code = "none" /\ loginMap[p].given < 2
  BY <1>2, <1>6 DEF Shown
<1> QED BY <1>5, <1>7, <1>8, <1>9, SlotStands
        DEF Abstract!Supply, Abstract!Become, Abstract!Pins, Abstract!PinStrings,
            Abstract!NoPin, Pins, PinStrings, NoPin, Still

(* Returning a code is its Answer.                                          *)
LEMMA ToAnswer ==
  ASSUME PamInv, NEW p \in Procs, Apart(p), Still, stage[p] = "done",
         NEW result \in Codes \ {"none"}, Answers(p, result)
  PROVE  Abstract!Answer(p)
<1>1. LoginType /\ Flow(p) /\ code[p] = "none"
  BY DEF PamInv, Flow, Answers
<1>2. /\ pam'[p] = "idle" /\ code'[p] = result /\ login'[p].uid = login[p].uid
      /\ given' = given /\ hand' = hand /\ charged' = charged
  BY <1>1 DEF Answers, Answer, LoginType, NoRequest
<1>3. ~InHand(p) /\ ~InHand(p)'
  BY <1>2 DEF InHand, Testing
<1>4. PICK m : m = IF result = "SUCCESS" THEN "match" ELSE "none"
  OBVIOUS
<1>5. (Matched(p) <=> result = "SUCCESS") /\ (Matched(p)' <=> result = "SUCCESS")
  BY <1>1, <1>2, <1>4 DEF Answers, Matched, Testing
<1>6. loginMap[p] = Shown(login[p].uid, NoPin, given[p], m, charged[p], code[p])
  BY <1>3, <1>4, <1>5, MapAt
<1>7. loginMap' = [loginMap EXCEPT ![p] =
        Shown(login'[p].uid, NoPin, given'[p], m, charged'[p], code'[p])]
  BY <1>3, <1>4, <1>5, MapBecomes
<1>8. Shown(login'[p].uid, NoPin, given'[p], m, charged'[p], code'[p]) =
        [loginMap[p] EXCEPT !.code = result]
  <2>1. [loginMap[p] EXCEPT !.code = result] =
          Shown(login[p].uid, NoPin, given[p], m, charged[p], result)
    BY <1>6 DEF Shown
  <2> QED BY <1>2, <2>1
<1>9. loginMap[p].hand = NoPin /\ (result = "SUCCESS" => loginMap[p].verdict = "match")
  BY <1>4, <1>6 DEF Shown
<1> QED BY <1>7, <1>8, <1>9, SlotStands
        DEF Abstract!Answer, Abstract!Become, Abstract!Codes, Codes,
            Abstract!NoPin, NoPin, Still

(* The module's own steps.                                                  *)
LEMMA ModuleImplements ==
  ASSUME PamInv, NEW p \in Procs, Still, Works \/ Fails, stage[p] = "done", ByModule(p)
  PROVE  [Abstract!Next]_<<storedMap, loginMap>>
<1>1. Apart(p) /\ LoginType /\ LoginType' /\ Flow(p) /\ UNCHANGED slot
  BY ModuleApart, ModuleKeeps DEF PamInv, Still
<1>2. ASSUME Abstract!Begin(p) \/ Abstract!Supply(p) \/ Abstract!Answer(p)
      PROVE  [Abstract!Next]_<<storedMap, loginMap>>
  BY <1>2 DEF Abstract!Next
<1>3. CASE \E u \in Uids : Begins(p, u)
  <2>1. PICK u \in Uids : Begins(p, u)
    BY <1>3
  <2>2. code'[p] = "none" /\ ~Testing(p)' /\ given'[p] = 0 /\ charged'[p] = 0
    BY <1>1, <2>1 DEF Begins, Blank, LoginType, Testing
  <2> QED BY <1>1, <1>2, <2>2, ToBegin DEF Codes
<1>4. CASE \E u \in Uids, result \in Codes \ {"none", "SUCCESS"} : Refuses(p, u, result)
  <2>1. PICK u \in Uids, result \in Codes \ {"none", "SUCCESS"} : Refuses(p, u, result)
    BY <1>4
  <2>2. code'[p] = result /\ ~Testing(p)' /\ given'[p] = 0 /\ charged'[p] = 0
    BY <1>1, <2>1 DEF Refuses, Blank, LoginType, Testing
  <2> QED BY <1>1, <1>2, <2>2, ToBegin
<1>5. CASE \E label \in {"first", "test"}, pin \in Typeable : HandsIn(p, label, pin)
  BY <1>1, <1>2, <1>5, ToSupply
<1>6. CASE \E said \in Reports : Asks(p, said)
  <2>1. PICK said \in Reports : Asks(p, said)
    BY <1>6
  <2>2. /\ pam'[p] = "prompt" /\ stage' = stage /\ code[p] = "none"
        /\ UNCHANGED <<login, given, charged, code, hand>>
    BY <1>1, <2>1 DEF Asks, Go, Resting, LoginType, Flow
  <2>3. ~InHand(p) /\ ~InHand(p)' /\ ~Matched(p) /\ ~Matched(p)'
    BY <2>1, <2>2 DEF InHand, Matched, Testing, Asks
  <2>4. loginMap' = loginMap
    BY <1>1, <2>2, <2>3, ToStutter DEF SameLogin, SameHand
  <2> QED BY <1>1, <2>4, SlotStands
<1>7. CASE \E result \in Codes \ {"none"} : Answers(p, result)
  BY <1>1, <1>2, <1>7, ToAnswer
<1> QED BY <1>3, <1>4, <1>5, <1>6, <1>7 DEF ByModule

(* A step that neither compares nor changes what is stored.                 *)
LEMMA Settles ==
  ASSUME NEW p \in Procs, Apart(p), SameLogin(p), hand'[p] = hand[p], UNCHANGED storedMap,
         \/ SameHand(p) /\ (Matched(p)' <=> Matched(p))
         \/ ~InHand(p)' /\ ~Matched(p)'
  PROVE  [Abstract!Next]_<<storedMap, loginMap>>
BY ToStutter, ToFumble DEF Abstract!Next

(* While no PIN is being tested, a helper or a command changes nothing of   *)
(* the login.                                                               *)
LEMMA Untested ==
  ASSUME PamInv, NEW p \in Procs, OneCommand(p), ~CommandStep(p), ~Testing(p)
  PROVE  [Abstract!Next]_<<storedMap, loginMap>>
<1>1. LoginType /\ Flow(p) /\ Charge(p) /\ Apart(p) /\ UtilTypeOK'
  BY HelperApart, CommandKeepsTool DEF PamInv
<1>2. UNCHANGED <<pam, login, hand, given, charged, code>>
  <2>1. CASE HelperManagerStep(p)
    <3>1. stage[p] \in Inside
      BY <1>1, <2>1, InACall DEF HelperManagerStep, ManagerStep, Charge
    <3>2. pam[p] = "idle"
      BY <1>1, <3>1 DEF Flow, Testing, Inside, LoginType, PamStages
    <3> QED BY <2>1, <3>2 DEF HelperManagerStep
  <2>2. CASE HelperLook(p)
    <3>1. UNCHANGED <<pam, login, hand, given, charged, code>>
      BY <2>2 DEF HelperLook
    <3> QED BY <3>1
  <2>3. CASE UNCHANGED loginVars
    BY <2>3 DEF loginVars
  <2> QED BY <2>1, <2>2, <2>3 DEF OneCommand, KillHelper
<1>3. SameLogin(p) /\ SameHand(p) /\ (Matched(p)' <=> Matched(p))
  BY <1>2 DEF SameLogin, SameHand, InHand, Matched, Testing
<1>4. UNCHANGED loginMap
  BY <1>1, <1>2, <1>3, ToStutter
<1> QED BY <1>1, <1>4, ToManage DEF Abstract!Next

(* A command that a process runs between two logins.                        *)
LEMMA BetweenLogins ==
  ASSUME PamInv, NEW p \in Procs, CommandStep(p)
  PROVE  [Abstract!Next]_<<storedMap, loginMap>>
<1>1. OneCommand(p) /\ LoginType
  BY DEF OneCommand, PamInv
<1>2. Apart(p) /\ LoginType'
  BY <1>1, HelperApart, HelperLoginTypes
<1>3. UNCHANGED slot
  BY DEF CommandStep, UserStep, Start, Confirm, EnterOld, EnterNew, Outside, Invoke
<1>4. code'[p] = "none" /\ ~Testing(p)' /\ given'[p] = 0 /\ charged'[p] = 0
  BY <1>1 DEF CommandStep, Blank, LoginType, Testing
<1>5. Abstract!Begin(p)
  BY <1>2, <1>3, <1>4, ToBegin DEF Codes
<1> QED BY <1>5 DEF Abstract!Next

(* A helper that tests a PIN, outside PinManager.                           *)
LEMMA TestedOutside ==
  ASSUME PamInv, NEW p \in Procs, Testing(p),
         \/ HelperLook(p) \/ Feed(p) \/ KillHelper(p)
         \/ Lone(p) /\ UNCHANGED loginVars
  PROVE  [Abstract!Next]_<<storedMap, loginMap>>
<1>1. /\ LoginType /\ Flow(p) /\ Charge(p) /\ Apart(p) /\ code[p] = "none"
      /\ cmd[p].kind = "test"
  BY HelperApart DEF PamInv, OneCommand, Flow, Testing
<1>2. /\ stage \in [Procs -> Stages] /\ out \in [Procs -> Outcomes]
      /\ at \in [Procs -> Labels]
  BY DEF PamInv, UtilTypeOK, TypeOK
<1>3. UNCHANGED <<pam, login, hand, given, charged, code>>
  <2>1. CASE HelperLook(p)
    BY <2>1 DEF HelperLook
  <2>2. CASE UNCHANGED loginVars
    BY <2>2 DEF loginVars
  <2> QED BY <2>1, <2>2 DEF KillHelper, Feed
<1>4. UNCHANGED slot
  BY DEF HelperLook, Look, Feed, Invoke, Outside, KillHelper, Kill, Lone, Open,
         Checked, Reopen, Removed, Stored
<1>5. SameLogin(p) /\ hand'[p] = hand[p] /\ UNCHANGED storedMap
  BY <1>3, <1>4, SlotStands DEF SameLogin
<1>6. \/ SameHand(p) /\ (Matched(p)' <=> Matched(p))
      \/ ~InHand(p)' /\ ~Matched(p)'
  <2>1. ASSUME stage'[p] = "done", out'[p] # "ok"
        PROVE  ~InHand(p)' /\ ~Matched(p)'
    BY <1>1, <1>3, <2>1 DEF InHand, Matched, Testing
  <2>2. ASSUME stage[p] \in {"open", "look", "old_pin"},
               stage'[p] \in {"open", "look", "old_pin"}
        PROVE  SameHand(p) /\ (Matched(p)' <=> Matched(p))
    BY <1>1, <1>3, <2>2 DEF SameHand, InHand, Matched, Testing
  <2>3. CASE HelperLook(p)
    <3>1. \/ stage'[p] = "done" /\ out'[p] # "ok"
          \/ stage[p] = "look" /\ stage'[p] = "old_pin"
      BY <1>1, <1>2, <2>3 DEF HelperLook, Look, AfterLook, End, Move
    <3> QED BY <2>1, <2>2, <3>1
  <2>4. CASE Open(p)
    <3>1. \/ stage'[p] = "done" /\ out'[p] # "ok"
          \/ stage[p] = "open" /\ stage'[p] = "look"
      BY <1>1, <1>2, <2>4 DEF Open, End, Move
    <3> QED BY <2>1, <2>2, <3>1
  <2>5. CASE KillHelper(p)
    BY <1>2, <2>1, <2>5 DEF KillHelper, Kill, End
  <2>6. CASE Feed(p)
    <3>1. CASE Invoke(p, "verify", Target(p), hand[p]) /\ Move(p, "checking")
      <4>1. stage'[p] = "checking" /\ at'[p] = "verify_tag" /\ stage[p] = "old_pin"
        BY <1>2, <2>6, <3>1 DEF Invoke, EntryLabel, Move, Feed
      <4> QED BY <1>1, <1>3, <4>1 DEF SameHand, InHand, Matched, Testing
    <3>2. CASE End(p, "rejected")
      BY <1>2, <2>1, <3>2 DEF End
    <3> QED BY <2>6, <3>1, <3>2 DEF Feed
  <2>7. CASE Checked(p)
    <3>1. /\ stage[p] = "checking" /\ at[p] = "idle" /\ stage'[p] = "done"
          /\ at' = at /\ (out'[p] = "ok" <=> res[p] = "success")
      BY <1>1, <1>2, <2>7 DEF Checked, Back, End, Refusals, Told, Verdict, Outside
    <3> QED BY <1>1, <1>3, <3>1 DEF SameHand, InHand, Matched, Testing
  <2>8. ~(Reopen(p) \/ Removed(p) \/ Stored(p))
    BY <1>1 DEF Flow, Testing, Reopen, Removed, Stored, Back
  <2> QED BY <2>3, <2>4, <2>5, <2>6, <2>7, <2>8 DEF Lone
<1> QED BY <1>1, <1>5, <1>6, Settles

(* The comparison itself, of the PIN that the helper was given.             *)
LEMMA ToCompare ==
  ASSUME PamInv, NEW p \in Procs, Apart(p), Testing(p), stage[p] = "checking",
         at[p] = "verify_read", Usable(slot[User(p)]), hand'[p] = hand[p],
         login'[p] = login[p], given'[p] = given[p], code'[p] = code[p],
         UNCHANGED storedMap, ~InHand(p)'
  PROVE  LET s == slot[User(p)] IN
         /\ s.auth = Typed(p) /\ Matched(p)' /\ charged'[p] = charged[p] =>
              Abstract!Matches(p)
         /\ s.auth # Typed(p) /\ ~Matched(p)' /\ charged'[p] = charged[p] + 1 =>
              Abstract!Differs(p)
<1> DEFINE s == slot[User(p)]
<1>1. /\ LoginType /\ code[p] = "none" /\ hand[p] \in Pins /\ Pin(p) = hand[p]
      /\ User(p) = login[p].uid /\ User(p) \in Uids
  BY TypeablePins DEF PamInv, Flow, Testing, LoginType, Requests
<1>2. InHand(p) /\ ~Matched(p)
  BY <1>1 DEF InHand, Matched, Testing
<1>3. loginMap[p] = Shown(login[p].uid, hand[p], given[p], "none", charged[p], code[p])
  BY <1>2, MapAt
<1>4. /\ loginMap[p].uid = login[p].uid /\ loginMap[p].hand = hand[p]
      /\ loginMap[p].hand # Abstract!NoPin
  BY <1>1, <1>3 DEF Shown, Pins, NoPin, Abstract!NoPin
<1>5. storedMap[loginMap[p].uid] = s.auth
  BY <1>1, <1>4 DEF storedMap, Usable
<1>6. /\ Typed(p) \in {hand[p], Normalize(hand[p])}
      /\ Normalize(hand[p]) = Abstract!Normalize(hand[p])
  BY <1>1 DEF Typed, Normalize, Abstract!Normalize
<1>7. PICK t : t = Shown(login[p].uid, NoPin, given[p], "none", charged[p], code[p])
  OBVIOUS
<1>8. [loginMap[p] EXCEPT !.hand = NoPin] = t
  BY <1>3, <1>7, ShownWith
<1>9. ASSUME s.auth = Typed(p), Matched(p)', charged'[p] = charged[p]
      PROVE  Abstract!Matches(p)
  <2>1. loginMap' = [loginMap EXCEPT ![p] =
          Shown(login'[p].uid, NoPin, given'[p], "match", charged'[p], code'[p])]
    BY <1>9, MapBecomes
  <2>2. [t EXCEPT !.verdict = "match"] =
          Shown(login[p].uid, NoPin, given[p], "match", charged[p], code[p])
    BY <1>7 DEF Shown
  <2>3. Shown(login'[p].uid, NoPin, given'[p], "match", charged'[p], code'[p]) =
          [loginMap[p] EXCEPT !.hand = NoPin, !.verdict = "match"]
    BY <1>8, <1>9, <2>2
  <2>4. storedMap[loginMap[p].uid] \in {loginMap[p].hand, Abstract!Normalize(loginMap[p].hand)}
    BY <1>4, <1>5, <1>6, <1>9
  <2> QED BY <1>4, <2>1, <2>3, <2>4
          DEF Abstract!Matches, Abstract!Become, Abstract!NoPin, NoPin
<1>10. ASSUME s.auth # Typed(p), ~Matched(p)', charged'[p] = charged[p] + 1
       PROVE  Abstract!Differs(p)
  <2>1. loginMap' = [loginMap EXCEPT ![p] =
          Shown(login'[p].uid, NoPin, given'[p], "none", charged'[p], code'[p])]
    BY <1>10, MapBecomes
  <2>2. [t EXCEPT !.charged = @ + 1] =
          Shown(login[p].uid, NoPin, given[p], "none", charged[p] + 1, code[p])
    BY <1>7, ShownWith
  <2>3. Shown(login'[p].uid, NoPin, given'[p], "none", charged'[p], code'[p]) =
          [loginMap[p] EXCEPT !.hand = NoPin, !.charged = @ + 1]
    BY <1>8, <1>10, <2>2
  <2>4. {storedMap[loginMap[p].uid]} # {loginMap[p].hand, Abstract!Normalize(loginMap[p].hand)}
    BY <1>4, <1>5, <1>6, <1>10
  <2> QED BY <1>4, <2>1, <2>3, <2>4
          DEF Abstract!Differs, Abstract!Become, Abstract!NoPin, NoPin
<1> QED BY <1>9, <1>10

(* A helper that tests a PIN, inside PinManager.                            *)
LEMMA TestedInside ==
  ASSUME PamInv, NEW p \in Procs, Testing(p), HelperManagerStep(p)
  PROVE  [Abstract!Next]_<<storedMap, loginMap>>
<1> DEFINE s == slot[User(p)]
<1>1. /\ LoginType /\ Flow(p) /\ Charge(p) /\ TypeOK /\ Step(p) /\ Apart(p)
      /\ UtilTypeOK' /\ code[p] = "none" /\ at[p] # "idle"
  BY HelperApart, CommandKeepsTool, InACall
     DEF PamInv, UtilTypeOK, Flow, Testing, OneCommand, HelperManagerStep, ManagerStep
<1>2. stage[p] = "checking" /\ job[p].op = "verify"
  BY <1>1 DEF Flow, Charge, Inside, Testing
<1>3. UNCHANGED <<pam, login, hand, given, code, stage, out, job>>
  BY StepFrame, <1>1 DEF HelperManagerStep, ManagerStep
<1>4. /\ at \in [Procs -> Labels] /\ res \in [Procs -> Results] /\ phase \in [Procs -> Phases]
      /\ s \in Slots /\ User(p) \in Uids /\ slot \in [Uids -> Slots]
      /\ charged \in [Procs -> Nat]
  BY <1>1, JobTypes DEF TypeOK, LoginType
<1>5. CASE slot'[User(p)].count > s.count
  <2>1. /\ at[p] = "verify_read" /\ at'[p] = "verify_owner" /\ Usable(s)
        /\ s.auth # Typed(p) /\ slot' = [slot EXCEPT ![User(p)] = Incremented(s)]
    BY <1>1, <1>4, <1>5, ChargedForWrong
  <2>2. charged'[p] = charged[p] + 1
    BY <1>4, <1>5, <1>1 DEF HelperManagerStep, Testing
  <2>3. ~InHand(p)' /\ ~Matched(p)'
    BY <1>1, <1>2, <1>3, <2>1 DEF InHand, Matched, Testing
  <2>4. UNCHANGED storedMap
    BY <1>4, <2>1 DEF storedMap, Incremented, Slots
  <2>5. Abstract!Differs(p)
    BY <1>1, <1>2, <1>3, <2>1, <2>2, <2>3, <2>4, ToCompare
  <2> QED BY <2>5 DEF Abstract!Next
<1>6. CASE ~(slot'[User(p)].count > s.count)
  <2>1. charged' = charged
    BY <1>6 DEF HelperManagerStep
  <2>2. SameLogin(p) /\ hand'[p] = hand[p]
    BY <1>3, <2>1 DEF SameLogin
  <2>3. ASSUME at'[p] = "idle", res'[p] # "success", UNCHANGED slot
        PROVE  [Abstract!Next]_<<storedMap, loginMap>>
    <3>1. ~InHand(p)' /\ ~Matched(p)'
      BY <1>1, <1>2, <1>3, <2>3 DEF InHand, Matched, Testing
    <3> QED BY <1>1, <2>2, <2>3, <3>1, Settles, SlotStands
  <2>4. CASE at[p] \in {"verify_tag", "verify_open"}
    <3>1. /\ UNCHANGED slot
          /\ \/ at'[p] \in {"verify_open", "verify_read"}
             \/ at'[p] = "idle" /\ res'[p] = "error"
      BY <1>1, <1>4, <2>4, AtItsLabel DEF VerifyTag, VerifyOpen, Goto, Enter, Return
    <3>2. CASE at'[p] \in {"verify_open", "verify_read"}
      <4>1. SameHand(p) /\ (Matched(p)' <=> Matched(p))
        BY <1>1, <1>2, <1>3, <2>4, <3>2 DEF SameHand, InHand, Matched, Testing
      <4> QED BY <1>1, <2>2, <3>1, <4>1, Settles, SlotStands
    <3> QED BY <2>3, <3>1, <3>2
  <2>5. CASE at[p] = "verify_read"
    <3>1. VerifyRead(p)
      BY <1>1, <2>5, AtItsLabel
    <3>2. CASE Usable(s) /\ s.auth = Typed(p) /\ SetSlot(p, Cleared(s))
      <4>1. UNCHANGED storedMap
        BY <1>4, <3>2 DEF SetSlot, storedMap, Cleared, Slots
      <4>2. ~(Cleared(s).count >= s.limit)
        BY <1>4, <3>2 DEF Usable, Cleared, Slots
      <4>3. /\ Usable(s) /\ s.auth # Typed(p) => FALSE
            /\ s.state # "absent"
        BY <3>2 DEF Usable
      <4>4. \/ at'[p] = "verify_restart"
            \/ at'[p] = "idle" /\ res'[p] = "success"
            \/ at'[p] = "idle" /\ res'[p] = "error" /\ UNCHANGED slot
        BY <1>2, <1>4, <3>1, <3>2, <4>2, <4>3 DEF VerifyRead, Goto, Accept, Return
      <4>5. ASSUME at'[p] = "verify_restart" \/ (at'[p] = "idle" /\ res'[p] = "success")
            PROVE  Matched(p)' /\ ~InHand(p)'
        BY <1>1, <1>2, <1>3, <4>5 DEF InHand, Matched, Testing
      <4>6. ASSUME Matched(p)', ~InHand(p)' PROVE Abstract!Matches(p)
        BY <1>1, <1>2, <1>3, <2>1, <2>5, <3>2, <4>1, <4>6, ToCompare
      <4> QED BY <2>3, <4>4, <4>5, <4>6 DEF Abstract!Next
    <3>3. CASE Usable(s) /\ s.auth # Typed(p) /\ SetSlot(p, Incremented(s))
      BY <1>4, <1>6, <3>3 DEF SetSlot, Incremented, Slots
    <3>4. CASE UNCHANGED slot /\ (Goto(p, "verify_owner") \/
                                  \E r \in Results \ {"success"} : Return(p, r))
      <4>1. at'[p] = "verify_owner" \/ (at'[p] = "idle" /\ res'[p] # "success")
        BY <1>4, <3>4 DEF Goto, Return
      <4>2. ~InHand(p)' /\ ~Matched(p)'
        BY <1>1, <1>2, <1>3, <4>1 DEF InHand, Matched, Testing
      <4> QED BY <1>1, <2>2, <3>4, <4>2, Settles, SlotStands
    <3> QED BY <3>1, <3>2, <3>3, <3>4 DEF VerifyRead, Results
  <2>6. CASE at[p] = "verify_owner"
    <3>1. UNCHANGED slot /\ at'[p] = "idle" /\ res'[p] # "success"
      BY <1>1, <1>4, <2>6, AtItsLabel DEF VerifyOwner, Return
    <3> QED BY <2>3, <3>1
  <2>7. CASE at[p] \notin Comparing
    <3>1. at'[p] \notin Comparing /\ (at'[p] = "idle" => slot' = slot)
      BY <1>1, <2>7, PastComparison
    <3>2. ~InHand(p) /\ ~InHand(p)' /\ Matched(p)
      BY <1>1, <1>2, <1>3, <2>7, <3>1 DEF InHand, Matched, Testing, Comparing
    <3>3. CASE at'[p] # "idle"
      <4>1. Matched(p)'
        BY <1>2, <1>3, <3>1, <3>3 DEF Matched, Testing, Comparing
      <4>2. UNCHANGED loginMap
        BY <1>1, <2>2, <3>2, <4>1, ToStutter DEF SameHand
      <4> QED BY <1>1, <4>2, ToManage DEF Abstract!Next
    <3>4. CASE at'[p] = "idle" /\ res'[p] = "success"
      <4>1. Matched(p)'
        BY <1>2, <1>3, <3>4 DEF Matched, Testing
      <4> QED BY <1>1, <2>2, <3>1, <3>2, <3>4, <4>1, Settles, SlotStands DEF SameHand
    <3> QED BY <2>3, <3>1, <3>3, <3>4
  <2> QED BY <2>4, <2>5, <2>6, <2>7 DEF Comparing
<1> QED BY <1>5, <1>6

(* Every step is a step of the abstract login, or none.                     *)
LEMMA LoginNext == PamInv /\ [PamNext]_pamVars => [Abstract!Next]_<<storedMap, loginMap>>
<1> SUFFICES ASSUME PamInv, [PamNext]_pamVars
             PROVE  [Abstract!Next]_<<storedMap, loginMap>>
  OBVIOUS
<1>1. ASSUME NEW p \in Procs, Authenticate(p) \/ Type(p) \/ ModuleStep(p)
      PROVE  [Abstract!Next]_<<storedMap, loginMap>>
  BY <1>1, ModuleDoes, ModuleImplements
<1>2. ASSUME NEW p \in Procs, OneCommand(p) \/ Feed(p)
      PROVE  [Abstract!Next]_<<storedMap, loginMap>>
  <2>1. CASE CommandStep(p)
    BY <2>1, BetweenLogins
  <2>2. CASE ~Testing(p) /\ ~CommandStep(p)
    <3>1. ~Feed(p)
      BY <2>2 DEF Feed, Testing
    <3> QED BY <1>2, <2>2, <3>1, Untested
  <2>3. CASE Testing(p) /\ ~CommandStep(p)
    BY <1>2, <2>3, TestedOutside, TestedInside DEF OneCommand
  <2> QED BY <2>1, <2>2, <2>3
<1>3. CASE UNCHANGED pamVars
  BY <1>3 DEF pamVars, storedMap, loginMap, InHand, Matched, Testing
<1> QED BY <1>1, <1>2, <1>3, PamSteps DEF PamNext

(* The initial states map to its initial states.                            *)
LEMMA LoginInit == PamInit => Abstract!Init
<1> SUFFICES ASSUME PamInit PROVE Abstract!Init
  OBVIOUS
<1>1. TypeOK
  BY PamInvInit DEF PamInv, UtilTypeOK
<1>2. storedMap \in [Uids -> Abstract!PinStrings]
  BY <1>1, StoredType DEF Abstract!PinStrings, PinStrings
<1>3. ASSUME NEW p \in Procs
      PROVE  loginMap[p] \in {Abstract!Fresh(u) : u \in Uids}
  <2>1. PICK u \in Uids : login[p] = NoRequest(u)
    BY DEF PamInit
  <2>2. ~InHand(p) /\ ~Matched(p)
    BY DEF PamInit, InHand, Matched, Testing
  <2>3. loginMap[p] = Abstract!Fresh(u)
    BY <2>1, <2>2 DEF PamInit, loginMap, NoRequest, Abstract!Fresh, Abstract!NoPin, NoPin
  <2> QED BY <2>3
<1>4. loginMap = [p \in Procs |-> loginMap[p]]
  BY DEF loginMap
<1> QED BY <1>2, <1>3, <1>4 DEF Abstract!Init

(* However many logins and commands run beside each other, and wherever a   *)
(* helper fails or is killed: SUCCESS is answered only after the TPM        *)
(* accepted the very PIN the login's helper was given, and an attempt is    *)
(* charged to a login only for a PIN that was compared and was wrong.       *)
THEOREM ImplementsLogin == PamSpec => LoginSpec
BY PamInvInit, PamInvNext, LoginInit, LoginNext, PTL
   DEF PamSpec, LoginSpec, Abstract!Spec

-----------------------------------------------------------------------------
(***************************************************************************)
(* One login or command at a time.                                          *)
(***************************************************************************)
OneLoginInv(p) == PamInv /\ Errand(p) /\ OneStore(p)

(* The module leaves its helper alone or starts another, which manages no   *)
(* PINs.                                                                    *)
LEMMA ModuleHelpers ==
  ASSUME PamInv, NEW p \in Procs, ByModule(p)
  PROVE  \/ Resting
         \/ \E kind \in {"status", "test"}, u \in Uids,
               by \in {"root", "owner", "elevated", "other"} : Helper(p, kind, by, u)
<1>1. CASE \E u \in Uids : Begins(p, u)
  BY <1>1, PinutilAssumption DEF Begins
<1>2. CASE \E label \in {"first", "test"}, pin \in Typeable : HandsIn(p, label, pin)
  <2>1. login[p].uid \in Uids /\ cmd[p].by \in {"root", "owner", "elevated", "other"}
    BY DEF PamInv, LoginType, Requests, UtilTypeOK, Commands
  <2> QED BY <1>2, <2>1 DEF HandsIn
<1> QED BY <1>1, <1>2 DEF ByModule, Refuses, Asks, Answers

(* So it has nothing to do with what a command is asked for.                *)
LEMMA ModuleErrand ==
  ASSUME PamInv, NEW p \in Procs, Errand(p), Still, stage[p] = "done", ByModule(p)
  PROVE  Errand(p)'
<1>1. /\ ToolType /\ at[p] = "idle" /\ at'[p] = "idle" /\ UNCHANGED <<job, res, phase>>
      /\ cmd[p].by \in {"root", "owner", "elevated", "other"}
  BY DEF PamInv, UtilTypeOK, ToolType, Charge, Inside, Still, Commands
<1>2. CASE Resting
  BY <1>1, <1>2 DEF Resting, Errand, Ended, IsRoot, Pin, User, Target
<1>3. CASE \E kind \in {"status", "test"}, u \in Uids,
              by \in {"root", "owner", "elevated", "other"} : Helper(p, kind, by, u)
  <2>1. PICK kind \in {"status", "test"}, u \in Uids,
             by \in {"root", "owner", "elevated", "other"} : Helper(p, kind, by, u)
    BY <1>3
  <2>2. /\ cmd'[p].kind = kind /\ stage'[p] \in {"open", "done"}
        /\ out'[p] \in {"none", "denied"}
    BY <1>1, <2>1 DEF Helper, ToolType
  <2> QED BY <1>1, <2>2 DEF Errand, Ended, Inside
<1> QED BY <1>2, <1>3, ModuleHelpers

(* The PIN that the module writes to its helper is no order of its own.     *)
LEMMA FeedErrand ==
  ASSUME PamInv, NEW p \in Procs, Errand(p), Feed(p)
  PROVE  Errand(p)'
<1>1. /\ UtilTypeOK /\ ToolType /\ cmd[p].kind = "test" /\ UNCHANGED <<cmd, fresh>>
      /\ at[p] = "idle"
  BY DEF PamInv, UtilTypeOK, ToolType, Flow, Feed, Testing, Charge, Inside
<1>2. CASE Invoke(p, "verify", Target(p), hand[p]) /\ Move(p, "checking")
  <2>1. /\ stage'[p] = "checking" /\ at'[p] = "verify_tag"
        /\ job'[p].op = "verify" /\ job'[p].uid = Target(p)
    BY <1>1, <1>2, CallErrand DEF Stages
  <2> QED BY <1>1, <2>1 DEF Errand, Ended, Inside, User, Target
<1>3. CASE Outside /\ End(p, "rejected")
  <2>1. stage'[p] = "done" /\ out'[p] = "rejected" /\ at'[p] = "idle"
    BY <1>1, <1>3 DEF End, Outside, ToolType
  <2> QED BY <2>1 DEF Errand, Ended, Inside
<1> QED BY <1>2, <1>3 DEF Feed

(* Initially one login, one store: nothing is under way.                    *)
LEMMA OneLoginInit ==
  ASSUME PamInit, NEW p \in Procs
  PROVE  OneLoginInv(p)
BY PamInvInit, OneCommandInit DEF PamInit, OneLoginInv, OneCommandInv

(* The only process keeps this at every step.                               *)
LEMMA OneLoginNext ==
  ASSUME NEW p, Procs = {p}, OneLoginInv(p), [PamNext]_pamVars
  PROVE  OneLoginInv(p)'
<1>1. PamInv' /\ UtilTypeOK /\ TypeOK
  BY PamInvNext DEF OneLoginInv, PamInv, UtilTypeOK
<1>2. CASE Authenticate(p) \/ Type(p) \/ ModuleStep(p)
  <2>1. Still /\ stage[p] = "done" /\ ByModule(p)
    BY <1>2, ModuleDoes DEF OneLoginInv
  <2>2. Outside
    BY <2>1 DEF Still, Outside
  <2> QED BY <1>1, <2>1, <2>2, ModuleErrand, OneStoreOutside DEF OneLoginInv
<1>3. CASE OneCommand(p)
  <2>1. ToolStep(p) \/ UserStep(p) \/ ManagerStep(p) \/ Kill(p)
    BY <1>3 DEF OneCommand, Lone, HelperLook, HelperManagerStep, CommandStep,
                KillHelper, ToolStep
  <2> QED BY <1>1, <2>1, ErrandKept, OneStoreCommand DEF OneLoginInv, PamInv
<1>4. CASE Feed(p)
  <2>1. OneStore(p)'
    BY <1>1, <1>4, OneStoreInvoke, OneStoreOutside DEF Feed, OneLoginInv
  <2> QED BY <1>1, <1>4, <2>1, FeedErrand DEF OneLoginInv
<1>5. CASE UNCHANGED pamVars
  BY <1>1, <1>5, OneStoreOutside
     DEF pamVars, Outside, OneLoginInv, Errand, Ended, IsRoot, User, Pin, Target
<1> QED BY <1>2, <1>3, <1>4, <1>5, PamSteps DEF PamNext

(* With logins among the commands, still one at a time: Ok of setup and     *)
(* change means that the PIN is stored as entered and tagged.               *)
THEOREM OkIsOkBesideLogins == Solo => (PamSpec => []OkMeansStored)
<1> SUFFICES ASSUME NEW p, Procs = {p} PROVE PamSpec => []OkMeansStored
  BY DEF Solo
<1>1. PamInit => OneLoginInv(p)
  BY OneLoginInit
<1>2. OneLoginInv(p) /\ [PamNext]_pamVars => OneLoginInv(p)'
  BY OneLoginNext
<1>3. OneLoginInv(p) => OkMeansStored
  BY OkIsStored DEF OneLoginInv, PamInv, OkMeansStored
<1> QED BY <1>1, <1>2, <1>3, PTL DEF PamSpec

(* No login, and no migration a login brings about, changes which PIN is    *)
(* the user's: that takes root, or the user with the PIN that goes.         *)
THEOREM LoginsChangeNoPin == Solo => (PamSpec => OnlyManagersChangePins)
<1> SUFFICES ASSUME NEW p, Procs = {p} PROVE PamSpec => OnlyManagersChangePins
  BY DEF Solo
<1>1. PamInit => OneLoginInv(p)
  BY OneLoginInit
<1>2. OneLoginInv(p) /\ [PamNext]_pamVars => OneLoginInv(p)'
  BY OneLoginNext
<1>3. OneLoginInv(p) /\ [PamNext]_pamVars => [ChangedByManagers]_utilVars
  <2>1. ASSUME OneLoginInv(p), Authenticate(p) \/ Type(p) \/ ModuleStep(p) \/ Feed(p)
        PROVE  UNCHANGED chosen
    BY <2>1, ModuleDoes DEF OneLoginInv, Still, Feed, Invoke, Outside
  <2>2. ASSUME OneLoginInv(p), OneCommand(p), ~Step(p) PROVE UNCHANGED chosen
    <3>1. UtilTypeOK /\ (ToolStep(p) \/ UserStep(p) \/ ManagerStep(p) \/ Kill(p))
      BY <2>2 DEF OneLoginInv, PamInv, OneCommand, Lone, HelperLook,
                  HelperManagerStep, CommandStep, KillHelper, ToolStep
    <3> QED BY <2>2, <3>1, CommandOnStore DEF Outside, Invoke, Killed
  <2>3. ASSUME OneLoginInv(p), Step(p) PROVE ChangedByManagers
    BY <2>3, WhoChanges DEF OneLoginInv, PamInv, UtilTypeOK, ChangedByManagers
  <2>4. UNCHANGED pamVars => UNCHANGED utilVars
    BY DEF pamVars, utilVars
  <2> QED BY <2>1, <2>2, <2>3, <2>4, PamSteps DEF PamNext, ChangedByManagers
<1> QED BY <1>1, <1>2, <1>3, PTL DEF PamSpec, OnlyManagersChangePins

-----------------------------------------------------------------------------
(***************************************************************************)
(* What the module knows of the slot from its status helper, while nothing  *)
(* else runs: all of it until a PIN is compared, all but the attempt once   *)
(* the PIN was wrong.  A PIN that is wrong for a slot that was locked is    *)
(* not counted, so an attempt may be missing only from a report without any.*)
(***************************************************************************)
Known(p) == slot[login[p].uid]

Matches(p) == /\ Known(p).state = "written"
              /\ report[p].used = Known(p).count
              /\ report[p].limit = Known(p).limit

Missed(p) == /\ Known(p).state = "written"
             /\ report[p].limit = Known(p).limit
             /\ \/ report[p].used + 1 = Known(p).count
                \/ report[p].used >= report[p].limit

(* The PIN was compared and was wrong, and that is what the helper says.    *)
Wrong(p) == \/ stage[p] = "checking" /\ at[p] = "verify_owner"
            \/ stage[p] = "checking" /\ at[p] = "idle" /\ res[p] = "invalid"
            \/ stage[p] = "done" /\ out[p] = "incorrect"

Informed(p) ==
  /\ pam[p] = "status" =>
       /\ cmd[p].uid = login[p].uid
       /\ stage[p] = "done" /\ out[p] = "ok" => report[p] = Info(Known(p))
  /\ pam[p] = "first" /\ InHand(p) => Matches(p)
  /\ pam[p] = "first" /\ Wrong(p) => Missed(p)
  /\ pam[p] = "prompt" => Matches(p)

(* The module's own steps leave it informed: it asks only with a report it  *)
(* may trust.                                                               *)
LEMMA ModuleInformed ==
  ASSUME PamInv, NEW p \in Procs, Informed(p),
         Authenticate(p) \/ Type(p) \/ ModuleStep(p)
  PROVE  Informed(p)'
<1>1. /\ LoginType /\ ToolType /\ login[p] \in Requests /\ report[p] \in Reports
      /\ Known(p) \in Slots
  BY DEF PamInv, UtilTypeOK, TypeOK, ToolType, LoginType, Requests, Known
<1>2. Still /\ stage[p] = "done" /\ ByModule(p)
  BY ModuleDoes
<1>3. UNCHANGED <<slot, at, res>>
  BY <1>2 DEF Still
<1>4. ASSUME NEW u \in Uids, Begins(p, u) PROVE Informed(p)'
  <2>1. PICK by \in Callers, mode \in Modes, token \in Offered :
          /\ Helper(p, "status", by, u)
          /\ login' = [login EXCEPT ![p] = [uid |-> u, mode |-> mode, token |-> token]]
    BY <1>4 DEF Begins
  <2>2. pam'[p] = "status" /\ login'[p].uid = u
    BY <1>1, <1>4, <2>1 DEF Begins, LoginType
  <2>3. cmd'[p].uid = u /\ stage'[p] = "open"
    BY <1>1, <2>1 DEF Helper, ToolType, Permitted
  <2> QED BY <2>2, <2>3 DEF Informed
<1>5. ASSUME NEW u \in Uids, NEW result, Refuses(p, u, result) PROVE Informed(p)'
  <2>1. pam'[p] = "idle"
    BY <1>5 DEF Refuses
  <2> QED BY <2>1 DEF Informed
<1>6. ASSUME NEW result, Answer(p, result) PROVE Informed(p)'
  <2>1. pam'[p] = "idle"
    BY <1>1, <1>6 DEF Answer, LoginType
  <2> QED BY <2>1 DEF Informed
<1>7. ASSUME NEW pin, Test(p, "test", pin) PROVE Informed(p)'
  <2>1. CASE Answer(p, "AUTHINFO_UNAVAIL")
    BY <1>6, <2>1
  <2>2. CASE Go(p, "test", report[p])
    <3>1. pam'[p] = "test"
      BY <1>1, <2>2 DEF Go, LoginType
    <3> QED BY <3>1 DEF Informed
  <2> QED BY <1>7, <2>1, <2>2 DEF Test
<1>8. ASSUME NEW pin, Test(p, "first", pin), Matches(p) PROVE Informed(p)'
  <2>1. CASE Answer(p, "AUTHINFO_UNAVAIL")
    BY <1>6, <2>1
  <2>2. CASE Go(p, "first", report[p]) /\ Helper(p, "test", cmd[p].by, login[p].uid)
    <3>1. pam'[p] = "first" /\ report'[p] = report[p] /\ login' = login
      BY <1>1, <2>2 DEF Go, LoginType
    <3>2. /\ stage'[p] \in {"open", "done"}
          /\ out'[p] \in {"none", "denied"}
      BY <1>1, <2>2 DEF Helper, ToolType
    <3>3. Matches(p)'
      BY <1>3, <1>8, <3>1 DEF Matches, Known
    <3> QED BY <3>1, <3>2, <3>3 DEF Informed, Wrong
  <2> QED BY <1>8, <2>1, <2>2 DEF Test
<1>9. ASSUME NEW said \in Reports, Prompt(p, said),
             /\ said.used < said.limit =>
                  /\ Known(p).state = "written"
                  /\ said.used = Known(p).count /\ said.limit = Known(p).limit
      PROVE  Informed(p)'
  <2>1. CASE Answer(p, "MAXTRIES")
    BY <1>6, <2>1
  <2>2. CASE Go(p, "prompt", said) /\ said.used < said.limit
    <3>1. pam'[p] = "prompt" /\ report'[p] = said /\ login' = login
      BY <1>1, <2>2 DEF Go, LoginType
    <3>2. Matches(p)'
      BY <1>3, <1>9, <2>2, <3>1 DEF Matches, Known
    <3> QED BY <3>1, <3>2 DEF Informed
  <2> QED BY <1>9, <2>1, <2>2 DEF Prompt
<1>10. CASE Authenticate(p)
  <2>1. pam[p] = "idle"
    BY <1>10 DEF Authenticate
  <2> QED BY <1>2, <1>4, <1>5, <2>1 DEF ByModule, HandsIn, Asks, Answers
<1>11. CASE Type(p)
  BY <1>6, <1>7, <1>11 DEF Type, Finish
<1>12. CASE StatusDone(p)
  <2>1. CASE \E result \in Codes : Answer(p, result)
    BY <1>6, <2>1
  <2>2. CASE out[p] = "ok" /\ report[p].status = "free" /\ Decide(p)
    <3>1. Matches(p)
      BY <1>1, <1>12, <2>2 DEF StatusDone, Printed, Informed, Info, Matches, NoReport
    <3>2. CASE Test(p, "first", login[p].token)
      BY <1>8, <3>1, <3>2
    <3>3. CASE Prompt(p, report[p])
      BY <1>1, <1>9, <3>1, <3>3 DEF Matches
    <3> QED BY <1>6, <2>2, <3>2, <3>3 DEF Decide, Finish
  <2> QED BY <1>6, <1>12, <2>2 DEF StatusDone, Finish
<1>13. CASE FirstDone(p)
  <2>1. CASE out[p] = "incorrect" /\ Prompt(p, Counted(report[p]))
    <3>1. Missed(p)
      BY <1>2, <1>13, <2>1 DEF FirstDone, Printed, Informed, Wrong
    <3>2. /\ Counted(report[p]) \in Reports
          /\ Counted(report[p]).used = report[p].used + 1
          /\ Counted(report[p]).limit = report[p].limit
          /\ report[p].used \in Nat /\ report[p].limit \in Nat
      BY <1>1 DEF Counted, Reports
    <3>3. report[p].used + 1 < report[p].limit => report[p].used + 1 = Known(p).count
      BY <3>1, <3>2 DEF Missed
    <3> QED BY <1>9, <2>1, <3>1, <3>2, <3>3 DEF Missed
  <2> QED BY <1>6, <1>13, <2>1 DEF FirstDone, Finish
<1>14. CASE TestDone(p)
  BY <1>6, <1>14 DEF TestDone, Finish
<1> QED BY <1>10, <1>11, <1>12, <1>13, <1>14 DEF ModuleStep

(* So do the helper's: what it compares, counts or prints is what the       *)
(* module comes to know.                                                    *)
LEMMA HelperInformed ==
  ASSUME PamInv, NEW p \in Procs, Informed(p), OneCommand(p) \/ Feed(p)
  PROVE  Informed(p)'
<1>1. /\ LoginType /\ ToolType /\ TypeOK /\ Flow(p) /\ Charge(p)
      /\ report[p] \in Reports /\ Known(p) \in Slots
  BY DEF PamInv, UtilTypeOK, TypeOK, ToolType, LoginType, Requests, Known
<1>2. CASE CommandStep(p)
  <2>1. pam'[p] = "idle"
    BY <1>2 DEF CommandStep
  <2> QED BY <2>1 DEF Informed
<1>3. CASE pam[p] \in {"idle", "test"} /\ ~CommandStep(p)
  <2>1. pam'[p] = pam[p]
    BY <1>3 DEF OneCommand, HelperLook, HelperManagerStep, KillHelper, Feed, loginVars
  <2> QED BY <1>3, <2>1 DEF Informed
<1>4. CASE pam[p] = "prompt"
  <2>1. stage[p] = "done" /\ at[p] = "idle"
    BY <1>1, <1>4 DEF Flow, Charge, Inside
  <2> QED BY <1>4, <2>1, InACall
          DEF OneCommand, Lone, HelperLook, HelperManagerStep, CommandStep, KillHelper,
              Feed, Open, Look, Checked, Reopen, Removed, Stored, Back, Kill, ManagerStep
<1>5. ASSUME pam[p] = "first", UNCHANGED <<slot, pam, login, report>>,
             InHand(p)' => InHand(p), Wrong(p)' => Wrong(p)
      PROVE  Informed(p)'
  BY <1>5 DEF Informed, Matches, Missed, Known
<1>6. ASSUME pam[p] = "status", UNCHANGED <<slot, cmd, pam, login, report>>,
             stage'[p] = "done" => out'[p] # "ok"
      PROVE  Informed(p)'
  BY <1>6 DEF Informed
<1>7. CASE KillHelper(p) /\ pam[p] \in {"status", "first"}
  <2>1. stage'[p] = "done" /\ out'[p] = "killed"
    BY <1>1, <1>7 DEF KillHelper, Kill, End, ToolType
  <2>2. UNCHANGED <<slot, cmd, pam, login, report>>
    BY <1>7 DEF KillHelper, Kill, loginVars
  <2> QED BY <1>5, <1>6, <1>7, <2>1, <2>2 DEF InHand, Wrong
<1>8. CASE HelperLook(p) /\ pam[p] = "status"
  <2>1. /\ cmd[p].kind = "status" /\ Target(p) = login[p].uid
        /\ UNCHANGED <<slot, cmd, pam, login>>
        /\ report' = [report EXCEPT ![p] = Info(slot[Target(p)])]
    BY <1>1, <1>8 DEF HelperLook, Look, Outside, Flow, Informed, Target
  <2>2. report'[p] = Info(Known(p))
    BY <1>1, <2>1 DEF LoginType, Known
  <2>3. Info(Known(p))' = Info(Known(p))
    BY <2>1 DEF Known
  <2> QED BY <1>8, <2>1, <2>2, <2>3 DEF Informed, Target, Known
<1>9. CASE HelperLook(p) /\ pam[p] = "first"
  <2>1. cmd[p].kind = "test" /\ stage[p] = "look"
    BY <1>1, <1>9 DEF Flow, Testing, HelperLook, Look
  <2>2. UNCHANGED <<slot, at, res, pam, login, report>>
    BY <1>9 DEF HelperLook, Look, Outside
  <2>3. \/ stage'[p] = "old_pin"
        \/ stage'[p] = "done" /\ out'[p] \in {"no_pin", "locked", "error"}
    BY <1>1, <1>9, <2>1 DEF HelperLook, Look, AfterLook, Move, End, ToolType
  <2>4. InHand(p) /\ ~Wrong(p)'
    BY <1>9, <2>1, <2>3 DEF InHand, Testing, Wrong
  <2> QED BY <1>5, <1>9, <2>2, <2>4
<1>10. CASE Feed(p) /\ pam[p] \in {"status", "first"}
  <2>1. pam[p] = "first" /\ InHand(p)
    BY <1>10 DEF Feed, InHand, Testing
  <2>2. UNCHANGED <<slot, pam, login, report>>
    BY <1>10 DEF Feed, Invoke, Outside, loginVars
  <2>3. \/ stage'[p] = "checking" /\ at'[p] = "verify_tag"
        \/ stage'[p] = "done" /\ out'[p] = "rejected"
    BY <1>1, <1>10 DEF Feed, Invoke, EntryLabel, Move, End, ToolType, TypeOK
  <2>4. ~Wrong(p)'
    BY <2>3 DEF Wrong
  <2> QED BY <1>5, <2>1, <2>2, <2>4
<1>11. CASE Lone(p) /\ UNCHANGED loginVars /\ pam[p] = "status"
  <2>1. Open(p)
    BY <1>1, <1>11 DEF Lone, Flow, Checked, Reopen, Removed, Stored, Back
  <2>2. /\ UNCHANGED <<slot, cmd, pam, login, report>>
        /\ stage'[p] = "look" \/ (stage'[p] = "done" /\ out'[p] = "error")
    BY <1>1, <1>11, <2>1 DEF Open, Outside, Move, End, ToolType, loginVars
  <2> QED BY <1>6, <1>11, <2>2
<1>12. CASE Lone(p) /\ UNCHANGED loginVars /\ pam[p] = "first"
  <2>1. Open(p) \/ Checked(p)
    BY <1>1, <1>12 DEF Lone, Flow, Testing, Reopen, Removed, Stored, Back
  <2>2. UNCHANGED <<slot, at, res, pam, login, report>>
    BY <1>12, <2>1 DEF Open, Checked, Outside, loginVars
  <2>3. CASE Open(p)
    <3>1. stage'[p] = "look" \/ (stage'[p] = "done" /\ out'[p] = "error")
      BY <1>1, <2>3 DEF Open, Move, End, ToolType
    <3>2. InHand(p) /\ ~Wrong(p)'
      BY <1>12, <2>3, <3>1 DEF Open, InHand, Testing, Wrong
    <3> QED BY <1>5, <1>12, <2>2, <3>2
  <2>4. CASE Checked(p)
    <3>1. cmd[p].kind = "test" /\ stage[p] = "checking" /\ at[p] = "idle"
      BY <1>1, <1>12, <2>4 DEF Flow, Testing, Checked, Back
    <3>2. stage'[p] = "done" /\ (out'[p] = "incorrect" => res[p] = "invalid")
      BY <1>1, <2>4, <3>1
         DEF Checked, End, Told, Verdict, Refusals, ToolType
    <3>3. ~InHand(p)' /\ (Wrong(p)' => Wrong(p))
      BY <3>1, <3>2 DEF InHand, Wrong
    <3> QED BY <1>5, <1>12, <2>2, <3>3
  <2> QED BY <2>1, <2>3, <2>4
<1>13. CASE HelperManagerStep(p) /\ pam[p] \in {"status", "first"}
  <2>1. at[p] # "idle" /\ Step(p) /\ UNCHANGED <<stage, out, pam, login, report>>
    BY <1>13, InACall DEF HelperManagerStep, ManagerStep
  <2>2. pam[p] = "first" /\ stage[p] = "checking" /\ User(p) = login[p].uid
    BY <1>1, <1>13, <2>1 DEF Charge, Inside, Flow, Testing
  <2>3. InHand(p)' <=> at'[p] \in {"verify_tag", "verify_open", "verify_read"}
    BY <2>1, <2>2 DEF InHand, Testing
  <2>4. Wrong(p)' <=> at'[p] = "verify_owner" \/ (at'[p] = "idle" /\ res'[p] = "invalid")
    BY <2>1, <2>2 DEF Wrong
  <2>5. ASSUME UNCHANGED slot, InHand(p)' => InHand(p), Wrong(p)' => Wrong(p)
        PROVE  Informed(p)'
    BY <1>5, <2>1, <2>2, <2>5
  <2>6. CASE at[p] \in {"verify_tag", "verify_open"}
    <3>1. /\ UNCHANGED slot
          /\ \/ at'[p] \in {"verify_open", "verify_read"}
             \/ at'[p] = "idle" /\ res'[p] = "error"
      BY <1>1, <2>1, <2>6, Moves, AtItsLabel DEF VerifyTag, VerifyOpen
    <3> QED BY <2>2, <2>3, <2>4, <2>5, <2>6, <3>1 DEF InHand, Testing
  <2>7. CASE at[p] = "verify_owner"
    <3>1. UNCHANGED slot /\ at'[p] = "idle"
      BY <1>1, <2>1, <2>7, Moves, AtItsLabel DEF VerifyOwner
    <3> QED BY <2>2, <2>3, <2>5, <2>7, <3>1 DEF Wrong
  <2>8. CASE at[p] = "verify_read"
    <3>1. VerifyRead(p) /\ Matches(p) /\ slot[User(p)] = Known(p)
      BY <2>1, <2>2, <2>8, AtItsLabel DEF Informed, InHand, Testing, Known
    <3>2. \/ at'[p] \notin Comparing /\ (at'[p] = "idle" => res'[p] # "invalid")
          \/ /\ at'[p] = "verify_owner"
             /\ \/ SetSlot(p, Incremented(Known(p)))
                \/ UNCHANGED slot /\ ~Usable(Known(p))
      BY <1>1, <3>1, Moves DEF VerifyRead, Accept, Comparing
    <3>3. CASE at'[p] \notin Comparing /\ (at'[p] = "idle" => res'[p] # "invalid")
      <4>1. ~InHand(p)' /\ ~Wrong(p)'
        BY <2>3, <2>4, <3>3 DEF Comparing
      <4> QED BY <2>1, <2>2, <4>1 DEF Informed
    <3>4. CASE at'[p] = "verify_owner" /\ SetSlot(p, Incremented(Known(p)))
      <4>1. Known(p)' = Incremented(Known(p))
        BY <1>1, <2>1, <2>2, <3>4, Moves DEF Known
      <4>2. Missed(p)'
        BY <1>1, <2>1, <3>1, <4>1 DEF Missed, Matches, Incremented, Slots
      <4> QED BY <2>1, <2>2, <2>3, <3>4, <4>2 DEF Informed
    <3>5. CASE at'[p] = "verify_owner" /\ UNCHANGED slot /\ ~Usable(Known(p))
      <4>1. Known(p)' = Known(p)
        BY <2>1, <3>5 DEF Known
      <4>2. Missed(p)'
        BY <1>1, <2>1, <3>1, <3>5, <4>1 DEF Missed, Matches, Usable, Slots
      <4> QED BY <2>1, <2>2, <2>3, <3>5, <4>2 DEF Informed
    <3> QED BY <3>2, <3>3, <3>4, <3>5
  <2>9. CASE at[p] \notin Comparing
    <3>1. ~InHand(p)' /\ ~Wrong(p)'
      BY <1>1, <2>1, <2>3, <2>4, <2>9, PastComparison DEF Comparing, Refusals
    <3> QED BY <2>1, <2>2, <3>1 DEF Informed
  <2> QED BY <2>6, <2>7, <2>8, <2>9 DEF Comparing
<1> QED BY <1>1, <1>2, <1>3, <1>4, <1>7, <1>8, <1>9, <1>10, <1>11, <1>12, <1>13
        DEF OneCommand, LoginType, PamStages

(* The number of attempts the user is warned of is the TPM's: as long as    *)
(* nothing else runs, what status printed, less the attempt a wrong token   *)
(* cost, is right even where the helper's last look at the lock failed.     *)
THEOREM PromptIsRight == Solo => (PamSpec => []PromptCountsRight)
<1> SUFFICES ASSUME NEW p, Procs = {p} PROVE PamSpec => []PromptCountsRight
  BY DEF Solo
<1>1. PamInit => PamInv /\ Informed(p)
  BY PamInvInit DEF PamInit, Informed
<1>2. PamInv /\ Informed(p) /\ [PamNext]_pamVars => Informed(p)'
  <2> SUFFICES ASSUME PamInv, Informed(p), [PamNext]_pamVars PROVE Informed(p)'
    OBVIOUS
  <2>1. CASE PamNext
    BY <2>1, PamSteps, ModuleInformed, HelperInformed DEF PamNext
  <2>2. CASE UNCHANGED pamVars
    BY <2>2 DEF pamVars, Informed, InHand, Testing, Wrong, Matches, Missed, Known
  <2> QED BY <2>1, <2>2
<1>3. Informed(p) => PromptCountsRight
  BY DEF Informed, Matches, Known, PromptCountsRight
<1> QED BY <1>1, <1>2, <1>3, PamInvNext, PTL DEF PamSpec

-----------------------------------------------------------------------------
(***************************************************************************)
(* Logins while nothing fails and nothing else runs: the slot takes a guess *)
(* when a PIN is handed in, and every answer but SUCCESS has its reason.    *)
(***************************************************************************)
Unlucky(p) == ~Compares(login[p].uid, hand[p])

(* What a helper was given, and how it ended.                               *)
Tested(p) ==
  Testing(p) =>
    /\ cmd[p].machine
    /\ stage[p] \in {"open", "look"} => Usable(Known(p))
    /\ stage[p] = "done" /\ out[p] # "ok" =>
         \/ out[p] = "denied" /\ cmd[p].by = "other"
         \/ out[p] \in {"incorrect", "incorrect_locked", "error"} /\ Unlucky(p)

Reasons(p) ==
  /\ pam[p] = "idle" /\ stage[p] # "done" => code[p] = "none"
  /\ pam[p] = "first" => report[p].used < report[p].limit
  /\ pam[p] = "prompt" => Usable(Known(p)) /\ (given[p] > 0 => Unlucky(p))
  /\ pam[p] = "idle" /\ code[p] \notin {"none", "SUCCESS"} =>
       /\ given[p] > 0 /\ cmd[p].by # "other" => Unlucky(p)
       /\ code[p] = "MAXTRIES" => ~Usable(Known(p))
       /\ code[p] = "AUTH_ERR" => Usable(Known(p))

CalmLogin(p) ==
  /\ PamInv /\ Errand(p) /\ OneStore(p) /\ Informed(p)
  /\ CalmTool(p, Typeable) /\ Tested(p) /\ Reasons(p)

(* The tool, kept by the module: it starts no helper that manages PINs.     *)
LEMMA ModuleCalm ==
  ASSUME PamInv, NEW p \in Procs, NEW S, CalmTool(p, S), Still, stage[p] = "done", ByModule(p)
  PROVE  CalmTool(p, S)'
<1>1. ToolType /\ cmd[p].by \in {"root", "owner", "elevated", "other"}
  BY DEF PamInv, UtilTypeOK, ToolType, Commands
<1>2. Calmly(p, S)'
  BY DEF Still, CalmTool, Calmly, InPhase, AtCommand, Tidy, Holds, User, Pin
<1>3. CASE Resting
  <2>1. UNCHANGED <<slot, tag, at, res, job, cmd, stage, fresh, out, phase>>
    BY <1>3 DEF Resting, Still
  <2>2. /\ UNCHANGED <<User(p), Pin(p), Target(p), IsRoot(p)>>
        /\ Compares(Target(p), Pin(p))' = Compares(Target(p), Pin(p))
        /\ Compares(User(p), Pin(p))' = Compares(User(p), Pin(p))
    BY <2>1 DEF User, Pin, Target, IsRoot, Compares
  <2>3. Entered(p, S)'
    BY <2>1, <2>2 DEF CalmTool, Entered
  <2>4. Screened(p)'
    BY <2>1, <2>2 DEF CalmTool, Screened
  <2>5. Replacing(p)'
    BY <2>1, <2>2 DEF CalmTool, Replacing
  <2> QED BY <1>2, <2>3, <2>4, <2>5 DEF CalmTool
<1>4. ASSUME NEW kind \in {"status", "test"}, NEW by, NEW u, Helper(p, kind, by, u)
      PROVE  CalmTool(p, S)'
  <2>1. /\ cmd'[p].kind = kind
        /\ stage'[p] = "open" \/ (stage'[p] = "done" /\ out'[p] = "denied")
    BY <1>1, <1>4 DEF Helper, ToolType
  <2> QED BY <1>2, <2>1 DEF CalmTool, Entered, Screened, Replacing
<1> QED BY <1>3, <1>4, ModuleHelpers

(* By a command or a helper.                                                *)
LEMMA CommandCalm ==
  ASSUME PamInv, Smooth, NEW p \in Procs, NEW S, Entries \subseteq S, CalmTool(p, S),
         Errand(p), OneStore(p), OneCommand(p)
  PROVE  CalmTool(p, S)' /\ ~KillHelper(p)
<1>1. UtilTypeOK /\ Charge(p) /\ ~KillHelper(p)
  BY DEF PamInv, UtilTypeOK, TypeOK, Smooth, Unharmed, KillHelper, Kill
<1>2. ToolStep(p) \/ UserStep(p) \/ ManagerStep(p)
  BY <1>1 DEF OneCommand, Lone, HelperLook, HelperManagerStep, CommandStep, ToolStep
<1>3. Calmly(p, S)' /\ Entered(p, S)'
  BY <1>1, <1>2, CalmCommand DEF CalmTool
<1>4. Screened(p)'
  BY <1>1, <1>2, ScreenedKept DEF CalmTool
<1>5. Replacing(p)'
  BY <1>1, <1>2, <1>3, ReplacingKept DEF CalmTool
<1> QED BY <1>1, <1>3, <1>4, <1>5 DEF CalmTool

(* By the PIN that a helper is fed.                                         *)
LEMMA FeedCalm ==
  ASSUME PamInv, Smooth, NEW p \in Procs, NEW S, CalmTool(p, S), Feed(p), hand[p] \in S
  PROVE  /\ CalmTool(p, S)'
         /\ Invoke(p, "verify", Target(p), hand[p]) /\ Move(p, "checking")
<1>1. /\ UtilTypeOK /\ TypeOK /\ Target(p) \in Uids /\ cmd' = cmd /\ fresh' = fresh
      /\ cmd[p].kind = "test"
  BY DEF PamInv, UtilTypeOK, Target, Commands, Feed, Flow, Testing
<1>2. Invoke(p, "verify", Target(p), hand[p]) /\ Move(p, "checking")
  BY <1>1, CalmWorks DEF Feed
<1>3. /\ stage'[p] = "checking" /\ at'[p] = "verify_tag" /\ slot' = slot
      /\ job'[p].uid = Target(p) /\ job'[p].pin = hand[p]
  BY <1>1, <1>2, CallErrand DEF Stages, Invoke
<1>4. Calmly(p, S)'
  BY <1>1, <1>2, CalmInvoke DEF CalmTool
<1>5. Entered(p, S)'
  BY <1>3 DEF Entered, Pin
<1>6. Screened(p)'
  <2>1. Usable(slot[Target(p)])
    BY DEF Feed, CalmTool, Screened
  <2> QED BY <1>3, <2>1 DEF Screened, User
<1>7. Replacing(p)'
  BY <1>1 DEF Replacing
<1> QED BY <1>2, <1>4, <1>5, <1>6, <1>7 DEF CalmTool

(* The slot of a login is tidy whenever no call is running.                 *)
LEMMA KnownTidy ==
  ASSUME PamInv, NEW p \in Procs, CalmTool(p, Typeable), at[p] = "idle"
  PROVE  Tidy(login[p].uid, Typeable) /\ Known(p) \in Slots
<1>1. login[p].uid \in Uids
  BY DEF PamInv, LoginType, Requests
<1> QED BY <1>1 DEF CalmTool, Calmly, AtCommand, Settled, Known, PamInv, UtilTypeOK, TypeOK

(* A helper that ended by refusing its PIN has left a slot that is locked   *)
(* if and only if it said so.                                               *)
LEMMA Refused ==
  ASSUME PamInv, NEW p \in Procs, CalmTool(p, Typeable), Testing(p), stage[p] = "done"
  PROVE  /\ out[p] = "incorrect"        => Usable(Known(p))
         /\ out[p] = "incorrect_locked" => ~Usable(Known(p))
<1>1. at[p] = "idle" /\ Target(p) = login[p].uid /\ Known(p) \in Slots
  BY KnownTidy DEF PamInv, Charge, Inside, Flow, Target
<1>2. out[p] \in {"incorrect", "incorrect_locked"} =>
        /\ User(p) = login[p].uid
        /\ res[p] = IF out[p] = "incorrect" THEN "invalid" ELSE "invalid_locked"
  BY <1>1 DEF CalmTool, Screened
<1> QED BY <1>1, <1>2 DEF CalmTool, Calmly, AtCommand, Known, ReadsLocked, Usable, Slots

(* Two answers to why a PIN that was handed in did not match stay the same  *)
(* while the store and the hand do.                                         *)
LEMMA StillUnlucky ==
  ASSUME NEW p \in Procs, UNCHANGED <<slot, tag, hand>>, login'[p].uid = login[p].uid
  PROVE  /\ Unlucky(p)' <=> Unlucky(p)
         /\ Known(p)' = Known(p)
BY DEF Unlucky, Compares, Known

(* The module answers for a reason: it has just been told what the slot is  *)
(* like, or has seen how its helper ended.                                  *)
LEMMA ModuleReasons ==
  ASSUME PamInv, Smooth, NEW p \in Procs, CalmTool(p, Typeable), Informed(p),
         Tested(p), Reasons(p), Authenticate(p) \/ Type(p) \/ ModuleStep(p)
  PROVE  Tested(p)' /\ Reasons(p)'
<1> DEFINE uid == login[p].uid
<1>1. /\ LoginType /\ ToolType /\ login[p] \in Requests /\ report[p] \in Reports /\ Flow(p)
      /\ cmd[p].by \in {"root", "owner", "elevated", "other"} /\ TypeOK
  BY DEF PamInv, UtilTypeOK, ToolType, LoginType, Commands
<1>2. Still /\ stage[p] = "done" /\ UNCHANGED <<slot, tag>> /\ at[p] = "idle"
  BY ModuleDoes DEF Still, PamInv, Charge, Inside
<1>3. Tidy(uid, Typeable) /\ Known(p) \in Slots /\ ~Fails
  BY <1>1, <1>2, KnownTidy, CalmWorks
<1>4. Entries \subseteq Typeable
  BY TypeablePins
<1>5. ASSUME NEW result \in Codes \ {"none"}, Answer(p, result), Resting,
             result # "SUCCESS" =>
               /\ given[p] > 0 /\ cmd[p].by # "other" => Unlucky(p)
               /\ result = "MAXTRIES" => ~Usable(Known(p))
               /\ result = "AUTH_ERR" => Usable(Known(p))
      PROVE  Tested(p)' /\ Reasons(p)'
  <2>1. /\ pam'[p] = "idle" /\ code'[p] = result /\ UNCHANGED <<hand, given, cmd, stage>>
        /\ login'[p].uid = uid /\ login'[p].token = NoPin
    BY <1>1, <1>5 DEF Answer, LoginType, NoRequest, Resting
  <2>2. (Unlucky(p)' <=> Unlucky(p)) /\ Known(p)' = Known(p)
    BY <1>2, <2>1, StillUnlucky
  <2> QED BY <1>2, <1>4, <1>5, <2>1, <2>2 DEF Tested, Testing, Reasons
<1>6. ASSUME NEW label \in {"first", "test"}, NEW pin \in Typeable, Test(p, label, pin),
             Usable(Known(p)), label = "first" => report[p].used < report[p].limit
      PROVE  Tested(p)' /\ Reasons(p)'
  <2>1. /\ Helper(p, "test", cmd[p].by, uid) /\ Go(p, label, report[p])
        /\ hand' = [hand EXCEPT ![p] = pin]
    BY <1>3, <1>6 DEF Test
  <2>2. /\ pam'[p] = label /\ report'[p] = report[p] /\ login' = login /\ hand'[p] = pin
    BY <1>1, <2>1 DEF Go, LoginType
  <2>3. /\ cmd' = [cmd EXCEPT ![p] = [kind |-> "test", by |-> cmd[p].by,
                                      machine |-> TRUE, uid |-> uid]]
        /\ cmd'[p].by = cmd[p].by
        /\ \/ stage'[p] = "open"
           \/ stage'[p] = "done" /\ out'[p] = "denied" /\ cmd[p].by = "other"
    BY <1>1, <2>1 DEF Helper, ToolType, Permitted, CanAttempt
  <2>4. cmd'[p].machine
    <3>1. cmd'[p] = [kind |-> "test", by |-> cmd[p].by, machine |-> TRUE, uid |-> uid]
      BY <1>1, <2>3 DEF ToolType
    <3> QED BY <3>1
  <2>5. Known(p)' = Known(p)
    BY <1>2, <2>2 DEF Known
  <2> QED BY <1>6, <2>2, <2>3, <2>4, <2>5 DEF Tested, Reasons
<1>7. ASSUME NEW said \in Reports, Prompt(p, said),
             said.used >= said.limit => ~Usable(Known(p)),
             said.used < said.limit => Usable(Known(p)),
             given[p] > 0 => Unlucky(p)
      PROVE  Tested(p)' /\ Reasons(p)'
  <2>1. CASE said.used >= said.limit /\ Answer(p, "MAXTRIES") /\ Resting
    BY <1>5, <1>7, <2>1 DEF Codes
  <2>2. CASE said.used < said.limit /\ Go(p, "prompt", said) /\ UNCHANGED <<hand, given>>
    <3>1. pam'[p] = "prompt" /\ login' = login
      BY <1>1, <2>2 DEF Go, LoginType
    <3>2. (Unlucky(p)' <=> Unlucky(p)) /\ Known(p)' = Known(p)
      BY <1>2, <2>2, <3>1, StillUnlucky
    <3> QED BY <1>7, <2>2, <3>1, <3>2 DEF Tested, Testing, Reasons
  <2> QED BY <1>7, <2>1, <2>2 DEF Prompt
<1>8. CASE Authenticate(p)
  <2>1. PICK u \in Uids :
          \/ \E by \in Callers, mode \in Modes, token \in Offered :
               /\ login' = [login EXCEPT ![p] = [uid |-> u, mode |-> mode, token |-> token]]
               /\ pam'  = [pam EXCEPT ![p] = "status"]
          \/ /\ \E refusal \in Unserved : code' = [code EXCEPT ![p] = refusal]
             /\ login' = [login EXCEPT ![p] = NoRequest(u)]
             /\ Resting /\ UNCHANGED pam
    BY <1>3, <1>8 DEF Authenticate
  <2>2. given'[p] = 0 /\ pam[p] = "idle"
    BY <1>1, <1>8 DEF Authenticate, Blank, LoginType
  <2>3. CASE \E by \in Callers, mode \in Modes, token \in Offered :
               /\ login' = [login EXCEPT ![p] = [uid |-> u, mode |-> mode, token |-> token]]
               /\ pam'  = [pam EXCEPT ![p] = "status"]
    <3>1. pam'[p] = "status" /\ login'[p].token \in Offered
      BY <1>1, <2>3 DEF LoginType
    <3> QED BY <3>1 DEF Tested, Testing, Reasons
  <2>4. CASE /\ \E refusal \in Unserved : code' = [code EXCEPT ![p] = refusal]
             /\ login' = [login EXCEPT ![p] = NoRequest(u)]
             /\ Resting /\ UNCHANGED pam
    <3>1. /\ pam'[p] = "idle" /\ stage'[p] = "done"
          /\ code'[p] \notin {"none", "MAXTRIES", "AUTH_ERR"} /\ login'[p].token = NoPin
      BY <1>1, <1>2, <2>2, <2>4 DEF LoginType, Unserved, NoRequest, Resting
    <3> QED BY <1>4, <2>2, <3>1 DEF Tested, Testing, Reasons
  <2> QED BY <2>1, <2>3, <2>4
<1>9. CASE Type(p)
  <2>1. Usable(Known(p)) /\ (given[p] > 0 => Unlucky(p))
    BY <1>9 DEF Type, Reasons
  <2>2. CASE \E pin \in Entries : Test(p, "test", pin)
    BY <1>4, <1>6, <2>1, <2>2
  <2>3. CASE \E refusal \in NoInput : Finish(p, refusal)
    BY <1>5, <2>1, <2>3 DEF Finish, NoInput, Codes
  <2> QED BY <1>9, <2>2, <2>3 DEF Type
<1>10. CASE StatusDone(p)
  <2>1. given[p] = 0 /\ (out[p] = "ok" => report[p] = Info(Known(p)))
    BY <1>1, <1>2, <1>10 DEF StatusDone, Printed, Flow, Informed
  <2>2. CASE Finish(p, "AUTHINFO_UNAVAIL")
    BY <1>5, <2>1, <2>2 DEF Finish, Codes
  <2>3. CASE out[p] = "ok" /\ report[p].status = "locked" /\ Finish(p, "MAXTRIES")
    <3>1. InfoLocked(Known(p))
      BY <2>1, <2>3 DEF Info, NoReport
    <3>2. ~Usable(Known(p))
      BY <1>3, <3>1 DEF InfoLocked, Usable, Slots
    <3> QED BY <1>5, <2>1, <2>3, <3>2 DEF Finish, Codes
  <2>4. CASE out[p] = "ok" /\ report[p].status = "free" /\ Decide(p)
    <3>1. /\ Known(p).state = "written" /\ ~InfoLocked(Known(p))
          /\ report[p].used = Known(p).count /\ report[p].limit = Known(p).limit
      BY <2>1, <2>4 DEF Info, NoReport
    <3>2. Usable(Known(p)) /\ report[p].used < report[p].limit
      BY <1>3, <3>1 DEF InfoLocked, Usable, Tidy, Known, Slots
    <3>3. CASE login[p].token # NoPin /\ Test(p, "first", login[p].token)
      <4>1. login[p].token \in Typeable
        BY <1>1, <3>3, TypeablePins DEF Flow
      <4> QED BY <1>6, <3>2, <3>3, <4>1
    <3>4. CASE Finish(p, "AUTH_ERR")
      BY <1>5, <2>1, <3>2, <3>4 DEF Finish, Codes
    <3>5. CASE Prompt(p, report[p])
      <4>1. ~(report[p].used >= report[p].limit)
        BY <1>1, <3>2 DEF Reports
      <4> QED BY <1>1, <1>7, <2>1, <3>2, <3>5, <4>1
    <3> QED BY <2>4, <3>3, <3>4, <3>5 DEF Decide
  <2> QED BY <1>10, <2>2, <2>3, <2>4 DEF StatusDone
<1>11. ASSUME Testing(p), Finish(p, Final(out[p])) PROVE Tested(p)' /\ Reasons(p)'
  <2>1. /\ out[p] = "incorrect"        => Usable(Known(p))
        /\ out[p] = "incorrect_locked" => ~Usable(Known(p))
    BY <1>2, <1>11, Refused
  <2>2. \/ out[p] = "ok"
        \/ out[p] = "denied" /\ cmd[p].by = "other"
        \/ out[p] \in {"incorrect", "incorrect_locked", "error"} /\ Unlucky(p)
    BY <1>2, <1>11 DEF Tested
  <2>3. /\ Final("ok") = "SUCCESS" /\ Final("denied") = "AUTHINFO_UNAVAIL"
        /\ Final("incorrect") = "AUTH_ERR" /\ Final("incorrect_locked") = "MAXTRIES"
        /\ Final("error") = "AUTHINFO_UNAVAIL"
    BY DEF Final
  <2>4. Final(out[p]) \in Codes \ {"none"}
    BY <2>2, <2>3 DEF Codes
  <2> QED BY <1>5, <1>11, <2>1, <2>2, <2>3, <2>4 DEF Finish
<1>12. CASE FirstDone(p)
  <2>1. Testing(p) /\ pam[p] = "first"
    BY <1>12 DEF FirstDone, Printed, Testing
  <2>2. CASE out[p] = "incorrect" /\ Prompt(p, Counted(report[p]))
    <3>1. Unlucky(p) /\ Usable(Known(p))
      BY <1>2, <2>1, <2>2, Refused DEF Tested
    <3>2. Missed(p) /\ report[p].used < report[p].limit
      BY <1>2, <2>1, <2>2 DEF Informed, Wrong, Reasons
    <3>3. /\ Counted(report[p]) \in Reports
          /\ Counted(report[p]).used = report[p].used + 1
          /\ Counted(report[p]).limit = report[p].limit
          /\ report[p].used \in Nat /\ report[p].limit \in Nat
      BY <1>1 DEF Counted, Reports
    <3>4. ~(Counted(report[p]).used >= Counted(report[p]).limit)
      BY <1>3, <3>1, <3>2, <3>3 DEF Missed, Usable, Slots
    <3> QED BY <1>7, <2>2, <3>1, <3>3, <3>4
  <2> QED BY <1>11, <1>12, <2>1, <2>2 DEF FirstDone
<1>13. CASE TestDone(p)
  BY <1>11, <1>13 DEF TestDone, Printed, Testing
<1> QED BY <1>8, <1>9, <1>10, <1>12, <1>13 DEF ModuleStep

(* The helper ends as it was given cause to: without faults, with the       *)
(* verdict of the comparison.                                               *)
LEMMA HelperReasons ==
  ASSUME PamInv, Smooth, NEW p \in Procs, CalmTool(p, Typeable), Tested(p), Reasons(p),
         OneCommand(p) \/ Feed(p), ~KillHelper(p)
  PROVE  Tested(p)' /\ Reasons(p)'
<1>1. /\ LoginType /\ ToolType /\ UtilTypeOK /\ TypeOK /\ Flow(p) /\ Charge(p) /\ ~Fails
  BY CalmWorks DEF PamInv, UtilTypeOK, ToolType
<1>2. CASE CommandStep(p)
  <2>1. pam'[p] = "idle" /\ login' = login /\ code'[p] = "none"
    BY <1>1, <1>2 DEF CommandStep, LoginType
  <2> QED BY <2>1 DEF Tested, Testing, Reasons
<1>3. CASE pam[p] = "idle" /\ ~CommandStep(p)
  <2>1. stage[p] # "done"
    BY <1>1, <1>3, InACall
       DEF OneCommand, Lone, HelperLook, HelperManagerStep, Feed, Open, Look, Checked,
           Reopen, Removed, Stored, Back, ManagerStep, Charge, Inside
  <2>2. UNCHANGED <<pam, login, code>>
    BY <1>3 DEF OneCommand, HelperLook, HelperManagerStep, Feed, loginVars
  <2> QED BY <1>3, <2>1, <2>2 DEF Tested, Testing, Reasons
<1>4. CASE pam[p] = "prompt"
  <2>1. stage[p] = "done" /\ at[p] = "idle"
    BY <1>1, <1>4 DEF Flow, Charge, Inside
  <2> QED BY <1>4, <2>1, InACall
          DEF OneCommand, Lone, HelperLook, HelperManagerStep, CommandStep,
              Feed, Open, Look, Checked, Reopen, Removed, Stored, Back, ManagerStep
<1>5. CASE pam[p] = "status"
  <2>1. pam'[p] = "status" /\ login' = login
    BY <1>5 DEF OneCommand, HelperLook, HelperManagerStep, CommandStep, Feed, loginVars
  <2> QED BY <1>5, <2>1 DEF Tested, Testing, Reasons
<1>6. CASE Testing(p)
  <2>1. /\ UNCHANGED <<pam, login, hand, given, code, cmd>>
        /\ report'[p] = report[p]
    BY <1>1, <1>6
       DEF Testing, OneCommand, Lone, HelperLook, HelperManagerStep, CommandStep,
           ManagerStep, Feed, Look, Open, Checked, Reopen, Removed, Stored, loginVars
  <2>2. Reasons(p)'
    BY <1>6, <2>1 DEF Reasons, Testing
  <2>3. ASSUME stage'[p] \in {"old_pin", "checking"} PROVE Tested(p)'
    BY <2>1, <2>3 DEF Tested, Testing
  <2>4. cmd[p].kind = "test" /\ Target(p) = login[p].uid
    BY <1>1, <1>6 DEF Flow, Target
  <2>5. CASE HelperLook(p)
    <3>1. Usable(slot[Target(p)]) /\ slot[Target(p)] \in Slots
      BY <1>1, <1>6, <2>4, <2>5 DEF HelperLook, Look, Tested, Known, TypeOK, LoginType, Requests
    <3>2. ~Gated(p) /\ slot[Target(p)].state = "written"
      BY <3>1 DEF Gated, InfoLocked, Usable, Slots
    <3>3. stage'[p] = "old_pin"
      BY <1>1, <2>4, <2>5, <3>2, Stands DEF HelperLook, Look, AfterLook
    <3> QED BY <2>2, <2>3, <3>3
  <2>6. CASE Feed(p)
    <3>1. Move(p, "checking")
      BY <1>1, <2>6 DEF Feed
    <3> QED BY <1>1, <2>2, <2>3, <3>1, Stands
  <2>7. CASE HelperManagerStep(p)
    <3>1. stage'[p] = "checking"
      BY <1>1, <1>6, <2>7, InACall DEF HelperManagerStep, ManagerStep, Charge, Inside, Flow
    <3> QED BY <2>2, <2>3, <3>1
  <2>8. CASE Open(p)
    <3>1. stage'[p] = "look" /\ UNCHANGED slot /\ stage[p] = "open"
      BY <1>1, <2>8, Stands DEF Open, Outside
    <3>2. Known(p)' = Known(p)
      BY <2>1, <3>1 DEF Known
    <3> QED BY <1>6, <2>1, <2>2, <3>1, <3>2 DEF Tested, Testing
  <2>9. CASE Checked(p)
    <3>1. /\ stage[p] = "checking" /\ at[p] = "idle" /\ UNCHANGED <<slot, tag>>
          /\ User(p) = login[p].uid /\ Pin(p) = hand[p] /\ cmd[p].machine
      BY <1>1, <1>6, <2>9 DEF Checked, Back, Outside, Flow, Tested
    <3>2. Unlucky(p)' <=> Unlucky(p)
      BY <2>1, <3>1, StillUnlucky
    <3>3. res[p] # "success" => Unlucky(p)
      BY <3>1 DEF CalmTool, Screened, Unlucky
    <3>4. res[p] # "locked_out"
      BY <3>1 DEF CalmTool, Screened
    <3>5. \/ stage'[p] = "done" /\ out'[p] = "ok"
          \/ /\ stage'[p] = "done" /\ out'[p] \in {"incorrect", "incorrect_locked", "error"}
             /\ res[p] # "success"
      <4>1. CASE res[p] = "success"
        BY <1>1, <2>4, <2>9, <4>1, Stands DEF Checked, Refusals
      <4>2. CASE res[p] \in Refusals
        <5>1. End(p, Told(p, Verdict(res[p])))
          BY <2>9, <4>2 DEF Checked, Refusals
        <5>2. Told(p, Verdict(res[p])) = Verdict(res[p])
          BY <3>1 DEF Told
        <5>3. Verdict(res[p]) \in {"incorrect", "incorrect_locked"}
          BY <3>4, <4>2 DEF Verdict, Refusals
        <5> QED BY <1>1, <4>2, <5>1, <5>2, <5>3, Stands DEF Refusals
      <4>3. CASE res[p] \in {"error", "not_provisioned"}
        BY <1>1, <2>9, <4>3, Stands DEF Checked, Refusals
      <4> QED BY <2>9, <4>1, <4>2, <4>3 DEF Checked
    <3> QED BY <1>6, <2>1, <2>2, <3>1, <3>2, <3>3, <3>5 DEF Tested, Testing
  <2>10. ~(Reopen(p) \/ Removed(p) \/ Stored(p))
    BY <1>1, <1>6 DEF Flow, Reopen, Removed, Stored, Back
  <2>11. ~CommandStep(p)
    BY <1>6 DEF CommandStep, Testing
  <2> QED BY <2>2, <2>5, <2>6, <2>7, <2>8, <2>9, <2>10, <2>11 DEF OneCommand, Lone
<1> QED BY <1>1, <1>2, <1>3, <1>4, <1>5, <1>6 DEF LoginType, PamStages, Testing

(* The invariant of a login that runs alone while nothing fails.            *)
LEMMA CalmLoginInit ==
  ASSUME PamInit, 0 \notin Limits, NEW p \in Procs
  PROVE  CalmLogin(p)
<1>1. Entries \subseteq Typeable /\ NoPin \in Offered
  BY DEF Typeable, Offered
<1>2. OneLoginInv(p)
  BY OneLoginInit
<1>3. Calmly(p, Typeable)
  BY <1>1, CalmInit DEF PamInit, UtilInit
<1>4. stage[p] = "done" /\ out[p] = "none" /\ pam[p] = "idle" /\ code[p] = "none"
  BY DEF PamInit, UtilInit
<1>5. login[p].token = NoPin
  BY DEF PamInit, NoRequest
<1>6. Informed(p) /\ Tested(p) /\ Reasons(p)
  BY <1>1, <1>4, <1>5 DEF Informed, Tested, Testing, Reasons
<1>7. Entered(p, Typeable) /\ Screened(p) /\ Replacing(p)
  BY <1>4 DEF Entered, Screened, Replacing
<1> QED BY <1>2, <1>3, <1>6, <1>7 DEF CalmLogin, CalmTool, OneLoginInv

(* A login that nothing disturbs keeps to its course at every step.         *)
LEMMA CalmLoginNext ==
  ASSUME NEW p, Procs = {p}, Calm, CalmLogin(p), [PamNext]_pamVars
  PROVE  CalmLogin(p)'
<1>0. OneLoginInv(p)' /\ Entries \subseteq Typeable
  BY OneLoginNext DEF CalmLogin, OneLoginInv, Typeable
<1>1. OneLoginInv(p)' /\ Entries \subseteq Typeable /\ Smooth
  BY <1>0 DEF OneLoginInv, PamInv, UtilTypeOK, TypeOK, Calm, Smooth, Unharmed
<1>2. CASE Authenticate(p) \/ Type(p) \/ ModuleStep(p)
  <2>1. Still /\ stage[p] = "done" /\ ByModule(p)
    BY <1>2, ModuleDoes DEF CalmLogin
  <2>2. CalmTool(p, Typeable)'
    BY <2>1, ModuleCalm DEF CalmLogin
  <2> QED BY <1>1, <1>2, <2>2, ModuleInformed, ModuleReasons DEF CalmLogin, OneLoginInv
<1>3. CASE OneCommand(p)
  <2>1. CalmTool(p, Typeable)' /\ ~KillHelper(p)
    BY <1>1, <1>3, CommandCalm DEF CalmLogin
  <2> QED BY <1>1, <1>3, <2>1, HelperInformed, HelperReasons DEF CalmLogin, OneLoginInv
<1>4. CASE Feed(p)
  <2>1. hand[p] \in Typeable
    BY <1>4 DEF CalmLogin, PamInv, Flow, Testing, Feed
  <2>2. CalmTool(p, Typeable)'
    BY <1>1, <1>4, <2>1, FeedCalm DEF CalmLogin
  <2>3. ~KillHelper(p)
    BY <1>1, <1>4 DEF CalmLogin, PamInv, UtilTypeOK, TypeOK, Smooth, Unharmed, KillHelper,
                      Kill
  <2> QED BY <1>1, <1>4, <2>2, <2>3, HelperInformed, HelperReasons DEF CalmLogin, OneLoginInv
<1>5. CASE UNCHANGED pamVars
  <2>1. Informed(p)'
    BY <1>5 DEF pamVars, CalmLogin, Informed, InHand, Testing, Wrong, Matches, Missed, Known
  <2>2. Calmly(p, Typeable)'
    BY <1>5 DEF pamVars, CalmLogin, CalmTool, Calmly, InPhase, AtCommand, Tidy, Holds, User, Pin
  <2>3. Entered(p, Typeable)' /\ Screened(p)' /\ Replacing(p)'
    BY <1>5 DEF pamVars, CalmLogin, CalmTool, Entered, Screened, Replacing, Target, IsRoot,
                User, Pin, Compares
  <2>4. Tested(p)' /\ Reasons(p)'
    BY <1>5 DEF pamVars, CalmLogin, Tested, Testing, Reasons, Unlucky, Known, Compares
  <2> QED BY <1>1, <2>1, <2>2, <2>3, <2>4 DEF CalmLogin, CalmTool, OneLoginInv
<1> QED BY <1>2, <1>3, <1>4, <1>5, PamSteps DEF PamNext

(* So it does throughout every behaviour.                                   *)
LEMMA CalmLoginAlways ==
  ASSUME NEW p, Procs = {p}, Calm
  PROVE  PamSpec => []CalmLogin(p)
<1>1. PamInit => CalmLogin(p)
  BY CalmLoginInit DEF Calm
<1>2. CalmLogin(p) /\ [PamNext]_pamVars => CalmLogin(p)'
  BY CalmLoginNext
<1> QED BY <1>1, <1>2, PTL DEF PamSpec

(* While one login or command at a time runs and nothing fails, pinutil     *)
(* says "incorrect" only of a PIN that is: a locked slot, at which          *)
(* PinManager says it of any PIN, is screened out before the user is asked. *)
THEOREM IncorrectIsWrong == Solo /\ Calm => (PamSpec => []IncorrectMeansWrong)
<1> SUFFICES ASSUME NEW p, Procs = {p}, Calm PROVE PamSpec => []IncorrectMeansWrong
  BY DEF Solo
<1>1. CalmLogin(p) => IncorrectMeansWrong
  BY DEF CalmLogin, CalmTool, Screened, IncorrectMeansWrong, Done
<1> QED BY <1>1, CalmLoginAlways, PTL

(* The right PIN logs its user in, be it typed or an earlier module's: what *)
(* a login answers instead of SUCCESS, it answers to a wrong PIN, or to a   *)
(* caller who may not test PINs.                                            *)
THEOREM RightPinIsLetIn == Solo /\ Calm => (PamSpec => []RightPinLogsIn)
<1> SUFFICES ASSUME NEW p, Procs = {p}, Calm PROVE PamSpec => []RightPinLogsIn
  BY DEF Solo
<1>1. CalmLogin(p) => RightPinLogsIn
  BY DEF CalmLogin, Reasons, Unlucky, RightPinLogsIn
<1> QED BY <1>1, CalmLoginAlways, PTL

(* MAXTRIES is answered only when the slot takes no more guesses, also when *)
(* the module counted on from an earlier report instead of asking again.    *)
THEOREM MaxTriesIsLocked == Solo /\ Calm => (PamSpec => []MaxTriesMeansLocked)
<1> SUFFICES ASSUME NEW p, Procs = {p}, Calm PROVE PamSpec => []MaxTriesMeansLocked
  BY DEF Solo
<1>1. CalmLogin(p) => MaxTriesMeansLocked
  BY DEF CalmLogin, Reasons, Known, Answered, MaxTriesMeansLocked
<1> QED BY <1>1, CalmLoginAlways, PTL

(* AUTH_ERR, which invites another try, is answered only while there is one.*)
THEOREM AuthErrIsRetryable == Solo /\ Calm => (PamSpec => []AuthErrLeavesAttempts)
<1> SUFFICES ASSUME NEW p, Procs = {p}, Calm PROVE PamSpec => []AuthErrLeavesAttempts
  BY DEF Solo
<1>1. CalmLogin(p) => AuthErrLeavesAttempts
  BY DEF CalmLogin, Reasons, Known, Answered, AuthErrLeavesAttempts
<1> QED BY <1>1, CalmLoginAlways, PTL

(* No step writes the tag of a release that is still to come.               *)
NoneNewer == \A u \in Uids : tag[u] # "newer"

(* No slot is ever tagged by a newer release if none was to begin with.     *)
LEMMA NoneNewerKept ==
  ASSUME PamInv, NoneNewer, [PamNext]_pamVars
  PROVE  NoneNewer'
<1>1. TypeOK /\ UtilTypeOK
  BY DEF PamInv, UtilTypeOK
<1>2. ASSUME NEW p \in Procs, Step(p) PROVE NoneNewer'
  <2>1. UNCHANGED tag \/ \E t \in {"absent", "blank", "current"} : SetTag(p, t)
    BY <1>2 DEF Step, SetupStep, TagStep, DeleteStep, VerifyStep, SetupOwner,
                SetupDefine, SetupWrite, SetupRestart, UndoRestart, TagWrite, TagDefine,
                TagRewrite, Undefine, TagUndefine, VerifyTag, VerifyOpen, VerifyRead,
                VerifyOwner, VerifyRestart, VerifyReopen, MigrateRestart, MigrateReopen
  <2> QED BY <1>1, <2>1 DEF SetTag, TypeOK, NoneNewer
<1>3. ASSUME NEW p \in Procs, Authenticate(p) \/ Type(p) \/ ModuleStep(p) \/ Feed(p)
      PROVE  UNCHANGED tag
  BY <1>3, ModuleDoes DEF Still, Feed, Invoke, Outside
<1>4. ASSUME NEW p \in Procs, OneCommand(p), ~Step(p) PROVE UNCHANGED tag
  <2>1. ToolStep(p) \/ UserStep(p) \/ ManagerStep(p) \/ Kill(p)
    BY <1>4 DEF OneCommand, Lone, HelperLook, HelperManagerStep, CommandStep,
                KillHelper, ToolStep
  <2> QED BY <1>1, <1>4, <2>1, CommandOnStore DEF Outside, Invoke, Killed
<1>5. UNCHANGED tag => NoneNewer'
  BY DEF NoneNewer
<1> QED BY <1>2, <1>3, <1>4, <1>5, PamSteps DEF PamNext, pamVars

(* A store that only this release has written stays one.                    *)
LEMMA CurrentLogin ==
  ASSUME NEW p, Procs = {p}, Calm, CalmLogin(p), CalmLogin(p)', Current(p),
         [PamNext]_pamVars
  PROVE  Current(p)'
<1>1. /\ TypeOK /\ UtilTypeOK /\ Charge(p) /\ Calmly(p, Typeable)
      /\ \A q \in Procs : q = p
  BY DEF CalmLogin, PamInv, UtilTypeOK, CalmTool
<1>0. Smooth
  BY DEF CalmLogin, PamInv, UtilTypeOK, TypeOK, Calm, Smooth, Unharmed
<1>2. CASE Authenticate(p) \/ Type(p) \/ ModuleStep(p)
  BY <1>2, ModuleDoes, CurrentKept DEF CalmLogin, Still
<1>3. CASE OneCommand(p)
  <2>1. ToolStep(p) \/ UserStep(p) \/ ManagerStep(p)
    BY <1>0, <1>1, <1>3
    DEF OneCommand, Lone, HelperLook, HelperManagerStep, CommandStep, KillHelper,
        Kill, ToolStep, TypeOK, Smooth, Unharmed
  <2>2. \/ Step(p)
        \/ UNCHANGED <<slot, tag, chosen, at, phase, job>>
        \/ \E op \in {"setup", "verify", "delete", "delete_auth"}, pin \in PinStrings :
             Invoke(p, op, Target(p), pin)
    BY <1>1, <2>1, CommandOnStore DEF Outside, Killed, TypeOK, Calm
  <2>3. Target(p) \in Uids
    BY <1>1 DEF UtilTypeOK, Target, Commands
  <2> QED BY <1>0, <1>1, <2>2, <2>3, CurrentStep, CurrentInvoke, CurrentKept
<1>4. CASE Feed(p)
  <2>1. Invoke(p, "verify", Target(p), hand[p]) /\ Target(p) \in Uids
    BY <1>0, <1>1, <1>4, CalmWorks DEF Feed, UtilTypeOK, Target, Commands
  <2> QED BY <1>1, <2>1, CurrentInvoke
<1>5. CASE UNCHANGED pamVars
  BY <1>5, CurrentKept DEF pamVars
<1> QED BY <1>2, <1>3, <1>4, <1>5, PamSteps DEF PamNext

(* Whatever a login or a command does, the slot of its user verifies the    *)
(* PIN that was chosen, in the form it was chosen in.                       *)
LEMMA FaithfulLogin ==
  ASSUME NEW p, Procs = {p}, Calm, Unambiguous(Typeable)
  PROVE  PamSpec => [](CalmLogin(p) /\ Faithful(p, Typeable))
<1>1. CASE OneForm(Typeable)
  <2>1. CalmLogin(p) => Faithful(p, Typeable)
    BY <1>1, TidyVerifies DEF CalmLogin, OneStore, PamInv, UtilTypeOK, Faithful
  <2> QED BY <2>1, CalmLoginAlways, PTL
<1>2. CASE OfThisRelease
  <2>1. PamInit => Current(p)
    BY <1>2, CurrentInit DEF PamInit, UtilInit
  <2>2. CalmLogin(p) /\ CalmLogin(p)' /\ Current(p) /\ [PamNext]_pamVars =>
          Current(p)'
    BY CurrentLogin
  <2>3. CalmLogin(p) /\ Current(p) => Faithful(p, Typeable)
    BY CurrentVerifies DEF CalmLogin, PamInv, UtilTypeOK, Faithful
  <2> QED BY <2>1, <2>2, <2>3, CalmLoginAlways, PTL DEF PamSpec
<1> QED BY <1>1, <1>2 DEF Unambiguous

(* A change that runs alone while nothing fails leaves its user a PIN that  *)
(* verifies, however it ends, if no PIN in use is ambiguous and no later    *)
(* release has stored one: a wrong PIN, a PIN that is rejected or a user    *)
(* who gives up leaves the old one.                                         *)
THEOREM ChangedPinVerifies ==
  Solo /\ Calm /\ Unambiguous(Typeable) /\ "newer" \notin Origins =>
    (PamSpec => []ChangeLeavesAPin)
<1> SUFFICES ASSUME NEW p, Procs = {p}, Calm, Unambiguous(Typeable), "newer" \notin Origins
             PROVE  PamSpec => []ChangeLeavesAPin
  BY DEF Solo
<1>1. PamInit => NoneNewer
  <2> SUFFICES ASSUME PamInit PROVE NoneNewer
    OBVIOUS
  <2>1. PICK store \in [Uids -> {StoredBy(o, c, l) :
                                   o \in Origins, c \in Entries, l \in Limits}] :
          tag = [u \in Uids |-> store[u].tag]
    BY DEF PamInit, UtilInit, Init
  <2>2. \A o \in Origins, c \in Entries, l \in Limits : StoredBy(o, c, l).tag # "newer"
    BY PinManagerAssumption DEF StoredBy
  <2> QED BY <2>1, <2>2 DEF NoneNewer
<1>2. CalmLogin(p) /\ NoneNewer /\ [PamNext]_pamVars => NoneNewer'
  BY NoneNewerKept DEF CalmLogin
<1>3. CalmLogin(p) /\ Faithful(p, Typeable) /\ NoneNewer => ChangeLeavesAPin
  <2> SUFFICES ASSUME CalmLogin(p), Faithful(p, Typeable), NoneNewer, Done,
                      cmd[p].kind = "change",
                      out[p] \notin {"none", "denied", "no_pin", "killed"}
               PROVE  Compares(Target(p), chosen[Target(p)])
    BY DEF ChangeLeavesAPin
  <2>1. /\ TypeOK /\ Target(p) \in Uids /\ stage[p] = "done" /\ at[p] = "idle"
    BY DEF CalmLogin, PamInv, UtilTypeOK, Target, Commands, Done, Charge, Inside
  <2>2. slot[Target(p)].state = "written"
    BY <2>1 DEF CalmLogin, CalmTool, Replacing
  <2>3. Tidy(Target(p), Typeable)
    BY <2>1 DEF CalmLogin, CalmTool, Calmly, AtCommand, Settled
  <2> QED BY <2>1, <2>2, <2>3 DEF Faithful, NoneNewer, Tagged
<1> QED BY <1>1, <1>2, <1>3, FaithfulLogin, CalmLoginAlways, PTL DEF PamSpec

-----------------------------------------------------------------------------
(***************************************************************************)
(* Any number of logins and commands at a time, with PINs none of which     *)
(* starts with a zero.                                                      *)
(***************************************************************************)
PlainLogins ==
  /\ PamInv /\ PlainStore
  /\ \A p \in Procs : Errand(p) /\ Entered(p, Typeable)

(* The step of one process, seen from the store and from its own command.   *)
LEMMA LoginDoes ==
  ASSUME PamInv, NEW p \in Procs, Errand(p), Entered(p, Typeable),
         Authenticate(p) \/ Type(p) \/ ModuleStep(p) \/ OneCommand(p) \/ Feed(p)
  PROVE  Does(p, Typeable) /\ Errand(p)' /\ Entered(p, Typeable)'
<1>1. UtilTypeOK /\ ToolType /\ Charge(p) /\ Flow(p)
  BY DEF PamInv, UtilTypeOK, ToolType
<1>2. CASE Authenticate(p) \/ Type(p) \/ ModuleStep(p)
  <2>1. Still /\ stage[p] = "done" /\ ByModule(p)
    BY <1>2, ModuleDoes
  <2>2. Entered(p, Typeable)'
    <3>1. stage'[p] \in {"done", "open"}
      BY <1>1, <2>1, ModuleHelpers DEF Resting, Helper, ToolType
    <3> QED BY <3>1 DEF Entered
  <2> QED BY <2>1, <2>2, ModuleErrand DEF Does, Still, Outside
<1>3. CASE OneCommand(p)
  <2>1. ToolStep(p) \/ UserStep(p) \/ ManagerStep(p) \/ Kill(p)
    BY <1>3 DEF OneCommand, Lone, HelperLook, HelperManagerStep, CommandStep,
                KillHelper, ToolStep
  <2> QED BY <1>1, <2>1, ErrandKept, EnteredKept, TypeablePins
<1>4. CASE Feed(p)
  <2>1. hand[p] \in Typeable /\ Errand(p)'
    BY <1>1, <1>4, FeedErrand DEF Flow, Feed, Testing
  <2>2. CASE Invoke(p, "verify", Target(p), hand[p]) /\ Move(p, "checking")
    <3>1. stage'[p] = "checking" /\ job'[p].pin = hand[p]
      BY <1>1, <2>2, CallErrand DEF Stages
    <3> QED BY <2>1, <2>2, <3>1 DEF Does, Entered, Pin
  <2>3. CASE Outside /\ End(p, "rejected")
    <3>1. stage'[p] = "done"
      BY <1>1, <2>3, Stands
    <3> QED BY <2>1, <2>3, <3>1 DEF Does, Entered
  <2> QED BY <1>4, <2>2, <2>3 DEF Feed
<1> QED BY <1>2, <1>3, <1>4

(* ... and from the other commands.                                         *)
LEMMA OthersEntered ==
  ASSUME PamInv, NEW p \in Procs, NEW q \in Procs, q # p, Errand(q), Entered(q, Typeable),
         Authenticate(p) \/ Type(p) \/ ModuleStep(p) \/ OneCommand(p) \/ Feed(p)
  PROVE  Errand(q)' /\ Entered(q, Typeable)'
<1>1. /\ at'[q] = at[q] /\ phase'[q] = phase[q] /\ job'[q] = job[q] /\ res'[q] = res[q]
      /\ cmd'[q] = cmd[q] /\ stage'[q] = stage[q] /\ out'[q] = out[q] /\ fresh'[q] = fresh[q]
  <2>1. CASE Authenticate(p) \/ Type(p) \/ ModuleStep(p)
    <3>1. ToolType /\ Still /\ ByModule(p)
      BY <2>1, ModuleDoes DEF PamInv, UtilTypeOK, ToolType
    <3> QED BY <3>1, ModuleHelpers DEF Still, Resting, Helper, ToolType
  <2> QED BY <2>1, OtherLogins
<1> QED BY <1>1 DEF Errand, Ended, Entered, IsRoot, User, Pin, Target

(* However many there are, whatever fails or is killed.                     *)
LEMMA PlainLoginsNext ==
  PlainLogins /\ Plain(Typeable) /\ [PamNext]_pamVars =>
    PlainLogins' /\ [RightPinIsFree]_vars
<1> SUFFICES ASSUME PlainLogins, Plain(Typeable), [PamNext]_pamVars
             PROVE  PlainLogins' /\ [RightPinIsFree]_vars
  OBVIOUS
<1>1. PamInv' /\ UtilTypeOK
  BY PamInvNext DEF PlainLogins, PamInv
<1>2. ASSUME NEW p \in Procs,
             Authenticate(p) \/ Type(p) \/ ModuleStep(p) \/ OneCommand(p) \/ Feed(p)
      PROVE  PlainLogins' /\ RightPinIsFree
  <2>1. Does(p, Typeable) /\ Errand(p)' /\ Entered(p, Typeable)'
    BY <1>2, LoginDoes DEF PlainLogins
  <2>2. PlainStore' /\ RightPinIsFree
    BY <1>1, <2>1, PlainDoes DEF PlainLogins
  <2>3. \A q \in Procs : q # p => Errand(q)' /\ Entered(q, Typeable)'
    BY <1>2, OthersEntered DEF PlainLogins
  <2> QED BY <1>1, <2>1, <2>2, <2>3 DEF PlainLogins
<1>3. CASE UNCHANGED pamVars
  <2>1. PlainStore'
    BY <1>3, PlainStoreKept DEF pamVars, PlainLogins
  <2>2. \A p \in Procs : Errand(p)' /\ Entered(p, Typeable)'
    BY <1>3 DEF pamVars, PlainLogins, Errand, Ended, Entered, IsRoot, User, Pin, Target
  <2> QED BY <1>1, <1>3, <2>1, <2>2 DEF PlainLogins, pamVars, vars
<1> QED BY <1>2, <1>3, PamSteps DEF PamNext

(* Initially every slot and every entry is in plain form.                   *)
LEMMA PlainLoginsInit == PamInit /\ Plain(Typeable) => PlainLogins
<1> SUFFICES ASSUME PamInit, Plain(Typeable) PROVE PlainLogins
  OBVIOUS
<1>1. PlainStore
  BY PlainStoreInit, TypeablePins DEF PamInit, UtilInit, Plain
<1>2. \A p \in Procs : OneLoginInv(p) /\ Entered(p, Typeable)
  BY OneLoginInit DEF PamInit, UtilInit, Entered
<1> QED BY <1>1, <1>2, PamInvInit DEF PlainLogins, OneLoginInv

(* A login or a command with the right PIN never costs an attempt, however  *)
(* many others run beside it and whatever fails or is killed, where no PIN  *)
(* starts with a zero.                                                      *)
THEOREM PlainLoginNeverCounts == Plain(Typeable) => (PamSpec => RightPinCostsNothing)
<1> SUFFICES ASSUME Plain(Typeable) PROVE PamSpec => RightPinCostsNothing
  OBVIOUS
<1> QED BY PlainLoginsInit, PlainLoginsNext, PTL DEF PamSpec, RightPinCostsNothing

(* However many logins and commands add tags, change and remove PINs at the *)
(* same time: while nothing fails or is killed, no slot is left unwritten,  *)
(* and what is left in a slot is the verifiable PIN of one setup.           *)
THEOREM PlainLoginsVerify ==
  Plain(Typeable) /\ MaxFaults = 0 /\ MaxCrashes = 0 =>
    (PamSpec => []RemainingVerifies)
<1> SUFFICES ASSUME Plain(Typeable), MaxFaults = 0, MaxCrashes = 0
             PROVE  PamSpec => []RemainingVerifies
  OBVIOUS
<1>1. PamInit => BlanksWritten
  BY BlanksInit DEF PamInit, UtilInit
<1>2. PlainLogins /\ BlanksWritten /\ [PamNext]_pamVars => BlanksWritten'
  <2> SUFFICES ASSUME PlainLogins, BlanksWritten, [PamNext]_pamVars PROVE BlanksWritten'
    OBVIOUS
  <2>1. ASSUME NEW p \in Procs,
               Authenticate(p) \/ Type(p) \/ ModuleStep(p) \/ OneCommand(p) \/ Feed(p)
        PROVE  BlanksWritten'
    BY <2>1, LoginDoes, BlanksDo DEF PlainLogins, PamInv
  <2>2. CASE UNCHANGED pamVars
    BY <2>2, BlanksKept DEF pamVars
  <2> QED BY <2>1, <2>2, PamSteps DEF PamNext
<1>3. PlainLogins /\ BlanksWritten => RemainingVerifies
  BY PlainVerifies DEF PlainLogins, PamInv, UtilTypeOK
<1> QED BY <1>1, <1>2, <1>3, PlainLoginsInit, PlainLoginsNext, PTL DEF PamSpec
=============================================================================
