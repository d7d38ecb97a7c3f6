--------------------------- MODULE PamStackProofs ---------------------------
(***************************************************************************)
(* Proofs about the documented stack, for every place and control of        *)
(* libpinpam_master_key and any number of master-key commands at its side.  *)
(***************************************************************************)
EXTENDS PamStackProps, MasterKeyProofs

(* To the master key, a login does nothing.                                 *)
LEMMA StackKeepsKeys == StackSpec => Spec
<1>1. StackInit => Init
  BY DEF StackInit
<1>2. [StackNext]_stackVars => [Next]_vars
  BY DEF StackNext, stackVars, vars, LoginStep, KeyStep
<1> QED BY <1>1, <1>2, PTL DEF StackSpec, Spec

-----------------------------------------------------------------------------
EntryOK == entry \in [control : Controls, place : Places]

(* After the decision: the keyring, and libpinpam_master_key where the      *)
(* documentation puts it.                                                   *)
Late == pos = 5 \/ (pos = 4 /\ entry.place = <<4, 0>>)

(* The controls and the places that the entry may have.                     *)
LEMMA PlacesOK ==
  ASSUME EntryOK
  PROVE  /\ entry.control \in {"required", "requisite", "sufficient", "optional"}
         /\ \/ entry.place = <<1, 0>> \/ entry.place = <<1, 1>> \/ entry.place = <<2, 1>>
            \/ entry.place = <<3, 1>> \/ entry.place = <<4, 1>> \/ entry.place = <<4, 0>>
<1>1. entry.control \in Controls /\ entry.place \in Places
  BY DEF EntryOK
<1> QED
  BY <1>1, StackAssumption

(* What stands where.                                                       *)
LEMMA Layout ==
  ASSUME EntryOK, pos \in 1..5
  PROVE  /\ Here.level \in 0..1
         /\ Here.name \in {"pinpam", "unix", "deny", "keyring", "master_key"}
         /\ Here.name = "keyring" <=> pos = 5
         /\ Here.name \in {"pinpam", "unix"} =>
              /\ Here.control = "sufficient" /\ Here.level = 1 /\ ~Late
              /\ pos < 4
              /\ ~(entry.place \in {<<4, 1>>, <<4, 0>>} /\ pos = 3)
         /\ Here.name = "deny" =>
              Here.control = "requisite" /\ Here.level = 1 /\ ~Late
         /\ Here.name = "keyring" => Here.control = "optional" /\ Here.level = 0
         /\ Here.name = "master_key" <=> pos = entry.place[1]
<1> DEFINE n == entry.place[1]
           l == entry.place[2]
<1>1. Here = IF pos = n THEN Module("master_key", entry.control, l)
             ELSE Documented[IF pos < n THEN pos ELSE pos - 1]
  BY DEF Here, Stack
<1>2. /\ Documented[1] = Module("pinpam", "sufficient", 1)
      /\ Documented[2] = Module("unix", "sufficient", 1)
      /\ Documented[3] = Module("deny", "requisite", 1)
      /\ Documented[4] = Module("keyring", "optional", 0)
  BY DEF Documented
<1>3. ASSUME NEW name, NEW control, NEW level, Here = Module(name, control, level)
      PROVE  Here.name = name /\ Here.control = control /\ Here.level = level
  BY <1>3 DEF Module
<1>4. CASE pos = n
  BY <1>1, <1>3, <1>4, PlacesOK DEF Late
<1>5. CASE pos # n
  <2>1. n \in 1..4 /\ (n = 4 <=> entry.place \in {<<4, 1>>, <<4, 0>>})
    BY PlacesOK
  <2>2. CASE (IF pos < n THEN pos ELSE pos - 1) = 1
    BY <1>1, <1>2, <1>3, <1>5, <2>1, <2>2 DEF Late
  <2>3. CASE (IF pos < n THEN pos ELSE pos - 1) = 2
    BY <1>1, <1>2, <1>3, <1>5, <2>1, <2>3 DEF Late
  <2>4. CASE (IF pos < n THEN pos ELSE pos - 1) = 3
    BY <1>1, <1>2, <1>3, <1>5, <2>1, <2>4 DEF Late
  <2>5. CASE (IF pos < n THEN pos ELSE pos - 1) = 4
    BY <1>1, <1>2, <1>3, <1>5, <2>1, <2>5 DEF Late
  <2> QED
    BY <1>5, <2>1, <2>2, <2>3, <2>4, <2>5
<1> QED
  BY <1>4, <1>5

(* The substack is left for the first entry after it.                       *)
LEMMA Skipping ==
  ASSUME EntryOK, pos \in 1..5, Here.name \in {"pinpam", "unix", "deny"}
  PROVE  Beyond = IF entry.place = <<4, 0>> THEN 4 ELSE 5
<1> DEFINE n == entry.place[1]
           left == {i \in pos..5 : Stack[i].level < Here.level}
           first == IF entry.place = <<4, 0>> THEN 4 ELSE 5
<1>1. Here.level = 1 /\ pos # n /\ pos < first
  <2>1. Here.level = 1 /\ pos # n /\ ~Late
    BY Layout
  <2> QED
    BY <2>1 DEF Late
<1>2. \A i \in 1..5 : Stack[i].level =
        IF i = n THEN entry.place[2] ELSE IF i = 5 THEN 0 ELSE 1
  <2> SUFFICES ASSUME NEW i \in 1..5
               PROVE  Stack[i].level = IF i = n THEN entry.place[2]
                                       ELSE IF i = 5 THEN 0 ELSE 1
    OBVIOUS
  <2>1. Stack[i] = IF i = n THEN Module("master_key", entry.control, entry.place[2])
                   ELSE Documented[IF i < n THEN i ELSE i - 1]
    BY DEF Stack
  <2>2. /\ Documented[1].level = 1 /\ Documented[2].level = 1
        /\ Documented[3].level = 1 /\ Documented[4].level = 0
    BY DEF Documented, Module
  <2>3. n \in 1..4
    BY PlacesOK
  <2> QED
    BY <2>1, <2>2, <2>3 DEF Module
<1>3. first \in left /\ \A i \in left : first <= i
  BY <1>1, <1>2, PlacesOK
<1>4. \A i \in left : (\A j \in left : i <= j) => i = first
  BY <1>3
<1>5. left # {} /\ (CHOOSE i \in left : \A j \in left : i <= j) = first
  BY <1>3, <1>4
<1> QED
  BY <1>5 DEF Beyond

-----------------------------------------------------------------------------
(* In the substack nothing has counted yet; what follows it finds a login   *)
(* that has succeeded or failed already.                                    *)
OnTheWay ==
  /\ pos = 4 => entry.place # <<4, 1>>
  /\ passed => Late
  /\ impression = IF passed THEN "positive" ELSE IF Late THEN "negative" ELSE "undefined"
  /\ verdict = "none"

DecisionInv == /\ EntryOK /\ pos \in 0..5 /\ passed \in BOOLEAN
               /\ pos # 0 => OnTheWay
               /\ VerdictIsTheDecision

(* Initially no login has begun.                                            *)
LEMMA DecisionInit == StackInit => DecisionInv
<1> SUFFICES ASSUME StackInit PROVE DecisionInv
  OBVIOUS
<1>1. EntryOK /\ pos = 0 /\ passed = FALSE /\ verdict = "none"
  BY DEF StackInit, EntryOK
<1>2. VerdictIsTheDecision
  BY <1>1 DEF VerdictIsTheDecision
<1>3. pos \in 0..5 /\ ~(pos # 0)
  BY <1>1
<1>4. passed \in BOOLEAN
  BY <1>1, Zenon
<1> QED
  BY <1>1, <1>2, <1>3, <1>4 DEF DecisionInv

(* libpinpam, pam_unix and pam_deny.                                        *)
LEMMA SubstackStep ==
  ASSUME DecisionInv, PinStage \/ PasswordStage \/ DenyStage
  PROVE  DecisionInv'
<1>1. pos \in 1..5 /\ EntryOK /\ OnTheWay /\ entry' = entry
  BY DEF DecisionInv, PinStage, PasswordStage, DenyStage, At
<1>2. ~Late /\ ~passed /\ impression = "undefined"
  BY <1>1, Layout DEF OnTheWay, PinStage, PasswordStage, DenyStage, At
<1>3. Beyond = IF entry.place = <<4, 0>> THEN 4 ELSE 5
  BY <1>1, Skipping DEF PinStage, PasswordStage, DenyStage, At
<1>4. CASE /\ Here.name \in {"pinpam", "unix"}
           /\ Dispatch("SUCCESS") /\ passed' = TRUE
  <2>1. Reaction(Here.control, "SUCCESS") = "done"
    BY <1>1, <1>4, Layout DEF Reaction
  <2>2. impression' = "positive" /\ pos' = Beyond /\ verdict' = "none"
    BY <1>2, <1>3, <1>4, <2>1 DEF Dispatch
  <2>3. Late'
    BY <1>1, <1>3, <2>2 DEF Late
  <2> QED
    BY <1>1, <1>3, <1>4, <2>2, <2>3 DEF DecisionInv, OnTheWay, EntryOK, VerdictIsTheDecision
<1>5. CASE /\ Here.name \in {"pinpam", "unix"}
           /\ Dispatch("failure") /\ passed' = FALSE
  <2>1. Reaction(Here.control, "failure") = "ignore" /\ pos < 4
        /\ ~(entry.place \in {<<4, 1>>, <<4, 0>>} /\ pos = 3)
    BY <1>1, <1>5, Layout DEF Reaction
  <2>2. impression' = "undefined" /\ pos' = pos + 1 /\ verdict' = "none"
    BY <1>1, <1>2, <1>5, <2>1 DEF Dispatch
  <2>3. ~Late' /\ (pos' = 4 => entry.place # <<4, 1>>)
    BY <1>1, <2>1, <2>2 DEF Late
  <2>4. OnTheWay'
    BY <1>5, <2>2, <2>3, <1>1 DEF OnTheWay
  <2>5. EntryOK' /\ pos' \in 0..5
    BY <1>1, <1>5, <2>1, <2>2 DEF EntryOK
  <2>6. passed' \in BOOLEAN
    BY <1>5, Zenon
  <2>7. VerdictIsTheDecision'
    BY <2>2 DEF VerdictIsTheDecision
  <2> QED
    BY <2>4, <2>5, <2>6, <2>7 DEF DecisionInv
<1>6. CASE Here.name = "deny" /\ Dispatch("failure") /\ passed' = passed
  <2>1. Reaction(Here.control, "failure") = "die"
    BY <1>1, <1>6, Layout DEF Reaction
  <2>2. impression' = "negative" /\ pos' = Beyond /\ verdict' = "none"
    BY <1>2, <1>3, <1>6, <2>1 DEF Dispatch
  <2>3. Late'
    BY <1>1, <1>3, <2>2 DEF Late
  <2> QED
    BY <1>1, <1>2, <1>3, <1>6, <2>2, <2>3
       DEF DecisionInv, OnTheWay, EntryOK, VerdictIsTheDecision
<1> QED
  BY <1>2, <1>4, <1>5, <1>6 DEF PinStage, PasswordStage, DenyStage, At

(* libpinpam_master_key is ignored, whether or not it derived a token.      *)
LEMMA TokenStep ==
  ASSUME DecisionInv, Skip \/ TokenMac
  PROVE  DecisionInv'
<1>1. /\ pos \in 1..5 /\ EntryOK /\ OnTheWay /\ entry' = entry /\ passed' = passed
      /\ Here.name = "master_key" /\ Dispatch("IGNORE")
  BY DEF DecisionInv, Skip, TokenMac, At, Returned
<1>2. pos = entry.place[1]
  BY <1>1, Layout
<1>3. pos < 5 /\ pos \in 1..4 /\ (pos + 1 = 4 => ~Late /\ entry.place # <<4, 1>>)
  BY <1>1, <1>2, PlacesOK DEF Late
<1>4. impression' = impression /\ pos' = pos + 1 /\ verdict' = "none"
  BY <1>1, <1>3 DEF Dispatch, Reaction
<1>5. Late' <=> Late
  BY <1>1, <1>2, <1>3, <1>4, PlacesOK DEF Late, OnTheWay
<1> QED
  BY <1>1, <1>3, <1>4, <1>5 DEF DecisionInv, OnTheWay, EntryOK, VerdictIsTheDecision

(* The keyring comes last, and cannot make up for a failure.                *)
LEMMA KeyringStep ==
  ASSUME DecisionInv, KeyringStage
  PROVE  DecisionInv'
<1>1. /\ pos \in 1..5 /\ EntryOK /\ OnTheWay /\ entry' = entry /\ passed' = passed
      /\ Here.name = "keyring"
  BY DEF DecisionInv, KeyringStage, At
<1>2. pos = 5 /\ Here.control = "optional" /\ Late
  BY <1>1, Layout DEF Late
<1>3. PICK answer \in {"SUCCESS", "IGNORE"} : Dispatch(answer)
  BY DEF KeyringStage
<1>4. Reaction(Here.control, answer) \in {"ok", "ignore"}
  BY <1>2 DEF Reaction
<1>5. pos' = 0 /\ impression' = impression
      /\ verdict' = IF impression = "positive" THEN "SUCCESS" ELSE "failure"
  BY <1>1, <1>2, <1>3, <1>4 DEF Dispatch, OnTheWay
<1> QED
  BY <1>1, <1>2, <1>5 DEF DecisionInv, OnTheWay, EntryOK, VerdictIsTheDecision

(* Every step keeps libpam's impression in line with what was right.        *)
LEMMA DecisionStep == DecisionInv /\ [StackNext]_stackVars => DecisionInv'
<1> SUFFICES ASSUME DecisionInv, [StackNext]_stackVars PROVE DecisionInv'
  OBVIOUS
<1>1. CASE UNCHANGED <<entry, pos, impression, verdict, passed>>
  BY <1>1 DEF DecisionInv, OnTheWay, Late, EntryOK, VerdictIsTheDecision
<1>2. CASE Login
  <2>1. EntryOK' /\ pos' = 1 /\ passed' = FALSE /\ impression' = "undefined" /\ verdict' = "none"
    BY <1>2 DEF Login, DecisionInv, EntryOK
  <2>2. OnTheWay'
    BY <2>1 DEF OnTheWay, Late
  <2>3. VerdictIsTheDecision'
    BY <2>1 DEF VerdictIsTheDecision
  <2>4. pos' \in 0..5
    BY <2>1
  <2>5. passed' \in BOOLEAN
    BY <2>1, Zenon
  <2> QED
    BY <2>1, <2>2, <2>3, <2>4, <2>5 DEF DecisionInv
<1> QED
  BY <1>1, <1>2, SubstackStep, TokenStep, KeyringStep
     DEF StackNext, stackVars, LoginStep, KeyStep, TokenLook

(* libpinpam_master_key neither grants nor denies a login, under every      *)
(* control, at every place, whatever becomes of the key.                    *)
THEOREM DecisionStands == StackSpec => []VerdictIsTheDecision
<1>1. DecisionInv => VerdictIsTheDecision
  BY DEF DecisionInv
<1> QED BY DecisionInit, DecisionStep, <1>1, PTL DEF StackSpec

-----------------------------------------------------------------------------
(* libpam gives one of its verdicts.                                        *)
LEMMA DispatchType ==
  ASSUME NEW answer, Dispatch(answer), impression \in {"undefined", "positive", "negative"}
  PROVE  /\ impression' \in {"undefined", "positive", "negative"}
         /\ verdict' \in {"none", "SUCCESS", "failure"}
  BY DEF Dispatch

(* Initially every variable of a login has its type.                        *)
LEMMA StackTypeInit == StackInit => LoginTypeOK
<1> SUFFICES ASSUME StackInit PROVE LoginTypeOK
  OBVIOUS
<1>1. passed \in BOOLEAN /\ calm \in BOOLEAN
  BY Zenon DEF StackInit
<1> QED
  BY <1>1 DEF LoginTypeOK, StackInit, Tokens

(* Every step keeps the types.                                              *)
LEMMA StackTypeStep ==
  LoginTypeOK /\ DecisionInv' /\ KeyTypeOK /\ [StackNext]_stackVars => LoginTypeOK'
<1> SUFFICES ASSUME LoginTypeOK, DecisionInv', KeyTypeOK, [StackNext]_stackVars
             PROVE  LoginTypeOK'
  OBVIOUS
<1> USE DEF LoginTypeOK
<1>1. pos' \in 0..5 /\ entry' \in [control : Controls, place : Places] /\ passed' \in BOOLEAN
  BY DEF DecisionInv, EntryOK
<1>2. hmac \in Keys \cup {NoKey}
  BY DEF KeyTypeOK
<1>3. CASE UNCHANGED stackVars
  BY <1>3 DEF stackVars
<1>4. CASE Login
  <2>1. calm' \in BOOLEAN
    BY <1>4, Zenon DEF Login
  <2> QED
    BY <1>1, <1>2, <1>4, <2>1 DEF Login, Tokens
<1>5. CASE PinStage \/ PasswordStage
  BY <1>1, <1>5, DispatchType DEF PinStage, PasswordStage, Tokens
<1>6. CASE DenyStage \/ KeyringStage
  BY <1>1, <1>6, DispatchType DEF DenyStage, KeyringStage
<1>7. CASE Skip
  <2>1. calm' \in BOOLEAN
    BY <1>7 DEF Skip
  <2> QED
    BY <1>1, <1>7, <2>1, DispatchType DEF Skip
<1>8. CASE TokenLook
  BY <1>1, <1>2, <1>8 DEF TokenLook
<1>9. CASE TokenMac
  BY <1>1, <1>2, <1>9, DispatchType DEF TokenMac, Stamped, Tokens
<1>10. CASE KeyStep
  <2>1. calm' \in BOOLEAN
    BY <1>10 DEF KeyStep
  <2> QED
    BY <1>1, <1>10, <2>1 DEF KeyStep
<1> QED
  BY <1>3, <1>4, <1>5, <1>6, <1>7, <1>8, <1>9, <1>10 DEF StackNext, LoginStep

(* Every variable of a login keeps its type beside any number of master-key *)
(* commands.                                                                *)
THEOREM StackTyped == StackSpec => []StackTypeOK
<1>1. StackSpec => []KeyTypeOK
  BY StackKeepsKeys, KeysTyped, PTL
<1>2. StackSpec => []DecisionInv
  BY DecisionInit, DecisionStep, PTL DEF StackSpec
<1>3. StackSpec => []LoginTypeOK
  BY <1>1, <1>2, StackTypeInit, StackTypeStep, PTL DEF StackSpec
<1>4. LoginTypeOK /\ KeyTypeOK => StackTypeOK
  BY DEF StackTypeOK
<1> QED
  BY <1>1, <1>3, <1>4, PTL

-----------------------------------------------------------------------------
(* On a login that nothing disturbs, the key of its beginning is there all  *)
(* along, its token waits before the keyring, and the keyring takes it.     *)
TokenInv ==
  InOrder /\ calm /\ present # NoKey =>
    /\ pos # 0 => hmac = present /\ handle \in {NoKey, present}
    /\ pos = 5 => authtok = present
    /\ verdict # "none" => captured = present

(* Initially no token waits.                                                *)
LEMMA TokenInit == StackInit => TokenInv
  BY DEF StackInit, TokenInv

(* The substack hands over to libpinpam_master_key, not to the keyring.     *)
LEMMA HandsOver ==
  ASSUME DecisionInv, InOrder, PinStage \/ PasswordStage \/ DenyStage
  PROVE  pos # 0 /\ pos' \in 1..4 /\ verdict' = "none"
<1>1. pos \in 1..5 /\ EntryOK /\ Here.name \in {"pinpam", "unix", "deny"}
  BY DEF DecisionInv, PinStage, PasswordStage, DenyStage, At
<1>2. pos \in 1..3
  BY <1>1, Layout DEF Late, InOrder
<1>3. Beyond = 4
  BY <1>1, Skipping DEF InOrder
<1>4. PICK answer : Dispatch(answer)
  BY DEF PinStage, PasswordStage, DenyStage
<1> QED
  BY <1>2, <1>3, <1>4 DEF Dispatch

(* Every step keeps the token that waits.                                   *)
LEMMA TokenKept ==
  TokenInv /\ DecisionInv /\ [StackNext]_stackVars => TokenInv'
<1> SUFFICES ASSUME TokenInv, DecisionInv, [StackNext]_stackVars,
                    InOrder', calm', present' # NoKey
             PROVE  /\ pos' # 0 => hmac' = present' /\ handle' \in {NoKey, present'}
                    /\ pos' = 5 => authtok' = present'
                    /\ verdict' # "none" => captured' = present'
  BY DEF TokenInv
<1>1. CASE UNCHANGED stackVars
  BY <1>1 DEF stackVars, TokenInv, InOrder
<1>2. CASE Login /\ UNCHANGED vars
  BY <1>2 DEF Login, vars
<1>3. CASE (PinStage \/ PasswordStage \/ DenyStage) /\ UNCHANGED vars
  <2>1. InOrder /\ calm /\ present' = present /\ hmac' = hmac /\ handle' = handle
    BY <1>3 DEF InOrder, PinStage, PasswordStage, DenyStage, vars
  <2>2. pos # 0 /\ pos' \in 1..4 /\ verdict' = "none"
    BY <1>3, <2>1, HandsOver
  <2> QED
    BY <2>1, <2>2 DEF TokenInv
<1>4. CASE (Skip \/ TokenLook \/ TokenMac) /\ UNCHANGED vars
  <2>1. /\ InOrder /\ present' = present /\ hmac' = hmac
        /\ pos \in 1..5 /\ Here.name = "master_key" /\ EntryOK /\ verdict = "none"
    <3>1. present' = present /\ hmac' = hmac /\ entry' = entry
      BY <1>4 DEF Skip, TokenLook, TokenMac, vars
    <3>2. At("master_key")
      BY <1>4 DEF Skip, TokenLook, TokenMac
    <3>3. pos \in 1..5 /\ EntryOK /\ verdict = "none"
      BY <3>2 DEF At, DecisionInv, OnTheWay
    <3> QED
      BY <3>1, <3>2, <3>3 DEF At, InOrder
  <2>2. calm /\ (Skip => hmac = NoKey)
    BY <1>4, Zenon DEF Skip, TokenLook, TokenMac
  <2>3. pos = 4 /\ hmac = present /\ handle \in {NoKey, present}
    BY <2>1, <2>2, Layout DEF InOrder, TokenInv
  <2>4. CASE Skip
    BY <2>1, <2>2, <2>3, <2>4
  <2>5. CASE TokenLook
    BY <2>1, <2>3, <2>5 DEF TokenLook
  <2>6. CASE TokenMac
    <3>1. pos' = 5 /\ verdict' = "none"
      BY <2>3, <2>6 DEF TokenMac, Returned, Dispatch, Reaction
    <3> QED
      BY <2>1, <2>3, <2>6, <3>1 DEF TokenMac, Stamped
  <2> QED
    BY <1>4, <2>4, <2>5, <2>6
<1>5. CASE KeyringStage /\ UNCHANGED vars
  <2>1. InOrder /\ calm /\ present' = present /\ pos \in 1..5 /\ Here.name = "keyring"
        /\ EntryOK
    BY <1>5 DEF InOrder, KeyringStage, At, DecisionInv
  <2>2. pos = 5 /\ authtok = present
    BY <2>1, Layout DEF TokenInv
  <2>3. pos' = 0
    BY <1>5, <2>1, <2>2, Layout DEF KeyringStage, Dispatch, Reaction
  <2> QED
    BY <1>5, <2>1, <2>2, <2>3 DEF KeyringStage
<1>6. CASE KeyStep
  <2>1. calm /\ hmac' = hmac
    BY <1>6, Zenon DEF KeyStep
  <2> QED
    BY <1>6, <2>1 DEF KeyStep, TokenInv, InOrder
<1> QED
  BY <1>1, <1>2, <1>3, <1>4, <1>5, <1>6 DEF StackNext, LoginStep

(* A keyring gets the token of the key in the TPM from every login that     *)
(* nothing disturbed, whether its PIN or its password was right or not.     *)
THEOREM KeyringGetsTheToken == StackSpec => []SameTokenEitherWay
<1>1. StackSpec => []DecisionInv
  BY DecisionInit, DecisionStep, PTL DEF StackSpec
<1>2. StackSpec => []TokenInv
  BY <1>1, TokenInit, TokenKept, PTL DEF StackSpec
<1>3. TokenInv => SameTokenEitherWay
  BY DEF TokenInv, SameTokenEitherWay
<1> QED BY <1>2, <1>3, PTL

-----------------------------------------------------------------------------
(* What one process's commands promise of the master key holds just as well *)
(* beside logins, whatever these do between two operations of a command.    *)
THEOREM KeysBesideLogins ==
  /\ Solo => (StackSpec => ShownKeysStay /\ []InitStartsAgain)
  /\ Solo /\ MaxFaults <= 1 /\ MaxCrashes = 0 => (StackSpec => []KeyHasFile)
<1>1. ASSUME Solo PROVE StackSpec => ShownKeysStay /\ []InitStartsAgain
  <2>1. Spec => ShownKeysStay
    BY <1>1, RollbackSparesShownKeys
  <2>2. Spec => []InitStartsAgain
    BY <1>1, ClearedStartsAgain
  <2> QED BY <2>1, <2>2, StackKeepsKeys
<1>2. ASSUME Solo, MaxFaults <= 1, MaxCrashes = 0 PROVE StackSpec => []KeyHasFile
  <2>1. Spec => []KeyHasFile
    BY <1>2, NoKeyWithoutFile
  <2> QED BY <2>1, StackKeepsKeys
<1> QED BY <1>1, <1>2
=============================================================================
