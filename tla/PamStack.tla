------------------------------ MODULE PamStack ------------------------------
(***************************************************************************)
(* A login through the stack that the documentation gives for the master    *)
(* key: a substack that decides, by PIN or by password, then                *)
(* libpinpam_master_key, which puts the user's token in the place of the    *)
(* password, then a keyring, which keeps what it finds there.  The token    *)
(* comes from a helper that looks the key up and then uses it, while the    *)
(* commands of MasterKey run.  One user; the token of a key is the key.     *)
(***************************************************************************)
EXTENDS MasterKey, Integers

CONSTANTS Controls,    \* of the entry of libpinpam_master_key
          Places       \* where it is inserted: before which entry, at which level

ASSUME StackAssumption ==
  /\ Controls \subseteq {"required", "requisite", "sufficient", "optional"}
  /\ Places \subseteq {<<1, 0>>, <<1, 1>>, <<2, 1>>, <<3, 1>>, <<4, 1>>, <<4, 0>>}

VARIABLES entry,       \* control and place of that entry
          pos,         \* the entry of the stack libpam is at; 0: no login
          impression,  \* libpam's, so far
          verdict,     \* what the application was told
          authtok,     \* PAM_AUTHTOK
          handle,      \* the key that the token helper has looked up
          passed,      \* history: the PIN or the password was right
          captured,    \* what the keyring kept
          present,     \* history: the key in the TPM when the login began,
          calm         \*   and whether it stayed and its token was derived

stackVars == <<parent, hmac, file, drawn, known, erased, at, job, res, start,
               faults, crashes, entry, pos, impression, verdict, authtok, handle,
               passed, captured, present, calm>>

(* PAM_AUTHTOK: nothing, a password (right or wrong), or a key's token.     *)
NoToken  == -1
Password == 0
Tokens   == Keys \cup {NoToken, Password}

Module(name, control, level) == [name |-> name, control |-> control, level |-> level]

Documented == <<Module("pinpam", "sufficient", 1), Module("unix", "sufficient", 1),
                Module("deny", "requisite", 1), Module("keyring", "optional", 0)>>

(* libpinpam_master_key stands before, in or after the substack.            *)
Stack ==
  [i \in 1..5 |->
     IF i = entry.place[1] THEN Module("master_key", entry.control, entry.place[2])
     ELSE Documented[IF i < entry.place[1] THEN i ELSE i - 1]]

Here == Stack[pos]

StackInit ==
  /\ Init
  /\ entry \in [control : Controls, place : Places]
  /\ pos = 0 /\ impression = "undefined" /\ verdict = "none"
  /\ authtok = NoToken /\ handle = NoKey
  /\ passed = FALSE /\ captured = NoToken
  /\ present = NoKey /\ calm = TRUE

-----------------------------------------------------------------------------
(* libpam.  What a control makes of what a module returned.                 *)
Reaction(control, answer) ==
  CASE answer = "SUCCESS" /\ control = "sufficient" -> "done"
    [] answer = "SUCCESS" /\ control # "sufficient" -> "ok"
    [] answer = "IGNORE"                            -> "ignore"
    [] answer = "failure" /\ control = "required"   -> "bad"
    [] answer = "failure" /\ control = "requisite"  -> "die"
    [] OTHER                                        -> "ignore"

(* Mutant: the rest of a substack is the rest of the stack.                 *)
OverrunMutant == 6

(* Where the login goes on when the rest of the substack is skipped.        *)
Beyond ==
  LET left == {i \in pos..5 : Stack[i].level < Here.level}
  IN  IF left = {} THEN 0 ELSE CHOOSE i \in left : \A j \in left : i <= j

(* A success counts unless there was a failure before, a failure always.    *)
Dispatch(answer) ==
  LET reaction == Reaction(Here.control, answer)
      good == reaction \in {"ok", "done"} /\ impression # "negative"
      bad  == reaction \in {"bad", "die"}
      next == IF reaction = "die" \/ (reaction = "done" /\ good)
                THEN Beyond
              ELSE IF pos < 5 THEN pos + 1 ELSE 0
  IN
  /\ impression' = IF good THEN "positive" ELSE IF bad THEN "negative" ELSE impression
  /\ pos' = next
  /\ verdict' = IF next # 0 THEN "none"
                ELSE IF impression' = "positive" THEN "SUCCESS" ELSE "failure"

(* pam_authenticate is called.                                              *)
Login ==
  /\ pos = 0
  /\ pos' = 1 /\ verdict' = "none" /\ impression' = "undefined"
  /\ authtok' = NoToken /\ handle' = NoKey
  /\ passed' = FALSE /\ captured' = NoToken
  /\ present' = hmac /\ calm' = TRUE
  /\ UNCHANGED entry

At(name) == pos # 0 /\ Here.name = name

(* libpinpam leaves PAM_AUTHTOK alone; libpam treats all its refusals alike.*)
PinStage ==
  /\ At("pinpam")
  /\ \E answer \in {"SUCCESS", "failure"} :
       /\ Dispatch(answer)
       /\ passed' = (passed \/ answer = "SUCCESS")
  /\ UNCHANGED <<entry, authtok, handle, captured, present, calm>>

(* pam_unix leaves the password in PAM_AUTHTOK, be it right or wrong.       *)
PasswordStage ==
  /\ At("unix")
  /\ \E answer \in {"SUCCESS", "failure"} :
       /\ Dispatch(answer)
       /\ passed' = (passed \/ answer = "SUCCESS")
  /\ authtok' = Password
  /\ UNCHANGED <<entry, handle, captured, present, calm>>

DenyStage ==
  /\ At("deny")
  /\ Dispatch("failure")
  /\ UNCHANGED <<entry, authtok, handle, passed, captured, present, calm>>

(* A keyring may succeed or stay out of the decision.                       *)
KeyringStage ==
  /\ At("keyring")
  /\ \E answer \in {"SUCCESS", "IGNORE"} : Dispatch(answer)
  /\ captured' = authtok
  /\ UNCHANGED <<entry, authtok, handle, passed, present, calm>>

-----------------------------------------------------------------------------
(* Mutant: the module reports whether it has set the token.                 *)
ReportMutant(token) == IF token = NoToken THEN "failure" ELSE "SUCCESS"

(* What libpinpam_master_key returns for the token it has derived.          *)
Returned(token) == "IGNORE"

(* Mutant: a password that is there is kept.                                *)
PoliteMutant(token) == IF authtok = NoToken THEN token ELSE authtok

(* set_pam_authtok.                                                         *)
Stamped(token) == token

(* The helper fails: there is no key, the TPM or the helper fails, or the   *)
(* process that serves the login does not have the real uid 0.              *)
Skip ==
  /\ At("master_key")
  /\ Dispatch(Returned(NoToken))
  /\ handle' = NoKey
  /\ calm' = (calm /\ hmac = NoKey)
  /\ UNCHANGED <<entry, authtok, passed, captured, present>>

(* derive_user_token: tr_from_tpm_public.                                   *)
TokenLook ==
  /\ At("master_key") /\ handle = NoKey /\ hmac # NoKey
  /\ handle' = hmac
  /\ UNCHANGED <<entry, pos, impression, verdict, authtok, passed, captured,
                 present, calm>>

(* derive_user_token: hmac, under the handle.  A key that took the place of *)
(* the one that was looked up may answer, or be refused (Skip).             *)
TokenMac ==
  /\ At("master_key") /\ handle # NoKey /\ hmac # NoKey
  /\ authtok' = Stamped(hmac)
  /\ Dispatch(Returned(hmac))
  /\ handle' = NoKey
  /\ UNCHANGED <<entry, passed, captured, present, calm>>

LoginStep ==
  /\ \/ Login \/ PinStage \/ PasswordStage \/ DenyStage \/ KeyringStage
     \/ Skip \/ TokenLook \/ TokenMac
  /\ UNCHANGED vars

(* A step of a master-key command.                                          *)
KeyStep ==
  /\ Next
  /\ calm' = (calm /\ hmac' = hmac)
  /\ UNCHANGED <<entry, pos, impression, verdict, authtok, handle, passed,
                 captured, present>>

StackNext == LoginStep \/ KeyStep

StackSpec == StackInit /\ [][StackNext]_stackVars
=============================================================================
