--------------------------- MODULE PamStackProps ---------------------------
(***************************************************************************)
(* The properties of the documented stack.                                  *)
(***************************************************************************)
EXTENDS PamStack, MasterKeyProps

LoginTypeOK ==
  /\ entry      \in [control : Controls, place : Places]
  /\ pos        \in 0..5
  /\ impression \in {"undefined", "positive", "negative"}
  /\ verdict    \in {"none", "SUCCESS", "failure"}
  /\ authtok    \in Tokens
  /\ handle     \in Keys \cup {NoKey}
  /\ passed     \in BOOLEAN
  /\ captured   \in Tokens
  /\ present    \in Keys \cup {NoKey}
  /\ calm       \in BOOLEAN

(* Every variable of a login and of the master key has its type.            *)
StackTypeOK == LoginTypeOK /\ KeyTypeOK

(* Whatever control libpinpam_master_key is given, wherever it stands and   *)
(* however it fails, it neither grants nor denies a login: the stack        *)
(* succeeds exactly when the PIN or the password was right.                 *)
VerdictIsTheDecision == verdict # "none" => (verdict = "SUCCESS") = passed

(* The stages of the documentation: the token is set after the decision,    *)
(* before the keyring.                                                      *)
InOrder == entry.place = <<4, 0>>

(* A login by PIN and a login by password leave the keyring the same token: *)
(* that of the key in the TPM, if it stays and the token can be derived.    *)
SameTokenEitherWay ==
  InOrder /\ verdict # "none" /\ calm /\ present # NoKey => captured = present
=============================================================================
