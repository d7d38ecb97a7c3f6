------------------------------- MODULE Login -------------------------------
(***************************************************************************)
(* What pinpam promises whoever relies on its PAM module.  A login is       *)
(* handed at most two PINs, one left by an earlier module and one typed.    *)
(* Each is compared at most once with the PIN that is stored, an attempt is *)
(* charged only for one that differs, and SUCCESS is the answer only after  *)
(* one that matches.  Whatever else happens to the stored PIN is not the    *)
(* login's doing.                                                           *)
(***************************************************************************)
EXTENDS Pins

CONSTANTS Logins, Uids

VARIABLES stored,   \* the PIN a guess for a uid would be compared with
          login     \* the state of a login

Codes == {"none", "SUCCESS", "AUTH_ERR", "MAXTRIES", "AUTHINFO_UNAVAIL",
          "USER_UNKNOWN", "CONV_ERR"}

LoginStates == [uid : Uids,
                hand : PinStrings,     \* handed in and not compared yet
                given : 0..2,          \* how many were handed in
                verdict : {"none", "match"},   \* on the last one
                charged : Nat,         \* attempts charged
                code : Codes]

Fresh(u) == [uid |-> u, hand |-> NoPin, given |-> 0, verdict |-> "none",
             charged |-> 0, code |-> "none"]

Init == /\ stored \in [Uids -> PinStrings]
        /\ login \in [Logins -> {Fresh(u) : u \in Uids}]

Become(l, state) == login' = [login EXCEPT ![l] = state]

(* A login begins; it may be refused at once.                               *)
Begin(l) ==
  /\ \E u \in Uids, code \in Codes \ {"SUCCESS"} :
       Become(l, [Fresh(u) EXCEPT !.code = code])
  /\ UNCHANGED stored

(* A PIN is handed in, or refused unseen (NoPin).                           *)
Supply(l) ==
  /\ login[l].code = "none" /\ login[l].given < 2
  /\ \E pin \in Pins \cup {NoPin} :
       Become(l, [login[l] EXCEPT !.hand = pin, !.given = @ + 1])
  /\ UNCHANGED stored

(* In the form it was entered in, or without its leading zeros.             *)
Matches(l) ==
  /\ login[l].hand # NoPin
  /\ stored[login[l].uid] \in {login[l].hand, Normalize(login[l].hand)}
  /\ Become(l, [login[l] EXCEPT !.hand = NoPin, !.verdict = "match"])
  /\ UNCHANGED stored

Differs(l) ==
  /\ login[l].hand # NoPin
  /\ {stored[login[l].uid]} # {login[l].hand, Normalize(login[l].hand)}
  /\ Become(l, [login[l] EXCEPT !.hand = NoPin, !.charged = @ + 1])
  /\ UNCHANGED stored

(* The comparison cannot be made, or its result is lost.                    *)
Fumble(l) ==
  /\ Become(l, [login[l] EXCEPT !.hand = NoPin, !.verdict = "none"])
  /\ UNCHANGED stored

Answer(l) ==
  /\ login[l].hand = NoPin
  /\ \E code \in Codes \ {"none"} :
       /\ code = "SUCCESS" => login[l].verdict = "match"
       /\ Become(l, [login[l] EXCEPT !.code = code])
  /\ UNCHANGED stored

(* A PIN is set, replaced or removed.                                       *)
Manage == stored' \in [Uids -> PinStrings] /\ UNCHANGED login

Next == \/ Manage
        \/ \E l \in Logins : \/ Begin(l) \/ Supply(l) \/ Matches(l)
                             \/ Differs(l) \/ Fumble(l) \/ Answer(l)

Spec == Init /\ [][Next]_<<stored, login>>
=============================================================================
