------------------------------ MODULE Attempts ------------------------------
(***************************************************************************)
(* The numbers of a written slot: two words in the TPM, which compares them *)
(* unsigned, read back as c_int by PinData, compared signed by PinManager   *)
(* and shown as u32 by AttemptInfo.  max_attempts is a u32 that the policy  *)
(* parser does not restrict.  HalfWord is 2^31 in the source.               *)
(***************************************************************************)
EXTENDS Integers

CONSTANTS HalfWord,      \* half the number of values of a word
          MaxAttempts    \* the values of max_attempts

Word == 0..(2 * HalfWord - 1)

ASSUME AttemptsAssumption ==
  /\ HalfWord \in Nat \ {0}
  /\ MaxAttempts \subseteq Word

VARIABLES count, limit,   \* the words in the NV index
          answer          \* what the last verification returned

vars == <<count, limit, answer>>

Answers == {"none", "success", "invalid", "invalid_locked", "locked_out", "error"}

(* "as c_int", and the bytes of a c_int read as an unsigned word.           *)
AsInt(w)  == IF w < HalfWord THEN w ELSE w - 2 * HalfWord
AsWord(i) == IF i >= 0 THEN i ELSE i + 2 * HalfWord

PinCount == AsInt(count)
PinLimit == AsInt(limit)

(* The TPM compares a guess with the PIN.                                   *)
Admits == count < limit

(* Mutant: a PIN is at its limit only beyond it.                            *)
PastLimitMutant(c, l) == c > l

AtLimit(c, l) == c >= l

(* AttemptInfo::from_pin_data, locked, and what status and the prompts show *)
(* as remaining: a subtraction of u32, which wraps in a release build.      *)
Used      == IF PinCount < 0 THEN 0 ELSE PinCount
InfoLimit == IF PinLimit <= 0 THEN 0 ELSE PinLimit

(* Mutant: a slot whose last attempt is left counts as locked.              *)
LastAttemptMutant(used, lim) == lim > 0 /\ used + 1 >= lim

Locked(used, lim) == lim > 0 /\ used >= lim

Remaining(used, lim) == (lim - used) % (2 * HalfWord)

(* define_pin_slot writes PinData::new(0, max_attempts as c_int).           *)
Provision(m) ==
  /\ count' = AsWord(0)
  /\ limit' = AsWord(AsInt(m))
  /\ answer' = "none"

Init == /\ count = 0
        /\ limit \in {AsWord(AsInt(m)) : m \in MaxAttempts}
        /\ answer = "none"

(* verify_pin_exact, right PIN: the TPM clears pinCount and returns both.   *)
VerifyRight ==
  /\ Admits
  /\ count' = 0
  /\ answer' = IF AtLimit(0, PinLimit) THEN "locked_out" ELSE "success"
  /\ UNCHANGED limit

(* Wrong PIN: the TPM counts it, and an owner read follows.                 *)
VerifyWrong ==
  /\ Admits
  /\ count' = count + 1
  /\ answer' = IF AtLimit(AsInt(count + 1), PinLimit) THEN "invalid_locked"
                                                     ELSE "invalid"
  /\ UNCHANGED limit

(* Any PIN at a refusing TPM: an authorisation failure followed by an owner *)
(* read, or another error.                                                  *)
VerifyRefused ==
  /\ ~Admits
  /\ \/ answer' = IF AtLimit(PinCount, PinLimit) THEN "invalid_locked" ELSE "invalid"
     \/ answer' = "error"
  /\ UNCHANGED <<count, limit>>

Next == \/ \E m \in MaxAttempts : Provision(m)
        \/ VerifyRight \/ VerifyWrong \/ VerifyRefused

Spec == Init /\ [][Next]_vars

-----------------------------------------------------------------------------
(* A limit that survives the conversion to c_int and says something.        *)
Readable(lim) == lim \in 1..(HalfWord - 1)

(* What status and the prompts report, against what the TPM enforces, for   *)
(* every value of max_attempts: a slot is shown as locked exactly when the  *)
(* TPM refuses it and its limit is readable (a slot with limit 0 is refused *)
(* and shown as open), and up to half the word the attempts shown as        *)
(* remaining are the wrong guesses the TPM still compares, without wrapping.*)
ReportedIsEnforced ==
  /\ Locked(Used, InfoLimit) <=> ~Admits /\ Readable(limit)
  /\ limit < HalfWord =>
       Used <= InfoLimit /\ Remaining(Used, InfoLimit) = limit - count

(* verify_pin's lock flag, from signed words, against AttemptInfo's, for    *)
(* every value of max_attempts: after an answer other than locked, status   *)
(* shows no lock; after Invalid with the flag, it shows one exactly for a   *)
(* readable limit; the right PIN is answered Success if the limit is        *)
(* readable and LockedOut if it is not.                                     *)
AnswersMatchReports ==
  /\ answer \in {"success", "invalid"} => ~Locked(Used, InfoLimit)
  /\ answer = "invalid_locked" => (Locked(Used, InfoLimit) <=> Readable(limit))
  /\ answer = "success"    => Readable(limit)
  /\ answer = "locked_out" => ~Readable(limit)
=============================================================================
