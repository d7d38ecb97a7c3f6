--------------------------- MODULE AttemptsProofs ---------------------------
(***************************************************************************)
(* For words of any width and every limit the parser of the policy lets     *)
(* through: 0, the limits a c_int holds and those it does not.              *)
(***************************************************************************)
EXTENDS Attempts, TLAPS

(* The counter stops at the limit, whatever the limit is.                   *)
CountInLimit ==
  /\ limit \in Word
  /\ count \in 0..limit

(* A c_int is the word it was made from.                                    *)
LEMMA ThereAndBack ==
  ASSUME NEW w \in Word
  PROVE  AsWord(AsInt(w)) = w
BY AttemptsAssumption DEF AsInt, AsWord, Word

(* A word is its own value as a c_int below half the words, and negative    *)
(* from there.                                                              *)
LEMMA ReadBack ==
  ASSUME NEW w \in Word
  PROVE  /\ AsInt(w) \in Int
         /\ IF w < HalfWord THEN AsInt(w) = w ELSE AsInt(w) < 0
BY AttemptsAssumption DEF AsInt, Word

(* A remainder that is small already.                                       *)
LEMMA SmallRemainder ==
  ASSUME NEW n \in Nat \ {0}, NEW k \in 0..(n - 1)
  PROVE  k % n = k
BY SMT

(* The TPM never counts past the limit of a slot.                           *)
LEMMA CountInLimitInvariant == Spec => []CountInLimit
<1>1. \A m \in MaxAttempts : AsWord(AsInt(m)) = m /\ m \in Word
  BY ThereAndBack, AttemptsAssumption
<1>2. Init => CountInLimit
  BY <1>1, AttemptsAssumption DEF Init, CountInLimit, Word
<1>3. CountInLimit /\ [Next]_vars => CountInLimit'
  <2> SUFFICES ASSUME CountInLimit, [Next]_vars PROVE CountInLimit'
    OBVIOUS
  <2>1. ASSUME NEW m \in MaxAttempts, Provision(m) PROVE CountInLimit'
    BY <2>1, <1>1, AttemptsAssumption DEF Provision, CountInLimit, AsWord, Word
  <2>2. CASE VerifyRight
    BY <2>2, AttemptsAssumption DEF VerifyRight, CountInLimit, Word
  <2>3. CASE VerifyWrong
    BY <2>3, AttemptsAssumption DEF VerifyWrong, CountInLimit, Admits, Word
  <2>4. CASE VerifyRefused
    BY <2>4 DEF VerifyRefused, CountInLimit
  <2>5. CASE UNCHANGED vars
    BY <2>5 DEF vars, CountInLimit
  <2> QED BY <2>1, <2>2, <2>3, <2>4, <2>5 DEF Next
<1> QED BY <1>2, <1>3, PTL DEF Spec

(* What the code reads from a counter that is in its limit: the two words   *)
(* themselves below half the words, no limit at all from there.             *)
LEMMA ReadExactly ==
  ASSUME CountInLimit
  PROVE  /\ count \in Nat /\ limit \in Nat /\ HalfWord \in Nat \ {0}
         /\ PinCount \in Int /\ PinLimit \in Int /\ Used \in Nat
         /\ limit < HalfWord =>
              PinCount = count /\ PinLimit = limit /\ Used = count /\ InfoLimit = limit
         /\ limit >= HalfWord => PinLimit < 0 /\ InfoLimit = 0
<1>1. count \in Word /\ limit \in Word /\ count \in Nat /\ limit \in Nat
  BY AttemptsAssumption DEF CountInLimit, Word
<1>2. /\ PinCount \in Int /\ PinLimit \in Int
      /\ IF count < HalfWord THEN PinCount = count ELSE PinCount < 0
      /\ IF limit < HalfWord THEN PinLimit = limit ELSE PinLimit < 0
  BY <1>1, ReadBack DEF PinCount, PinLimit
<1> QED BY <1>1, <1>2, AttemptsAssumption DEF Used, InfoLimit, CountInLimit

(* status and the prompts report what the TPM enforces, without wrapping,   *)
(* for every limit a c_int holds; a lock is reported for no other limit.    *)
THEOREM ReportsAreEnforced == Spec => []ReportedIsEnforced
<1>1. CountInLimit => ReportedIsEnforced
  <2> SUFFICES ASSUME CountInLimit PROVE ReportedIsEnforced
    OBVIOUS
  <2>1. Locked(Used, InfoLimit) <=> ~Admits /\ Readable(limit)
    BY ReadExactly DEF Locked, Admits, Readable, CountInLimit
  <2>2. ASSUME limit < HalfWord
        PROVE  Used <= InfoLimit /\ Remaining(Used, InfoLimit) = limit - count
    <3>1. limit - count \in 0..(2 * HalfWord - 1) /\ 2 * HalfWord \in Nat \ {0}
      BY <2>2, ReadExactly DEF CountInLimit
    <3> QED BY <2>2, <3>1, ReadExactly, SmallRemainder DEF Remaining, CountInLimit
  <2> QED BY <2>1, <2>2 DEF ReportedIsEnforced
<1> QED BY <1>1, CountInLimitInvariant, PTL

(* An answer, and the counter it was given for.                             *)
AnswerTold ==
  /\ answer = "success"        => count = 0 /\ Readable(limit)
  /\ answer = "invalid"        => count < limit \/ limit >= HalfWord
  /\ answer = "invalid_locked" => count >= limit \/ limit >= HalfWord
  /\ answer = "locked_out"     => limit >= HalfWord

(* For every limit: the answer to a PIN and the state shown after it agree  *)
(* on whether the PIN is locked, except that a limit which is 0 or beyond a *)
(* c_int is never shown as locked; and the right PIN is answered LockedOut  *)
(* for limits beyond a c_int only.                                          *)
THEOREM AnswersAgree == Spec => []AnswersMatchReports
<1>1. Init => AnswerTold
  BY DEF Init, AnswerTold
<1>2. CountInLimit /\ CountInLimit' /\ AnswerTold /\ [Next]_vars => AnswerTold'
  <2> SUFFICES ASSUME CountInLimit, CountInLimit', AnswerTold, [Next]_vars
               PROVE  AnswerTold'
    OBVIOUS
  <2>1. ASSUME NEW m \in MaxAttempts, Provision(m) PROVE AnswerTold'
    BY <2>1 DEF Provision, AnswerTold
  <2>2. CASE VerifyRight
    <3>1. /\ answer' \in {"success", "locked_out"} /\ count' = 0 /\ limit' = limit
          /\ answer' = "success" <=> ~(0 >= PinLimit)
          /\ 0 < limit
      BY <2>2, ReadExactly DEF VerifyRight, AtLimit, Admits, CountInLimit
    <3>2. IF answer' = "success" THEN Readable(limit) ELSE limit >= HalfWord
      BY <3>1, ReadExactly DEF Readable
    <3> QED BY <3>1, <3>2 DEF AnswerTold, Readable
  <2>3. CASE VerifyWrong
    <3>1. CASE limit >= HalfWord
      BY <2>3, <3>1 DEF VerifyWrong, AnswerTold
    <3>2. CASE limit < HalfWord
      <4>1. AsInt(count + 1) = count + 1 /\ PinLimit = limit
        BY <2>3, <3>2, ReadExactly, ReadBack DEF VerifyWrong, CountInLimit, Admits, Word
      <4> QED BY <2>3, <4>1, ReadExactly DEF VerifyWrong, AnswerTold, AtLimit
    <3> QED BY <3>1, <3>2, ReadExactly
  <2>4. CASE VerifyRefused
    BY <2>4, ReadExactly DEF VerifyRefused, AnswerTold, AtLimit, Admits, CountInLimit
  <2>5. CASE UNCHANGED vars
    BY <2>5 DEF vars, AnswerTold, Readable
  <2> QED BY <2>1, <2>2, <2>3, <2>4, <2>5 DEF Next
<1>3. CountInLimit /\ AnswerTold => AnswersMatchReports
  <2> SUFFICES ASSUME CountInLimit, AnswerTold PROVE AnswersMatchReports
    OBVIOUS
  <2>1. Locked(Used, InfoLimit) <=> limit \in 1..(HalfWord - 1) /\ count >= limit
    BY ReadExactly DEF Locked, CountInLimit
  <2> QED BY <2>1, ReadExactly DEF AnswerTold, AnswersMatchReports, Readable, CountInLimit
<1> QED BY <1>1, <1>2, <1>3, CountInLimitInvariant, PTL DEF Spec
=============================================================================
