---------------------------- MODULE PolicyProofs ----------------------------
(***************************************************************************)
(* Proofs about Policy, for every number of processes, inodes and edits.    *)
(***************************************************************************)
EXTENDS PolicyProps, TLAPS, WellFoundedInduction

(* The check of the nine bits is the documented bound on them.              *)
LEMMA SecureIsDocumented ==
  ASSUME NEW f \in Inodes, Secure(f)
  PROVE  AsDocumented(f)
  BY PolicyAssumption DEF Inodes, Secure, AsDocumented

-----------------------------------------------------------------------------
(* What the reading of a policy rests on: an inode that can be read, by its *)
(* name or by a process that has it open, holds a text that it held under   *)
(* the name while it was secure; and once checked it stays secure.          *)
Shape == /\ path \in Files \cup {NoFile}
         /\ file \in [Files -> Inodes]
         /\ at \in [Loaders -> {"start", "opened", "checked", "read", "bound"}]
         /\ fd \in [Loaders -> Files \cup {NoFile}]
         /\ text \in [Loaders -> Texts \cup {<<>>}]

PathHeld == path # NoFile /\ AsDocumented(file[path]) => file[path].text \in held

OpenHeld == \A p \in Loaders :
  fd[p] # NoFile /\ AsDocumented(file[fd[p]]) => file[fd[p]].text \in held

OpenIsOpen == \A p \in Loaders : at[p] \in {"opened", "checked"} => fd[p] # NoFile

CheckedIsSecure == \A p \in Loaders : at[p] = "checked" => Secure(file[fd[p]])

PolicyInv == /\ Shape /\ PathHeld /\ OpenHeld /\ OpenIsOpen
             /\ CheckedIsSecure /\ ReadWasHeld

(* Initially there is no policy and nobody has opened one.                  *)
LEMMA PolicyInit == Init => PolicyInv
<1> SUFFICES ASSUME Init PROVE PolicyInv
    OBVIOUS
<1>1. Shape
  <2>1. [owner |-> "root", mode |-> {}, regular |-> TRUE, text |-> <<>>] \in Inodes
    BY DEF Inodes
  <2>2. file \in [Files -> Inodes]
    BY <2>1 DEF Init
  <2> QED
    BY <2>2 DEF Init, Shape
<1> QED
  BY <1>1 DEF Init, PolicyInv, PathHeld, OpenHeld, OpenIsOpen, CheckedIsSecure,
              ReadWasHeld

(* Every edit adds what is then under the name to what was held.            *)
LEMMA EditStep ==
  ASSUME PolicyInv, Replace \/ Save \/ Protect \/ Unlink \/ Upgrade
  PROVE  PolicyInv'
<1> USE DEF Edited, loading
<1>1. CASE Replace
  <2>1. PICK f \in Files \ {path}, inode \in Inodes :
          /\ \A p \in Loaders : fd[p] # f
          /\ file' = [file EXCEPT ![f] = inode]
          /\ path' = f
    BY <1>1 DEF Replace
  <2>2. Shape'
    BY <1>1, <2>1 DEF PolicyInv, Shape, Replace
  <2>3. /\ held' = IF path' # NoFile /\ AsDocumented(file'[path'])
                     THEN held \cup {file'[path'].text} ELSE held
        /\ UNCHANGED <<at, fd, text>>
    BY <1>1 DEF Replace
  <2>4. \A p \in Loaders : fd[p] # NoFile => file'[fd[p]] = file[fd[p]]
    BY <2>1 DEF PolicyInv, Shape
  <2> QED
    BY <2>2, <2>3, <2>4 DEF PolicyInv, PathHeld, OpenHeld, OpenIsOpen,
                            CheckedIsSecure, ReadWasHeld
<1>2. CASE Save \/ Protect
  <2>1. /\ path \in Files
        /\ UNCHANGED <<path, at, fd, text>>
        /\ held' = IF path' # NoFile /\ AsDocumented(file'[path'])
                     THEN held \cup {file'[path'].text} ELSE held
    BY <1>2 DEF Save, Protect, PolicyInv, Shape
  <2>2. Shape' /\ (\A f \in Files : f # path => file'[f] = file[f])
               /\ (Secure(file[path]) => Secure(file'[path]))
    <3>1. CASE Save
      <4>1. PICK words \in Texts \cup {<<>>} : file' = [file EXCEPT ![path].text = words]
        BY <3>1 DEF Save
      <4> QED
        BY <2>1, <4>1 DEF PolicyInv, Shape, Inodes, Secure
    <3>2. CASE Protect
      <4>1. file' = [file EXCEPT ![path].owner = "root", ![path].mode = {}]
        BY <3>2 DEF Protect
      <4> QED
        BY <2>1, <4>1 DEF PolicyInv, Shape, Inodes, Secure
    <3> QED
      BY <1>2, <3>1, <3>2
  <2> QED
    BY <2>1, <2>2, PolicyAssumption
       DEF PolicyInv, PathHeld, OpenHeld, OpenIsOpen, CheckedIsSecure, ReadWasHeld, Shape
<1>3. CASE Unlink
  BY <1>3, PolicyAssumption
     DEF Unlink, PolicyInv, Shape, PathHeld, OpenHeld, OpenIsOpen, CheckedIsSecure, ReadWasHeld
<1>4. CASE Upgrade
  BY <1>4
     DEF Upgrade, PolicyInv, Shape, PathHeld, OpenHeld, OpenIsOpen, CheckedIsSecure, ReadWasHeld
<1> QED
  BY <1>1, <1>2, <1>3, <1>4

(* What a process does leaves files and names alone.                        *)
LEMMA LoaderStep ==
  ASSUME PolicyInv, NEW p \in Loaders, Load(p) \/ Trouble(p) \/ Enter(p) \/ Exit(p)
  PROVE  PolicyInv'
<1> USE DEF Stays, edited, Adopt
<1>1. UNCHANGED <<path, file, held>>
  BY DEF Load, Open, Stat, Read, Parse, Trouble, Enter, Exit
<1>2. CASE Open(p)
  BY <1>1, <1>2 DEF Open, PolicyInv, Shape, PathHeld, OpenHeld, OpenIsOpen,
                    CheckedIsSecure, ReadWasHeld
<1>3. CASE Stat(p)
  BY <1>1, <1>3 DEF Stat, PolicyInv, Shape, PathHeld, OpenHeld, OpenIsOpen,
                    CheckedIsSecure, ReadWasHeld
<1>4. CASE Read(p)
  <2>1. /\ fd[p] \in Files /\ AsDocumented(file[fd[p]])
        /\ text' = [text EXCEPT ![p] = file[fd[p]].text]
        /\ file[fd[p]].text \in held \cap (Texts \cup {<<>>})
    BY <1>4, SecureIsDocumented
       DEF Read, PolicyInv, Shape, OpenIsOpen, CheckedIsSecure, OpenHeld, Inodes
  <2> QED
    BY <1>1, <1>4, <2>1 DEF Read, PolicyInv, Shape, PathHeld, OpenHeld, OpenIsOpen,
                            CheckedIsSecure, ReadWasHeld
<1>5. CASE Parse(p) \/ Trouble(p) \/ Enter(p) \/ Exit(p)
  <2>1. /\ \/ UNCHANGED <<fd, text>>
           \/ /\ fd' = [fd EXCEPT ![p] = NoFile]
              /\ text' = [text EXCEPT ![p] = <<>>]
        /\ \/ UNCHANGED at
           \/ at' = [at EXCEPT ![p] = "bound"]
           \/ at' = [at EXCEPT ![p] = "start"]
        /\ fd' # fd => at' = [at EXCEPT ![p] = "bound"]
        /\ text' # text => at' = [at EXCEPT ![p] = "bound"]
    BY <1>5 DEF Parse, Trouble, Enter, Exit
  <2> QED
    BY <1>1, <2>1 DEF PolicyInv, Shape, PathHeld, OpenHeld, OpenIsOpen,
                      CheckedIsSecure, ReadWasHeld
<1> QED
  BY <1>2, <1>3, <1>4, <1>5 DEF Load

(* Every step keeps the text that is read one that was held.                *)
LEMMA PolicyStep == PolicyInv /\ [Next]_vars => PolicyInv'
<1>1. PolicyInv /\ UNCHANGED vars => PolicyInv'
  BY DEF vars, PolicyInv, Shape, PathHeld, OpenHeld, OpenIsOpen, CheckedIsSecure,
         ReadWasHeld
<1> QED
  BY <1>1, EditStep, LoaderStep DEF Next

(* Between open, check and reading the policy file may be replaced, written *)
(* and protected: what is parsed was a secure policy as a whole.            *)
THEOREM PolicyIsWhole == Spec => []ReadWasHeld
<1>1. PolicyInv => ReadWasHeld
  BY DEF PolicyInv
<1> QED
  BY <1>1, PolicyInit, PolicyStep, PTL DEF Spec

-----------------------------------------------------------------------------
(***************************************************************************)
(* What parse_config makes of a text of any length: by induction on the     *)
(* number of its turns, as a set of numbers where the claim fails would     *)
(* have a least one.                                                        *)
(***************************************************************************)
Less == OpToRel(<, Nat)

(* A set of naturals that is not empty has a least element.                 *)
LEMMA LeastNumber ==
  ASSUME NEW T, T \subseteq Nat, T # {}
  PROVE  \E least \in T : \A n \in T : least <= n
<1>1. IsWellFoundedOn(Less, Nat)
  BY NatLessThanWellFounded, Zenon DEF Less
<1>2. \A m, n \in Nat : m < n => <<m, n>> \in Less
  BY DEF Less, OpToRel
<1>3. PICK least \in T : \A n \in T : ~(<<n, least>> \in Less)
  BY <1>1, WFMin
<1>4. \A n \in T : ~(n < least)
  BY <1>2, <1>3
<1> QED BY <1>4

(* The recursion of Turns has a solution on every initial segment.          *)
UpTo(f, m, words, there) ==
  f = [n \in 0..m |-> IF n = 0 THEN Default ELSE Turn(f[n - 1], words[n], there)]

LEMMA TurnsExist ==
  ASSUME NEW words, NEW there, NEW m \in Nat
  PROVE  \E f : UpTo(f, m, words, there)
<1> DEFINE Missing == {n \in Nat : ~\E f : UpTo(f, n, words, there)}
<1>1. \E f : UpTo(f, 0, words, there)
  <2> DEFINE f == [n \in 0..0 |-> Default]
  <2>1. UpTo(f, 0, words, there)
    BY DEF UpTo
  <2> QED BY <2>1
<1>2. ASSUME NEW n \in Nat, NEW f, UpTo(f, n, words, there)
      PROVE  \E g : UpTo(g, n + 1, words, there)
  <2> DEFINE g == [i \in 0..(n + 1) |-> IF i = n + 1 THEN Turn(f[n], words[n + 1], there)
                                        ELSE f[i]]
  <2>1. \A i \in 0..(n + 1) :
          g[i] = IF i = 0 THEN Default ELSE Turn(g[i - 1], words[i], there)
    <3> SUFFICES ASSUME NEW i \in 0..(n + 1)
                 PROVE  g[i] = IF i = 0 THEN Default ELSE Turn(g[i - 1], words[i], there)
      OBVIOUS
    <3>1. CASE i = n + 1
      <4>1. g[i] = Turn(f[n], words[n + 1], there) /\ g[i - 1] = f[n]
        BY <3>1
      <4> QED BY <3>1, <4>1
    <3>2. CASE i \in 0..n
      <4>1. f[i] = IF i = 0 THEN Default ELSE Turn(f[i - 1], words[i], there)
        BY <1>2, <3>2 DEF UpTo
      <4>2. g[i] = f[i] /\ (i # 0 => g[i - 1] = f[i - 1])
        BY <3>2
      <4> QED BY <4>1, <4>2
    <3> QED BY <3>1, <3>2
  <2>2. UpTo(g, n + 1, words, there)
    BY <2>1 DEF UpTo
  <2> HIDE DEF g
  <2> QED BY <2>2
<1>3. CASE Missing = {}
  BY <1>3
<1>4. CASE Missing # {}
  <2>1. PICK least \in Missing : \A n \in Missing : least <= n
    BY <1>4, LeastNumber
  <2>2. least # 0 /\ least - 1 \in Nat /\ least - 1 \notin Missing
    BY <1>1, <2>1
  <2>3. PICK f : UpTo(f, least - 1, words, there)
    BY <2>2
  <2>4. \E g : UpTo(g, (least - 1) + 1, words, there)
    BY <1>2, <2>2, <2>3
  <2> QED BY <2>1, <2>4
<1> QED BY <1>3, <1>4

(* So each turn of the loop starts from the rules that the last one left.   *)
LEMMA TurnByTurn ==
  ASSUME NEW words \in Seq(Settings), NEW there, NEW n \in 0..Len(words)
  PROVE  Turns(words, there)[n] =
           IF n = 0 THEN Default
           ELSE Turn(Turns(words, there)[n - 1], words[n], there)
<1>1. \E f : UpTo(f, Len(words), words, there)
  <2>1. Len(words) \in Nat
    OBVIOUS
  <2> QED BY <2>1, TurnsExist
<1>2. UpTo(Turns(words, there), Len(words), words, there)
  BY <1>1 DEF Turns, UpTo
<1> QED BY <1>2 DEF UpTo

(* What the first n settings of a text say.                                 *)
GivenBy(words, n, key, default) ==
  LET places == {i \in 1..n : words[i].key = key}
  IN  IF places = {} THEN default ELSE words[Max(places)].value

MeaningBy(words, n) ==
  [min      |-> GivenBy(words, n, "pin_min_length", Default.min),
   max      |-> GivenBy(words, n, "pin_max_length", Default.max),
   attempts |-> GivenBy(words, n, "pin_lockout_max_attempts", Default.attempts),
   helper   |-> GivenBy(words, n, "pinutil_path", Default.helper),
   backend  |-> GivenBy(words, n, "tcti", Default.backend)]

SoundBy(words, n, there) == \A i \in 1..n : Valid(words[i], there)

(* All of them say what the text says.                                      *)
LEMMA MeaningOfAll ==
  ASSUME NEW words \in Seq(Settings)
  PROVE  MeaningBy(words, Len(words)) = Meaning(words)
<1>1. DOMAIN words = 1..Len(words)
  OBVIOUS
<1> QED BY <1>1 DEF MeaningBy, Meaning, GivenBy, Given

(* One more setting counts for its own key and for no other.                *)
LEMMA OneMore ==
  ASSUME NEW words, NEW n \in Nat \ {0}, NEW key, NEW default
  PROVE  GivenBy(words, n, key, default) =
           IF words[n].key = key THEN words[n].value
           ELSE GivenBy(words, n - 1, key, default)
<1> DEFINE places == {i \in 1..n : words[i].key = key}
<1>1. CASE words[n].key = key
  <2>1. n \in places /\ \A i \in places : i \in Nat /\ i <= n
    BY <1>1
  <2>2. \A m \in places : (\A i \in places : m >= i) => m = n
    BY <2>1
  <2>3. Max(places) = n
    BY <2>1, <2>2 DEF Max
  <2> QED BY <1>1, <2>1, <2>3 DEF GivenBy
<1>2. CASE words[n].key # key
  <2>1. places = {i \in 1..(n - 1) : words[i].key = key}
    BY <1>2
  <2> QED BY <1>2, <2>1 DEF GivenBy
<1> QED BY <1>1, <1>2

(* The defaults are a policy.                                               *)
LEMMA DefaultType == Default \in Policies
<1>1. DefaultHelper \in Helpers /\ DefaultBackend \in Backends
  BY PolicyAssumption DEF DefaultHelper, DefaultBackend
<1> QED BY <1>1 DEF Default, Policies

(* Obeying a valid setting gives a policy again, ...                        *)
LEMMA ObeyType ==
  ASSUME NEW rules \in Policies, NEW setting \in Settings, NEW there \in SUBSET Helpers,
         Valid(setting, there)
  PROVE  Obey(rules, setting) \in Policies
BY DEF Policies, Settings, Keys, Numbers, Valid, Obey

(* ... the one that the text means up to there.                             *)
LEMMA ObeyMeans ==
  ASSUME NEW words \in Seq(Settings), NEW n \in 1..Len(words),
         NEW there \in SUBSET Helpers, Valid(words[n], there)
  PROVE  Obey(MeaningBy(words, n - 1), words[n]) = MeaningBy(words, n)
<1>1. words[n].key \in Keys
  <2>1. words[n] \in Settings
    OBVIOUS
  <2> QED BY <2>1 DEF Settings
<1>2. \A key, default : GivenBy(words, n, key, default) =
        IF words[n].key = key THEN words[n].value
        ELSE GivenBy(words, n - 1, key, default)
  BY OneMore
<1>3. CASE words[n].key = "pin_min_length"
  BY <1>2, <1>3 DEF Obey, MeaningBy
<1>4. CASE words[n].key = "pin_max_length"
  BY <1>2, <1>4 DEF Obey, MeaningBy
<1>5. CASE words[n].key = "pin_lockout_max_attempts"
  BY <1>2, <1>5 DEF Obey, MeaningBy
<1>6. CASE words[n].key = "pinutil_path"
  BY <1>2, <1>6 DEF Obey, MeaningBy
<1>7. CASE words[n].key = "tcti"
  BY <1>2, <1>7 DEF Obey, MeaningBy
<1>8. CASE words[n].key \in {"unknown", "no_equals_sign"}
  BY <1>2, <1>8 DEF Obey, MeaningBy
<1> QED BY <1>1, <1>3, <1>4, <1>5, <1>6, <1>7, <1>8 DEF Keys

(* The rules after n turns: those of the first n settings, or none if one   *)
(* of them was bad.                                                         *)
Parsed(words, n, there) ==
  /\ SoundBy(words, n, there) =>
       /\ Turns(words, there)[n] = MeaningBy(words, n)
       /\ MeaningBy(words, n) \in Policies
  /\ ~SoundBy(words, n, there) => Turns(words, there)[n] = NoPolicy

(* At the beginning these are the defaults.                                 *)
LEMMA ParsedNone ==
  ASSUME NEW words \in Seq(Settings), NEW there
  PROVE  Parsed(words, 0, there)
<1>1. Turns(words, there)[0] = Default
  BY TurnByTurn
<1>2. \A key, default : GivenBy(words, 0, key, default) = default
  BY DEF GivenBy
<1>3. MeaningBy(words, 0) = Default
  BY <1>2 DEF MeaningBy, Default
<1> QED BY <1>1, <1>3, DefaultType DEF Parsed, SoundBy

(* Each turn keeps to it.                                                   *)
LEMMA ParsedNext ==
  ASSUME NEW words \in Seq(Settings), NEW there \in SUBSET Helpers,
         NEW n \in 1..Len(words), Parsed(words, n - 1, there)
  PROVE  Parsed(words, n, there)
<1>1. Turns(words, there)[n] = Turn(Turns(words, there)[n - 1], words[n], there)
  BY TurnByTurn
<1>2. SoundBy(words, n, there) <=>
        SoundBy(words, n - 1, there) /\ Valid(words[n], there)
  BY DEF SoundBy
<1>3. words[n] \in Settings
  OBVIOUS
<1>4. CASE ~SoundBy(words, n, there)
  BY <1>1, <1>2, <1>4 DEF Parsed, Turn
<1>5. CASE SoundBy(words, n, there)
  <2>1. /\ Turns(words, there)[n - 1] = MeaningBy(words, n - 1)
        /\ MeaningBy(words, n - 1) \in Policies
    BY <1>2, <1>5 DEF Parsed
  <2>2. MeaningBy(words, n - 1) # NoPolicy
    BY <2>1, PolicyAssumption
  <2>3. Turns(words, there)[n] = Obey(MeaningBy(words, n - 1), words[n])
    BY <1>1, <1>2, <1>5, <2>1, <2>2 DEF Turn
  <2>4. Obey(MeaningBy(words, n - 1), words[n]) = MeaningBy(words, n)
    BY <1>2, <1>5, ObeyMeans
  <2>5. Obey(MeaningBy(words, n - 1), words[n]) \in Policies
    BY <1>2, <1>3, <1>5, <2>1, ObeyType
  <2> QED BY <1>5, <2>3, <2>4, <2>5 DEF Parsed
<1> QED BY <1>4, <1>5

(* parse_config makes of a text of any length what it says, and nothing of  *)
(* a text with a bad setting anywhere in it.                                *)
THEOREM ParsedAsMeant ==
  ASSUME NEW words \in Seq(Settings), NEW there \in SUBSET Helpers
  PROVE  /\ Sound(words, there) =>
              ParseConfig(words, there) = Meaning(words) /\ Meaning(words) \in Policies
         /\ ~Sound(words, there) => ParseConfig(words, there) = NoPolicy
<1> DEFINE Wrong == {n \in 0..Len(words) : ~Parsed(words, n, there)}
<1>1. Len(words) \in Nat /\ DOMAIN words = 1..Len(words)
  OBVIOUS
<1>2. Wrong = {}
  <2> SUFFICES ASSUME Wrong # {} PROVE FALSE
    OBVIOUS
  <2>1. Wrong \subseteq Nat
    BY <1>1
  <2>2. PICK least \in Wrong : \A n \in Wrong : least <= n
    BY <2>1, LeastNumber
  <2>3. least # 0
    BY <2>2, ParsedNone
  <2>4. least \in 1..Len(words) /\ least - 1 \in 0..Len(words) /\ least - 1 \notin Wrong
    BY <1>1, <2>2, <2>3
  <2>5. Parsed(words, least - 1, there)
    BY <2>4
  <2>6. Parsed(words, least, there)
    BY <2>4, <2>5, ParsedNext
  <2> QED BY <2>2, <2>6
<1>3. Parsed(words, Len(words), there)
  BY <1>1, <1>2
<1>4. SoundBy(words, Len(words), there) <=> Sound(words, there)
  BY <1>1 DEF SoundBy, Sound
<1> QED BY <1>3, <1>4, MeaningOfAll DEF Parsed, ParseConfig

-----------------------------------------------------------------------------
(* An edit touches no process; a process touches nothing but itself.        *)
Edits == Replace \/ Save \/ Protect \/ Unlink \/ Upgrade

(* Every text is a sequence of settings, and every one gives a policy.      *)
LEMMA TextGives ==
  ASSUME NEW words \in Texts \cup {<<>>}, NEW there \in SUBSET Helpers
  PROVE  /\ words \in Seq(Settings)
         /\ Sound(words, there) =>
              ParseConfig(words, there) = Meaning(words) /\ Meaning(words) \in Policies
         /\ ~Sound(words, there) => ParseConfig(words, there) = NoPolicy
         /\ NoPolicy \notin Policies
<1>1. words \in Seq(Settings)
  <2>1. <<>> \in Seq(Settings)
    OBVIOUS
  <2> QED BY <2>1, PolicyAssumption
<1> QED BY <1>1, ParsedAsMeant, PolicyAssumption

(* Initially every variable has its type.                                   *)
LEMMA PolicyTypeInit == Init => PolicyTypeOK
<1> SUFFICES ASSUME Init PROVE PolicyTypeOK
  OBVIOUS
<1>1. [owner |-> "root", mode |-> {}, regular |-> TRUE, text |-> <<>>] \in Inodes
  BY DEF Inodes
<1>2. file \in [Files -> Inodes]
  BY <1>1 DEF Init
<1> QED BY <1>2, PolicyAssumption DEF Init, PolicyTypeOK

(* An edit keeps the types.                                                 *)
LEMMA EditTypes == ASSUME PolicyTypeOK, Edits PROVE PolicyTypeOK'
<1>1. /\ path' \in Files \cup {NoFile} /\ file' \in [Files -> Inodes]
      /\ installed' \subseteq Helpers
  <2>1. CASE Replace
    BY <2>1 DEF Replace, PolicyTypeOK
  <2>2. CASE Save
    BY <2>2 DEF Save, PolicyTypeOK, Inodes
  <2>3. CASE Protect
    BY <2>3 DEF Protect, PolicyTypeOK, Inodes
  <2>4. CASE Unlink \/ Upgrade
    BY <2>4 DEF Unlink, Upgrade, PolicyTypeOK
  <2> QED BY <2>1, <2>2, <2>3, <2>4 DEF Edits
<1>2. Edited
  BY DEF Edits, Replace, Save, Protect, Unlink, Upgrade
<1>3. edits' \in 0..MaxEdits /\ UNCHANGED loading
  BY <1>2, PolicyAssumption DEF Edited, PolicyTypeOK
<1>4. held' \subseteq Texts \cup {<<>>}
  BY <1>1, <1>2 DEF Edited, PolicyTypeOK, Inodes
<1>5. calm' \in [Loaders -> BOOLEAN]
  BY <1>2 DEF Edited
<1> QED BY <1>1, <1>3, <1>4, <1>5 DEF PolicyTypeOK, loading

(* A step of a process keeps them: what it parses is a text.                *)
LEMMA LoaderTypes ==
  ASSUME PolicyTypeOK, PolicyInv, NEW p \in Loaders,
         Load(p) \/ Trouble(p) \/ Enter(p) \/ Exit(p)
  PROVE  PolicyTypeOK'
<1>1. UNCHANGED <<path, file, installed, edits, held>>
  BY DEF Load, Open, Stat, Read, Parse, Trouble, Enter, Exit, Stays, edited
<1>2. calm' \in [Loaders -> BOOLEAN]
  BY DEF PolicyTypeOK, Load, Open, Stat, Read, Parse, Trouble, Enter, Exit, Stays, edited
<1>3. \A rules \in Policies \cup {NoPolicy} :
        Adopt(p, rules) =>
          /\ at' \in [Loaders -> {"start", "opened", "checked", "read", "bound"}]
          /\ fd' \in [Loaders -> Files \cup {NoFile}]
          /\ text' \in [Loaders -> Texts \cup {<<>>}]
          /\ policy' \in [Loaders -> Policies \cup {NoPolicy}]
          /\ pin' \in [Loaders -> Inputs \cup {-1}]
  BY DEF PolicyTypeOK, Adopt
<1>4. CASE Adopt(p, Default)
  BY <1>1, <1>2, <1>3, <1>4, DefaultType DEF PolicyTypeOK
<1>5. CASE Parse(p)
  <2>1. text[p] \in Texts \cup {<<>>} /\ installed \in SUBSET Helpers
    BY DEF PolicyTypeOK
  <2>2. ParseConfig(text[p], installed) \in Policies \cup {NoPolicy}
    BY <2>1, TextGives
  <2>3. PICK rules \in Policies \cup {NoPolicy} : Adopt(p, rules)
    BY <1>5, <2>2, DefaultType DEF Parse
  <2> QED BY <1>1, <1>2, <1>3, <2>3 DEF PolicyTypeOK
<1>6. CASE (Open(p) \/ Stat(p)) /\ ~Adopt(p, Default)
  BY <1>1, <1>2, <1>6 DEF Open, Stat, PolicyTypeOK
<1>7. CASE Read(p)
  <2>1. file[fd[p]] \in Inodes
    BY <1>7 DEF Read, PolicyInv, Shape, CheckedIsSecure, OpenIsOpen
  <2> QED BY <1>1, <1>2, <1>7, <2>1 DEF Read, PolicyTypeOK, Inodes
<1>8. CASE Enter(p) \/ Exit(p)
  BY <1>1, <1>2, <1>8 DEF Enter, Exit, PolicyTypeOK
<1> QED BY <1>4, <1>5, <1>6, <1>7, <1>8 DEF Load, Trouble

(* Every variable of the policy has its type, and in particular what binds  *)
(* a process is a policy, whatever texts the administrator writes.          *)
THEOREM PolicyTyped == Spec => []PolicyTypeOK
<1>1. PolicyTypeOK /\ PolicyInv /\ [Next]_vars => PolicyTypeOK'
  <2>1. PolicyTypeOK /\ UNCHANGED vars => PolicyTypeOK'
    BY DEF vars, PolicyTypeOK
  <2> QED BY <2>1, EditTypes, LoaderTypes DEF Next, Edits
<1> QED BY <1>1, PolicyTypeInit, PolicyInit, PolicyStep, PTL DEF Spec

(* A process is bound by the defaults or by what one text said that a file  *)
(* of root's, 0644 or less, held as a whole, for texts of every length and  *)
(* any number of processes and edits.                                       *)
THEOREM InForceIsMeant == Spec => []InForceWasHeld
<1>1. Init => InForceWasHeld
  BY DEF Init, InForceWasHeld
<1>2. InForceWasHeld /\ PolicyTypeOK /\ PolicyInv /\ [Next]_vars => InForceWasHeld'
  <2> SUFFICES ASSUME InForceWasHeld, PolicyTypeOK, PolicyInv, [Next]_vars
               PROVE  InForceWasHeld'
    OBVIOUS
  <2>1. held \subseteq held'
    BY DEF Next, vars, Replace, Save, Protect, Unlink, Upgrade, Edited, Load, Open, Stat,
           Read, Parse, Trouble, Enter, Exit, Stays, edited
  <2> DEFINE Lawful == {NoPolicy, Default} \cup {Meaning(words) : words \in held}
  <2>2. UNCHANGED policy \/ \E p \in Loaders, rules \in Lawful :
          policy' = [policy EXCEPT ![p] = rules]
    <3>1. CASE UNCHANGED vars
      BY <3>1 DEF vars
    <3>2. CASE Edits
      BY <3>2 DEF Edits, Replace, Save, Protect, Unlink, Upgrade, Edited, loading
    <3>3. ASSUME NEW p \in Loaders, Open(p) \/ Stat(p) \/ Read(p) \/ Trouble(p)
                                    \/ Enter(p) \/ Exit(p)
          PROVE  UNCHANGED policy \/ \E rules \in {NoPolicy, Default} :
                                       policy' = [policy EXCEPT ![p] = rules]
      BY <3>3 DEF Open, Stat, Read, Trouble, Enter, Exit, Adopt
    <3>4. ASSUME NEW p \in Loaders, Parse(p)
          PROVE  \E rules \in {Default} \cup {Meaning(words) : words \in held} :
                   policy' = [policy EXCEPT ![p] = rules]
      <4>1. /\ text[p] \in held /\ text[p] \in Texts \cup {<<>>}
            /\ installed \in SUBSET Helpers
        BY <3>4 DEF Parse, PolicyInv, ReadWasHeld, PolicyTypeOK
      <4>2. ParseConfig(text[p], installed) \in {NoPolicy, Meaning(text[p])}
        BY <4>1, TextGives
      <4> QED BY <3>4, <4>1, <4>2 DEF Parse, Adopt
    <3> QED BY <3>1, <3>2, <3>3, <3>4 DEF Next, Edits, Load
  <2>3. \A p \in Loaders : policy'[p] \in Lawful
    BY <2>2 DEF InForceWasHeld, PolicyTypeOK
  <2> QED BY <2>1, <2>3 DEF InForceWasHeld
<1> QED BY <1>1, <1>2, PolicyTyped, PolicyInit, PolicyStep, PTL DEF Spec

-----------------------------------------------------------------------------
(* While nothing has changed and nothing has failed, what a process has     *)
(* open, has checked and has read is what is there.                         *)
Undisturbed(p) ==
  calm[p] =>
    /\ at[p] \in {"opened", "checked"} => path # NoFile /\ fd[p] = path
    /\ at[p] = "checked" => Secure(file[path])
    /\ at[p] = "read" => /\ path # NoFile /\ Secure(file[path])
                         /\ text[p] = file[path].text

(* Initially no process has begun.                                          *)
LEMMA UndisturbedInit == Init => \A p \in Loaders : Undisturbed(p)
BY DEF Init, Undisturbed

(* Every step keeps this.                                                   *)
LEMMA UndisturbedNext ==
  ASSUME PolicyTypeOK, \A p \in Loaders : Undisturbed(p), [Next]_vars
  PROVE  \A p \in Loaders : Undisturbed(p)'
<1> SUFFICES ASSUME NEW q \in Loaders PROVE Undisturbed(q)'
  OBVIOUS
<1>1. CASE UNCHANGED vars
  BY <1>1 DEF vars, Undisturbed
<1>2. CASE Edits
  <2>1. Edited
    BY <1>2 DEF Edits, Replace, Save, Protect, Unlink, Upgrade
  <2>2. calm'[q] = (at[q] = "start") /\ at' = at
    BY <2>1 DEF Edited, loading
  <2> QED BY <2>2 DEF Undisturbed
<1>3. ASSUME NEW p \in Loaders, Open(p) \/ Stat(p) \/ Read(p) \/ Parse(p)
      PROVE  Undisturbed(q)'
  <2>1. UNCHANGED <<path, file, calm>>
    BY <1>3 DEF Open, Stat, Read, Parse, Stays
  <2>2. CASE q # p
    <3>1. at'[q] = at[q] /\ fd'[q] = fd[q] /\ text'[q] = text[q]
      BY <1>3, <2>2 DEF Open, Stat, Read, Parse, Adopt, PolicyTypeOK
    <3> QED BY <2>1, <3>1 DEF Undisturbed
  <2>3. CASE q = p /\ (Open(p) \/ Stat(p) \/ Read(p))
    BY <2>1, <2>3 DEF Open, Stat, Read, Adopt, PolicyTypeOK, Undisturbed
  <2>4. CASE q = p /\ Parse(p)
    <3>1. at'[p] = "bound"
      BY <2>4 DEF Parse, Adopt, PolicyTypeOK
    <3> QED BY <2>4, <3>1 DEF Undisturbed
  <2> QED BY <1>3, <2>2, <2>3, <2>4
<1>4. ASSUME NEW p \in Loaders, Trouble(p) \/ Enter(p) \/ Exit(p)
      PROVE  Undisturbed(q)'
  <2>1. UNCHANGED <<path, file>>
    BY <1>4 DEF Trouble, Enter, Exit, edited, Stays
  <2>2. CASE q = p
    <3>1. at'[q] \in {"bound", "start"}
      BY <1>4, <2>2 DEF Trouble, Enter, Exit, Adopt, PolicyTypeOK
    <3> QED BY <3>1 DEF Undisturbed
  <2>3. CASE q # p
    <3>1. at'[q] = at[q] /\ fd'[q] = fd[q] /\ text'[q] = text[q]
      BY <1>4, <2>3 DEF Trouble, Enter, Exit, Adopt, PolicyTypeOK
    <3>2. calm'[q] = calm[q]
      BY <1>4, <2>3 DEF Trouble, Enter, Exit, Stays, PolicyTypeOK
    <3> QED BY <2>1, <3>1, <3>2 DEF Undisturbed
  <2> QED BY <2>2, <2>3
<1> QED BY <1>1, <1>2, <1>3, <1>4 DEF Next, Edits, Load

(* The documented bound on the nine bits is the check of them.              *)
LEMMA DocumentedIsSecure ==
  ASSUME NEW f \in Inodes
  PROVE  Secure(f) <=> AsDocumented(f)
<1>1. AsDocumented(f) => Secure(f)
  BY DEF Inodes, Secure, AsDocumented, Allowed, Forbidden
<1> QED BY <1>1, SecureIsDocumented

(* A process that comes to its policy undisturbed has what the file says.   *)
LEMMA ObeysNext ==
  ASSUME PolicyTypeOK, \A p \in Loaders : Undisturbed(p), [Next]_vars
  PROVE  [LoadObeys]_vars
<1> SUFFICES ASSUME Next, NEW p \in Loaders, at[p] # "bound", at'[p] = "bound", calm'[p]
             PROVE  policy'[p] = IF /\ path # NoFile
                                    /\ AsDocumented(file[path])
                                    /\ Sound(file[path].text, installed)
                                   THEN Meaning(file[path].text) ELSE Default
  BY DEF LoadObeys
<1>1. Open(p) \/ Stat(p) \/ Parse(p) \/ Trouble(p)
  <2>1. CASE Edits
    BY <2>1 DEF Edits, Replace, Save, Protect, Unlink, Upgrade, Edited, loading
  <2>2. ASSUME NEW q \in Loaders, q # p, Load(q) \/ Trouble(q) \/ Enter(q) \/ Exit(q)
        PROVE  FALSE
    BY <2>2 DEF Load, Open, Stat, Read, Parse, Trouble, Enter, Exit, Adopt, PolicyTypeOK
  <2>3. ~Read(p) /\ ~Enter(p) /\ ~Exit(p)
    BY DEF Read, Enter, Exit, PolicyTypeOK
  <2> QED BY <2>1, <2>2, <2>3 DEF Next, Edits, Load
<1>2. ~Trouble(p)
  BY DEF Trouble, PolicyTypeOK
<1>3. calm[p] /\ \A rules : Adopt(p, rules) => policy'[p] = rules
  BY <1>1, <1>2 DEF Open, Stat, Parse, Stays, Adopt, PolicyTypeOK
<1>4. Undisturbed(p)
  OBVIOUS
<1>5. path # NoFile => file[path] \in Inodes
  BY DEF PolicyTypeOK
<1>6. CASE Open(p)
  <2>1. path = NoFile /\ Adopt(p, Default)
    BY <1>6 DEF Open, PolicyTypeOK
  <2> QED BY <1>3, <2>1
<1>7. CASE Stat(p)
  <2>1. path # NoFile /\ ~Secure(file[path]) /\ Adopt(p, Default)
    BY <1>3, <1>4, <1>7 DEF Stat, Undisturbed, PolicyTypeOK
  <2> QED BY <1>3, <1>5, <2>1, DocumentedIsSecure
<1>8. CASE Parse(p)
  <2>1. /\ path # NoFile /\ Secure(file[path]) /\ text[p] = file[path].text
        /\ text[p] \in Texts \cup {<<>>} /\ installed \in SUBSET Helpers
    BY <1>3, <1>4, <1>8 DEF Parse, Undisturbed, PolicyTypeOK
  <2>2. AsDocumented(file[path])
    BY <1>5, <2>1, DocumentedIsSecure
  <2>3. /\ Sound(text[p], installed) =>
             /\ ParseConfig(text[p], installed) = Meaning(text[p])
             /\ Meaning(text[p]) # NoPolicy
        /\ ~Sound(text[p], installed) => ParseConfig(text[p], installed) = NoPolicy
    BY <2>1, TextGives
  <2>4. policy'[p] = IF ParseConfig(text[p], installed) = NoPolicy THEN Default
                     ELSE ParseConfig(text[p], installed)
    BY <1>3, <1>8 DEF Parse
  <2> QED BY <2>1, <2>2, <2>3, <2>4
<1> QED BY <1>1, <1>2, <1>6, <1>7, <1>8

(* A process that loads its policy undisturbed is bound by exactly what the *)
(* file says, whatever its texts, inodes and permissions.                   *)
THEOREM LoadedAsWritten == Spec => CalmLoadObeys
<1>1. Init => \A p \in Loaders : Undisturbed(p)
  BY UndisturbedInit
<1>2. PolicyTypeOK /\ (\A p \in Loaders : Undisturbed(p)) /\ [Next]_vars
      => (\A p \in Loaders : Undisturbed(p))'
  BY UndisturbedNext
<1>3. PolicyTypeOK /\ (\A p \in Loaders : Undisturbed(p)) /\ [Next]_vars
      => [LoadObeys]_vars
  BY ObeysNext
<1> QED BY <1>1, <1>2, <1>3, PolicyTyped, PTL DEF Spec, CalmLoadObeys

-----------------------------------------------------------------------------
(* A process that is done loading is bound by something.                    *)
BoundByRules == \A p \in Loaders : at[p] = "bound" => policy[p] # NoPolicy

LEMMA BoundByRulesStep ==
  ASSUME PolicyTypeOK, BoundByRules, [Next]_vars
  PROVE  BoundByRules'
<1>1. CASE UNCHANGED vars \/ Edits
  BY <1>1 DEF vars, Edits, Replace, Save, Protect, Unlink, Upgrade, Edited, loading,
              BoundByRules
<1>2. ASSUME NEW p \in Loaders, Load(p) \/ Trouble(p) \/ Enter(p) \/ Exit(p)
      PROVE  BoundByRules'
  <2>1. Default # NoPolicy
    BY DefaultType, PolicyAssumption
  <2>2. ASSUME NEW rules, rules # NoPolicy, Adopt(p, rules) PROVE BoundByRules'
    BY <2>2 DEF Adopt, PolicyTypeOK, BoundByRules
  <2>3. CASE Open(p) \/ Stat(p) \/ Read(p) \/ Trouble(p) \/ Enter(p) \/ Exit(p)
    BY <2>1, <2>2, <2>3
       DEF Open, Stat, Read, Trouble, Enter, Exit, PolicyTypeOK, BoundByRules
  <2>4. CASE Parse(p)
    BY <2>1, <2>2, <2>4 DEF Parse
  <2> QED BY <1>2, <2>3, <2>4 DEF Load
<1> QED BY <1>1, <1>2 DEF Next, Edits

(* Every PIN that is made while a policy is loaded, edited, protected or    *)
(* replaced, by any number of processes that come and go, has a length that *)
(* the defaults or a text that root's file held prescribe, and is not       *)
(* empty, whatever minimum that text asks for.                              *)
THEOREM PinsArePrescribed == Spec => []PinsAsPrescribed
<1>1. Init => BoundByRules /\ PinsAsPrescribed
  BY DEF Init, BoundByRules, PinsAsPrescribed
<1>2. /\ PolicyTypeOK /\ InForceWasHeld /\ BoundByRules /\ PinsAsPrescribed
      /\ [Next]_vars
      => PinsAsPrescribed'
  <2> SUFFICES ASSUME PolicyTypeOK, InForceWasHeld, BoundByRules, PinsAsPrescribed,
                      [Next]_vars
               PROVE  PinsAsPrescribed'
    OBVIOUS
  <2> DEFINE Prescribes(texts, n) ==
        \E rules \in {Default} \cup {Meaning(words) : words \in texts} :
          n \in rules.min..rules.max
  <2>1. held \subseteq held'
    BY DEF Next, vars, Replace, Save, Protect, Unlink, Upgrade, Edited, Load, Open, Stat,
           Read, Parse, Trouble, Enter, Exit, Stays, edited
  <2>2. \A n : Prescribes(held, n) => Prescribes(held', n)
    BY <2>1
  <2>3. ASSUME NEW p \in Loaders, Enter(p)
        PROVE  \E n \in Int : /\ pin' = [pin EXCEPT ![p] = n]
                              /\ n # -1 => n # 0 /\ Prescribes(held, n)
    <3>1. PICK n \in Inputs : pin' = [pin EXCEPT ![p] = IF Accepts(policy[p], n) THEN n ELSE -1]
      BY <2>3 DEF Enter
    <3>2. policy[p] \in Policies /\ policy[p] \in {Default} \cup {Meaning(words) : words \in held}
      BY <2>3 DEF Enter, PolicyTypeOK, InForceWasHeld, BoundByRules
    <3>3. n \in Nat
      BY PolicyAssumption
    <3>4. Accepts(policy[p], n) => n # 0 /\ n \in policy[p].min..policy[p].max
      BY <3>2, <3>3 DEF Accepts, Policies
    <3>5. CASE Accepts(policy[p], n)
      <4>1. n # 0 /\ Prescribes(held, n) /\ n \in Int
        BY <3>2, <3>3, <3>4, <3>5
      <4>2. pin' = [pin EXCEPT ![p] = n]
        BY <3>1, <3>5
      <4> HIDE DEF Prescribes
      <4> QED BY <4>1, <4>2
    <3>6. CASE ~Accepts(policy[p], n)
      <4>1. pin' = [pin EXCEPT ![p] = -1] /\ -1 \in Int
        BY <3>1, <3>6
      <4> HIDE DEF Prescribes
      <4> QED BY <4>1
    <3> QED BY <3>5, <3>6
  <2>4. \/ UNCHANGED pin
        \/ \E p \in Loaders : pin' = [pin EXCEPT ![p] = -1]
        \/ \E p \in Loaders : Enter(p)
    BY DEF Next, vars, Replace, Save, Protect, Unlink, Upgrade, Edited, loading, Load,
           Open, Stat, Read, Parse, Trouble, Exit, Adopt
  <2>5. \/ UNCHANGED pin
        \/ \E p \in Loaders, n \in Int :
             pin' = [pin EXCEPT ![p] = n] /\ (n # -1 => n # 0 /\ Prescribes(held, n))
    BY <2>3, <2>4
  <2>6. \A p \in Loaders : pin'[p] # -1 => pin'[p] # 0 /\ Prescribes(held, pin'[p])
    <3>1. \A p \in Loaders : pin[p] # -1 => pin[p] # 0 /\ Prescribes(held, pin[p])
      BY DEF PinsAsPrescribed
    <3> HIDE DEF Prescribes
    <3> QED BY <2>5, <3>1 DEF PolicyTypeOK
  <2> QED BY <2>2, <2>6 DEF PinsAsPrescribed
<1>3. PolicyTypeOK /\ BoundByRules /\ [Next]_vars => BoundByRules'
  BY BoundByRulesStep
<1> QED BY <1>1, <1>2, <1>3, PolicyTyped, InForceIsMeant, PTL DEF Spec
=============================================================================
