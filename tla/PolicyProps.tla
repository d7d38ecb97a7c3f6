---------------------------- MODULE PolicyProps ----------------------------
(***************************************************************************)
(* The properties of Policy.                                                *)
(***************************************************************************)
EXTENDS Policy, FiniteSetsExt

(* Every variable has its type.                                             *)
PolicyTypeOK ==
  /\ path \in Files \cup {NoFile}
  /\ file \in [Files -> Inodes]
  /\ installed \subseteq Helpers
  /\ at \in [Loaders -> {"start", "opened", "checked", "read", "bound"}]
  /\ fd \in [Loaders -> Files \cup {NoFile}]
  /\ text \in [Loaders -> Texts \cup {<<>>}]
  /\ policy \in [Loaders -> Policies \cup {NoPolicy}]
  /\ pin \in [Loaders -> Inputs \cup {-1}]
  /\ edits \in 0..MaxEdits
  /\ held \subseteq Texts \cup {<<>>}
  /\ calm \in [Loaders -> BOOLEAN]

(* What a text says: the last value given for a key counts, and a key that  *)
(* is not given has its default.                                            *)
Given(words, key, default) ==
  LET places == {i \in DOMAIN words : words[i].key = key}
  IN  IF places = {} THEN default ELSE words[Max(places)].value

Meaning(words) ==
  [min      |-> Given(words, "pin_min_length", Default.min),
   max      |-> Given(words, "pin_max_length", Default.max),
   attempts |-> Given(words, "pin_lockout_max_attempts", Default.attempts),
   helper   |-> Given(words, "pinutil_path", Default.helper),
   backend  |-> Given(words, "tcti", Default.backend)]

Sound(words, there) == \A i \in DOMAIN words : Valid(words[i], there)

(* What a process goes on to parse is one whole text that a file of root's, *)
(* 0644 or less, held under the policy's name at some time, although the    *)
(* file is opened, checked and read in three steps between which it may be  *)
(* swapped, rewritten or protected.                                         *)
ReadWasHeld == \A p \in Loaders : at[p] = "read" => text[p] \in held

(* A process is bound by the defaults or by the meaning of such a text:     *)
(* never by a mixture of two texts, by the part of one that precedes a bad  *)
(* setting, or by a file that others could write.                           *)
InForceWasHeld ==
  \A p \in Loaders :
    policy[p] \in {NoPolicy, Default} \cup {Meaning(words) : words \in held}

(* A process that loads its policy while nothing changes and nothing fails  *)
(* is bound by exactly what the file says if it is root's, 0644 or less and *)
(* sound, and by the defaults if not.                                       *)
LoadObeys ==
  \A p \in Loaders :
    at[p] # "bound" /\ at'[p] = "bound" /\ calm'[p]
    => policy'[p] = IF /\ path # NoFile
                       /\ AsDocumented(file[path])
                       /\ Sound(file[path].text, installed)
                      THEN Meaning(file[path].text) ELSE Default

CalmLoadObeys == [][LoadObeys]_vars

(* A PIN that a process made of an input is never empty, the value that     *)
(* authorises an index that has none, and its length is in the range that   *)
(* the defaults or one text of root's prescribe, read as a whole: no edit   *)
(* between open, check and read, no bad setting and no restart lets the     *)
(* limits of a file that others could write decide on a PIN.                *)
PinsAsPrescribed ==
  \A p \in Loaders : pin[p] # -1 =>
    /\ pin[p] # 0
    /\ \E rules \in {Default} \cup {Meaning(words) : words \in held} :
         pin[p] \in rules.min..rules.max
=============================================================================
