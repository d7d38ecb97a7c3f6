------------------------------- MODULE Policy -------------------------------
(***************************************************************************)
(* The PIN policy: how a process comes to the policy it is bound by for the *)
(* rest of its life, while the administrator replaces, saves, protects and  *)
(* removes the file and packages come and go, and which inputs Pin::new     *)
(* makes a PIN of.  A text is a sequence of settings; an inode outlives its *)
(* name.                                                                    *)
(***************************************************************************)
EXTENDS Integers, Sequences

CONSTANTS Loaders,     \* processes
          Files,       \* inodes
          Texts,       \* what the administrator writes
          Helpers,     \* paths of pinutil
          Backends,    \* TCTI specs that parse_tcti_spec accepts
          ModeBits,    \* permission bits the administrator sets
          Inputs,      \* lengths of inputs, without the surrounding blanks
          MaxEdits,    \* bound on what the administrator does
          NoFile, NoPolicy, Garbage

Keys == {"pin_min_length", "pin_max_length", "pin_lockout_max_attempts",
         "pinutil_path", "tcti", "unknown", "no_equals_sign"}

Numbers  == {"pin_min_length", "pin_max_length", "pin_lockout_max_attempts"}
Settings == [key : Keys, value : Nat \cup Helpers \cup Backends \cup {Garbage}]
Policies == [min : Nat, max : Nat, attempts : Nat, helper : Helpers, backend : Backends]

DefaultHelper  == CHOOSE path \in Helpers : TRUE
DefaultBackend == CHOOSE spec \in Backends : TRUE

Default == [min |-> 4, max |-> 8, attempts |-> 3,
            helper |-> DefaultHelper, backend |-> DefaultBackend]

(* Of the nine permission bits, 0644 and 0133.                              *)
Allowed   == {"owner_read", "owner_write", "group_read", "other_read"}
Forbidden == {"owner_exec", "group_write", "group_exec", "other_write", "other_exec"}

ASSUME PolicyAssumption == /\ Helpers # {} /\ Backends # {}
                           /\ Texts \subseteq Seq(Settings)
                           /\ ModeBits \subseteq Allowed \cup Forbidden
                           /\ Inputs \subseteq Nat
                           /\ MaxEdits \in Nat
                           /\ NoFile \notin Files
                           /\ NoPolicy \notin Policies

VARIABLES path,       \* the inode the policy's path names
          file,       \* owner, permissions, type and text of every inode
          installed,  \* the helper paths that are regular files
          at,         \* where a process stands in the loading of its policy
          fd,         \* the inode it has open
          text,       \* what it has read
          policy,     \* the policy it is bound by
          pin,        \* length of the PIN it made of its last input, or -1
          edits,      \* how much the administrator has done
          held,       \* history: texts that a secure file at the path held
          calm        \* history: nothing changed or failed since it began

edited  == <<path, file, installed, edits, held>>
loading == <<at, fd, text, policy, pin>>
vars    == <<path, file, installed, edits, held, at, fd, text, policy, pin, calm>>

Inodes == [owner : {"root", "user"}, mode : SUBSET ModeBits, regular : BOOLEAN,
           text : Texts \cup {<<>>}]

-----------------------------------------------------------------------------
(* Mutant: only the bits that let others write are looked at.               *)
WriteBitsMutant(f) == /\ f.regular
                      /\ f.owner = "root"
                      /\ f.mode \cap {"group_write", "other_write"} = {}

(* is_file and metadata_is_secure.                                          *)
Secure(f) == /\ f.regular
             /\ f.owner = "root"
             /\ f.mode \cap Forbidden = {}

(* Mutant: a TCTI spec that cannot be parsed is kept.                       *)
AnySpecMutant(setting, there) ==
  CASE setting.key \in Numbers        -> setting.value \in Nat
    [] setting.key = "pinutil_path"   -> setting.value \in there
    [] setting.key = "no_equals_sign" -> FALSE
    [] OTHER                          -> TRUE

(* A setting that parse_config does not refuse.                             *)
Valid(setting, there) ==
  CASE setting.key \in Numbers        -> setting.value \in Nat
    [] setting.key = "pinutil_path"   -> setting.value \in there
    [] setting.key = "tcti"           -> setting.value \in Backends
    [] setting.key = "unknown"        -> TRUE
    [] setting.key = "no_equals_sign" -> FALSE

Obey(rules, setting) ==
  CASE setting.key = "pin_min_length" -> [rules EXCEPT !.min = setting.value]
    [] setting.key = "pin_max_length" -> [rules EXCEPT !.max = setting.value]
    [] setting.key = "pin_lockout_max_attempts" ->
                                         [rules EXCEPT !.attempts = setting.value]
    [] setting.key = "pinutil_path"   -> [rules EXCEPT !.helper = setting.value]
    [] setting.key = "tcti"           -> [rules EXCEPT !.backend = setting.value]
    [] OTHER                          -> rules

(* Mutant: a bad setting is skipped.                                        *)
KeepMutant(rules, setting, there) ==
  IF Valid(setting, there) THEN Obey(rules, setting) ELSE rules

(* One turn of parse_config's loop, which ends at the first bad setting.    *)
Turn(rules, setting, there) ==
  IF rules = NoPolicy \/ ~Valid(setting, there) THEN NoPolicy ELSE Obey(rules, setting)

(* The rules after each of its turns.                                       *)
Turns(words, there) ==
  LET after[n \in 0..Len(words)] ==
        IF n = 0 THEN Default ELSE Turn(after[n - 1], words[n], there)
  IN  after

ParseConfig(words, there) == Turns(words, there)[Len(words)]

(* Mutant: only the limits of the policy are looked at.                     *)
LengthOnlyMutant(rules, n) == n >= rules.min /\ n <= rules.max

(* PinPolicy::validate of a trimmed input.                                  *)
Accepts(rules, n) == n > 0 /\ n >= rules.min /\ n <= rules.max

-----------------------------------------------------------------------------
Init ==
  /\ path = NoFile
  /\ file \in [Files -> {[owner |-> "root", mode |-> {}, regular |-> TRUE, text |-> <<>>]}]
  /\ installed = Helpers
  /\ at = [p \in Loaders |-> "start"]
  /\ fd = [p \in Loaders |-> NoFile]
  /\ text = [p \in Loaders |-> <<>>]
  /\ policy = [p \in Loaders |-> NoPolicy]
  /\ pin = [p \in Loaders |-> -1]
  /\ edits = 0
  /\ held = {}
  /\ calm = [p \in Loaders |-> TRUE]

(* Owned by root and 0644 or less.                                          *)
AsDocumented(f) ==
  /\ f.regular /\ f.owner = "root"
  /\ f.mode \subseteq Allowed

(* What an edit leaves behind.                                              *)
Edited ==
  /\ edits < MaxEdits
  /\ edits' = edits + 1
  /\ held' = IF path' # NoFile /\ AsDocumented(file'[path'])
               THEN held \cup {file'[path'].text} ELSE held
  /\ calm' = [p \in Loaders |-> at[p] = "start"]
  /\ UNCHANGED loading

(* A new file is renamed to the policy's path.                              *)
Replace ==
  /\ \E f \in Files \ {path} :
       /\ \A p \in Loaders : fd[p] # f
       /\ \E inode \in Inodes : file' = [file EXCEPT ![f] = inode]
       /\ path' = f
  /\ Edited /\ UNCHANGED installed

(* The file is written in place.  An editor that truncates it first does    *)
(* so twice.                                                                *)
Save ==
  /\ path # NoFile
  /\ \E words \in Texts \cup {<<>>} : file' = [file EXCEPT ![path].text = words]
  /\ UNCHANGED <<path, installed>> /\ Edited

(* chown and chmod of a file that was not secure.                           *)
Protect ==
  /\ path # NoFile
  /\ ~Secure(file[path])
  /\ file' = [file EXCEPT ![path].owner = "root", ![path].mode = {}]
  /\ UNCHANGED <<path, installed>> /\ Edited

Unlink ==
  /\ path # NoFile
  /\ path' = NoFile
  /\ UNCHANGED <<file, installed>> /\ Edited

(* A pinutil is installed or removed.                                       *)
Upgrade ==
  /\ \E there \in SUBSET Helpers : installed' = there
  /\ UNCHANGED <<path, file>> /\ Edited

-----------------------------------------------------------------------------
(* PinPolicy::cached.  Whatever goes wrong, the process has the defaults.   *)
Adopt(p, rules) ==
  /\ at' = [at EXCEPT ![p] = "bound"]
  /\ policy' = [policy EXCEPT ![p] = rules]
  /\ fd' = [fd EXCEPT ![p] = NoFile]
  /\ text' = [text EXCEPT ![p] = <<>>]
  /\ UNCHANGED pin

Stays == UNCHANGED <<path, file, installed, edits, held, calm>>

(* A system call fails.                                                     *)
Trouble(p) ==
  /\ at[p] \in {"start", "opened", "checked"}
  /\ Adopt(p, Default)
  /\ calm' = [calm EXCEPT ![p] = FALSE]
  /\ UNCHANGED edited

Open(p) ==
  /\ at[p] = "start"
  /\ \/ /\ path = NoFile
        /\ Adopt(p, Default)
     \/ /\ path # NoFile
        /\ at' = [at EXCEPT ![p] = "opened"]
        /\ fd' = [fd EXCEPT ![p] = path]
        /\ UNCHANGED <<text, policy, pin>>
  /\ Stays

(* Mutant: what the path names now is checked, not what is open.            *)
PathStatMutant(p) ==
  /\ at[p] = "opened"
  /\ IF path # NoFile /\ Secure(file[path])
       THEN /\ at' = [at EXCEPT ![p] = "checked"]
            /\ UNCHANGED <<fd, text, policy, pin>>
       ELSE Adopt(p, Default)
  /\ Stays

Stat(p) ==
  /\ at[p] = "opened"
  /\ \/ /\ Secure(file[fd[p]])
        /\ at' = [at EXCEPT ![p] = "checked"]
        /\ UNCHANGED <<fd, text, policy, pin>>
     \/ /\ ~Secure(file[fd[p]])
        /\ Adopt(p, Default)
  /\ Stays

Read(p) ==
  /\ at[p] = "checked"
  /\ at' = [at EXCEPT ![p] = "read"]
  /\ text' = [text EXCEPT ![p] = file[fd[p]].text]
  /\ UNCHANGED <<fd, policy, pin>>
  /\ Stays

Parse(p) ==
  /\ at[p] = "read"
  /\ LET rules == ParseConfig(text[p], installed)
     IN  Adopt(p, IF rules = NoPolicy THEN Default ELSE rules)
  /\ Stays

(* Pin::new of an input: of a PIN to set, or of one to try.                 *)
Enter(p) ==
  /\ at[p] = "bound"
  /\ \E n \in Inputs : pin' = [pin EXCEPT ![p] = IF Accepts(policy[p], n) THEN n ELSE -1]
  /\ UNCHANGED <<at, fd, text, policy>>
  /\ Stays

(* The process ends, and another one starts in its place.                   *)
Exit(p) ==
  /\ at[p] = "bound"
  /\ at' = [at EXCEPT ![p] = "start"]
  /\ policy' = [policy EXCEPT ![p] = NoPolicy]
  /\ pin' = [pin EXCEPT ![p] = -1]
  /\ calm' = [calm EXCEPT ![p] = TRUE]
  /\ UNCHANGED <<fd, text>> /\ UNCHANGED edited

Load(p) == Open(p) \/ Stat(p) \/ Read(p) \/ Parse(p)

Next == \/ Replace \/ Save \/ Protect \/ Unlink \/ Upgrade
        \/ \E p \in Loaders : Load(p) \/ Trouble(p) \/ Enter(p) \/ Exit(p)

Spec == Init /\ [][Next]_vars
=============================================================================
