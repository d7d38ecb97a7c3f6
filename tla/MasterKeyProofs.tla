-------------------------- MODULE MasterKeyProofs --------------------------
(***************************************************************************)
(* The type invariant and PhraseRestores, for any number of processes,      *)
(* keys, failures and crashes.                                              *)
(***************************************************************************)
EXTENDS MasterKeyProps, TLAPS

(* What the code relies on between drawing a key and showing its phrase.    *)
KeysDrawn ==
  /\ drawn \in Nat /\ drawn <= MaxKeys
  /\ known \subseteq 1..drawn
  /\ file \in Files
  /\ at \in [Procs -> Labels]
  /\ job \in [Procs -> Jobs]
  /\ \A p \in Procs : Key(p) <= drawn

(* A running init has a key of its own.                                     *)
OwnKeys ==
  /\ \A p \in Procs : Op(p) = "init" /\ at[p] # "idle" => Key(p) \in Keys
  /\ \A p, q \in Procs :
       Op(p) = "init" /\ Op(q) = "init" /\ Key(p) = Key(q) /\ Key(p) # NoKey
       => p = q

(* Where init stands tells how much of its file there is, unless somebody   *)
(* deleted it.                                                              *)
FileKept ==
  \A p \in Procs :
    /\ at[p] \in {"seal_open", "seal_write"} => Op(p) = "init"
    /\ at[p] = "seal_write" => Key(p) \in erased \/ file = Partial(Key(p))
    /\ at[p] = "confirm" /\ Op(p) = "init" =>
         Key(p) \in erased \/ file = Sealed(Key(p))

IInv == KeysDrawn /\ OwnKeys /\ FileKept /\ PhraseRestores

USE MasterKeyAssumption

(* Initially no command runs and no phrase was shown.                       *)
LEMMA InitHolds == Init => IInv
  BY DEF Init, IInv, KeysDrawn, OwnKeys, FileKept, PhraseRestores, Op, Key,
         Files, NoFile, Jobs, Labels, Commands, Keys, NoKey

(* A command begins: only init gets a key nobody has, the one it draws.     *)
LEMMA BeginKeeps ==
  ASSUME IInv, NEW p \in Procs, CallInit(p) \/ CallImport(p) \/ CallClear(p)
  PROVE  IInv'
<1>1. PICK op \in Commands, k \in Keys \cup {NoKey}, label \in Labels :
        /\ Begin(p, op, k) /\ at' = [at EXCEPT ![p] = label]
        /\ label \in {"idle", "look_parent", "status_parent", "evict_open", "remove"}
        /\ \/ drawn' = drawn /\ k <= drawn /\ (op = "init" => k = NoKey /\ label = "idle")
           \/ drawn' = drawn + 1 /\ drawn < MaxKeys /\ k = drawn + 1
  <2>1. CASE CallInit(p)
    <3>1. CASE UNCHANGED drawn /\ Begin(p, "init", NoKey) /\ Return(p, "error")
      BY <3>1 DEF IInv, KeysDrawn, Return, Commands, Labels, Keys, NoKey
    <3>2. CASE /\ drawn < MaxKeys /\ drawn' = drawn + 1
               /\ Begin(p, "init", drawn + 1) /\ Goto(p, "look_parent")
      BY <3>2 DEF IInv, KeysDrawn, Goto, Commands, Labels, Keys, NoKey
    <3> QED BY <2>1, <3>1, <3>2 DEF CallInit
  <2>2. CASE CallImport(p)
    <3>1. PICK phrase \in known \cup {NoKey} : Begin(p, "import", phrase)
      BY <2>2 DEF CallImport
    <3>2. phrase \in Keys \cup {NoKey} /\ phrase <= drawn
      BY DEF IInv, KeysDrawn, Keys, NoKey
    <3> QED BY <2>2, <3>1, <3>2 DEF CallImport, Goto, Commands, Labels
  <2>3. CASE CallClear(p)
    BY <2>3 DEF CallClear, IInv, KeysDrawn, Goto, Commands, Labels, NoKey
  <2> QED BY <2>1, <2>2, <2>3
<1>2. /\ UNCHANGED <<file, known, erased>>
      /\ at' \in [Procs -> Labels] /\ job' \in [Procs -> Jobs]
      /\ at'[p] = label /\ job'[p].op = op /\ job'[p].key = k
      /\ \A q \in Procs : q # p => at'[q] = at[q] /\ job'[q] = job[q]
  BY <1>1 DEF IInv, KeysDrawn, Begin, Jobs
<1>3. /\ drawn \in Nat /\ drawn' \in Nat /\ drawn <= drawn' /\ drawn' <= MaxKeys
      /\ k \in Nat /\ k <= drawn'
  BY <1>1 DEF IInv, KeysDrawn, Keys, NoKey
<1>4. \A q \in Procs : Key(q) \in Nat /\ Key(q) <= drawn
  BY DEF IInv, KeysDrawn, Key, Jobs, Keys, NoKey
<1>5. KeysDrawn'
  <2>1. \A q \in Procs : Key(q)' <= drawn'
    BY <1>2, <1>3, <1>4 DEF Key
  <2> QED BY <1>2, <1>3, <2>1 DEF IInv, KeysDrawn
<1>6. OwnKeys'
  <2>1. op = "init" => (k = NoKey /\ label = "idle") \/ k \in Keys
    BY <1>1, <1>3 DEF Keys, NoKey
  <2>2. \A q \in Procs : op = "init" /\ k # NoKey => Key(q) # k
    BY <1>1, <1>3, <1>4
  <2>3. \A q \in Procs : Op(q)' = "init" /\ at'[q] # "idle" => Key(q)' \in Keys
    BY <1>1, <1>2, <2>1 DEF IInv, OwnKeys, Op, Key
  <2>4. \A q, r \in Procs :
          Op(q)' = "init" /\ Op(r)' = "init" /\ Key(q)' = Key(r)' /\ Key(q)' # NoKey
          => q = r
    BY <1>2, <2>2 DEF IInv, OwnKeys, Op, Key
  <2> QED BY <2>3, <2>4 DEF OwnKeys, Op, Key
<1>7. FileKept' /\ PhraseRestores'
  BY <1>1, <1>2 DEF IInv, FileKept, PhraseRestores, Op, Key
<1> QED BY <1>5, <1>6, <1>7 DEF IInv

(* A step that leaves the file alone and does not bring init past it.       *)
LEMMA AsideKeeps ==
  ASSUME IInv, NEW p \in Procs, NEW label \in Labels,
         at[p] # "idle", at' = [at EXCEPT ![p] = label],
         UNCHANGED <<file, known, drawn, erased, job>>,
         label = "seal_open" => Op(p) = "init",
         label = "confirm" => Op(p) # "init",
         label # "seal_write"
  PROVE  IInv'
<1>1. KeysDrawn' /\ OwnKeys' /\ PhraseRestores'
  BY DEF IInv, KeysDrawn, OwnKeys, PhraseRestores, Op, Key
<1>2. FileKept'
  BY DEF IInv, KeysDrawn, FileKept, Op, Key
<1> QED BY <1>1, <1>2 DEF IInv

(* The file is created only if there is none.                               *)
LEMMA SealOpenKeeps == ASSUME IInv, NEW p \in Procs, SealOpen(p) PROVE IInv'
<1>1. CASE file' = file
  <2>1. at' = [at EXCEPT ![p] = "evict_open"]
    BY <1>1 DEF SealOpen, Goto, NoFile, Partial
  <2> QED BY <1>1, <2>1, AsideKeeps DEF SealOpen, Begun, Labels
<1>2. CASE file = NoFile /\ file' = Partial(Key(p)) /\ Goto(p, "seal_write")
  <2>1. Op(p) = "init" /\ Key(p) \in Keys
    BY DEF IInv, OwnKeys, FileKept, SealOpen
  <2>2. known \subseteq erased
    BY <1>2 DEF IInv, PhraseRestores, NoFile, Sealed
  <2>3. KeysDrawn'
    BY <1>2, <2>1 DEF SealOpen, IInv, KeysDrawn, Key, Begun, Goto, Labels, Files,
                      Partial
  <2>4. OwnKeys'
    BY <1>2, <2>1 DEF SealOpen, IInv, KeysDrawn, OwnKeys, Op, Key, Begun, Goto
  <2>5. FileKept' /\ PhraseRestores'
    BY <1>2, <2>1, <2>2 DEF SealOpen, IInv, KeysDrawn, FileKept, PhraseRestores,
                            Op, Key, Begun, Goto, NoFile, Partial, Sealed
  <2> QED BY <2>3, <2>4, <2>5 DEF IInv
<1> QED BY <1>1, <1>2 DEF SealOpen

(* A write completes the writer's own file: no other init has its key.      *)
LEMMA SealWriteKeeps == ASSUME IInv, NEW p \in Procs, SealWrite(p) PROVE IInv'
<1>1. CASE Fails /\ Goto(p, "evict_open") /\ UNCHANGED file
  BY <1>1, AsideKeeps DEF SealWrite, Goto, Begun, Labels
<1>2. CASE /\ file' = IF file = Partial(Key(p)) THEN Sealed(Key(p)) ELSE file
           /\ Goto(p, "confirm")
  <2>1. Op(p) = "init" /\ Key(p) \in Keys
    BY DEF IInv, OwnKeys, FileKept, SealWrite
  <2>2. KeysDrawn'
    BY <1>2, <2>1 DEF SealWrite, IInv, KeysDrawn, Key, Begun, Goto, Labels, Files,
                      Sealed
  <2>3. OwnKeys'
    BY <1>2 DEF SealWrite, IInv, KeysDrawn, OwnKeys, Op, Key, Begun, Goto
  <2>4. \A k \in Keys : file = Sealed(k) => file' = Sealed(k)
    BY <1>2 DEF Sealed, Partial
  <2>5. \A q \in Procs : q # p /\ Op(q) = "init" /\ file = Partial(Key(q)) => file' = file
    BY <1>2, <2>1 DEF IInv, OwnKeys, Partial, Keys, NoKey
  <2>6. PhraseRestores'
    BY <2>4 DEF SealWrite, IInv, KeysDrawn, PhraseRestores, Begun, Keys
  <2>7. FileKept'
    <3> SUFFICES ASSUME NEW q \in Procs
                 PROVE  /\ at'[q] \in {"seal_open", "seal_write"} => Op(q)' = "init"
                        /\ at'[q] = "seal_write" =>
                             Key(q) \in erased \/ file' = Partial(Key(q))
                        /\ at'[q] = "confirm" /\ Op(q) = "init" =>
                             Key(q) \in erased \/ file' = Sealed(Key(q))
      BY DEF FileKept, SealWrite, Begun, Op, Key
    <3>1. CASE q = p
      BY <1>2, <2>1, <3>1 DEF SealWrite, IInv, KeysDrawn, FileKept, Goto
    <3>2. CASE q # p
      <4>1. at'[q] = at[q] /\ Op(q)' = Op(q) /\ (Op(q) = "init" /\ at[q] # "idle" => Key(q) \in Keys)
        BY <1>2, <3>2 DEF SealWrite, IInv, KeysDrawn, OwnKeys, Goto, Begun, Op
      <4> QED BY <3>2, <4>1, <2>4, <2>5 DEF IInv, FileKept
    <3> QED BY <3>1, <3>2
  <2> QED BY <2>2, <2>3, <2>6, <2>7 DEF IInv
<1> QED BY <1>1, <1>2 DEF SealWrite

(* A phrase is shown when its file is complete or was deleted.              *)
LEMMA ConfirmKeeps == ASSUME IInv, NEW p \in Procs, Confirm(p) PROVE IInv'
<1>1. /\ at' = [at EXCEPT ![p] = "idle"] /\ UNCHANGED <<file, drawn, erased, job>>
      /\ \/ known' = known
         \/ Op(p) = "init" /\ known' = known \cup {Key(p)}
  BY DEF Confirm, Return, Store, Begun
<1>2. Op(p) = "init" =>
        Key(p) \in Keys /\ (Key(p) \in erased \/ file = Sealed(Key(p)))
  BY DEF Confirm, IInv, OwnKeys, FileKept
<1>3. KeysDrawn'
  <2>1. Op(p) = "init" => Key(p) \in 1..drawn
    BY <1>2 DEF IInv, KeysDrawn, Keys
  <2>2. known' \subseteq 1..drawn
    BY <1>1, <2>1 DEF IInv, KeysDrawn
  <2> QED BY <1>1, <2>2 DEF IInv, KeysDrawn, Key, Labels
<1>4. OwnKeys' /\ FileKept'
  BY <1>1 DEF IInv, KeysDrawn, OwnKeys, FileKept, Op, Key
<1>5. PhraseRestores'
  BY <1>1, <1>2 DEF IInv, PhraseRestores
<1> QED BY <1>3, <1>4, <1>5 DEF IInv

(* Deleting the file is what the properties make an exception for.          *)
LEMMA RemoveKeeps == ASSUME IInv, NEW p \in Procs, Remove(p) PROVE IInv'
<1>1. /\ at' = [at EXCEPT ![p] = "idle"] /\ UNCHANGED <<known, drawn, job>>
      /\ \/ UNCHANGED <<file, erased>>
         \/ file' = NoFile /\ erased' = erased \cup ({file.key} \ {NoKey})
  BY DEF Remove, Return
<1>2. erased \subseteq erased'
  BY <1>1
<1>3. \A k \in Keys : /\ file = Sealed(k) => k \in erased' \/ file' = Sealed(k)
                      /\ file = Partial(k) => k \in erased' \/ file' = Partial(k)
  BY <1>1 DEF Sealed, Partial, Keys, NoKey
<1>4. KeysDrawn'
  BY <1>1 DEF IInv, KeysDrawn, Key, Labels, Files, NoFile
<1>5. OwnKeys'
  BY <1>1 DEF IInv, KeysDrawn, OwnKeys, Op, Key
<1>6. FileKept'
  BY <1>1, <1>2, <1>3 DEF IInv, KeysDrawn, OwnKeys, FileKept, Op, Key
<1>7. PhraseRestores'
  BY <1>1, <1>2, <1>3 DEF IInv, KeysDrawn, PhraseRestores, Keys
<1> QED BY <1>4, <1>5, <1>6, <1>7 DEF IInv

(* Every step keeps the invariant.                                          *)
LEMMA StepKeeps == IInv /\ [Next]_vars => IInv'
<1> SUFFICES ASSUME IInv, [Next]_vars PROVE IInv'
  OBVIOUS
<1>1. CASE UNCHANGED vars
  BY <1>1 DEF vars, IInv, KeysDrawn, OwnKeys, FileKept, PhraseRestores, Op, Key
<1>2. ASSUME NEW p \in Procs, CallInit(p) \/ CallImport(p) \/ CallClear(p)
      PROVE  IInv'
  BY <1>2, BeginKeeps
<1>3. ASSUME NEW p \in Procs, StatusParent(p) \/ StatusKey(p) \/ Unseal(p)
      PROVE  IInv'
  <2>1. \E label \in {"idle", "status_key", "unseal", "look_parent"} :
          at' = [at EXCEPT ![p] = label]
    BY <1>3 DEF StatusParent, StatusKey, Unseal, Goto, Return
  <2> QED BY <1>3, <2>1, AsideKeeps
          DEF StatusParent, StatusKey, Unseal, Store, Begun, Labels
<1>4. ASSUME NEW p \in Procs,
             LookParent(p) \/ MakeParent(p) \/ LookKey(p) \/ LoadKey(p)
      PROVE  IInv'
  <2>1. \E label \in {"idle", "make_parent", "look_key", "load_key", "keep_key"} :
          at' = [at EXCEPT ![p] = label]
    BY <1>4 DEF LookParent, MakeParent, LookKey, LoadKey, Goto, Return
  <2> QED BY <1>4, <2>1, AsideKeeps
          DEF LookParent, MakeParent, LookKey, LoadKey, Store, Begun, Labels
<1>5. ASSUME NEW p \in Procs, KeepKey(p) PROVE IInv'
  <2>1. \E label \in {"idle", "seal_open", "confirm"} :
          /\ at' = [at EXCEPT ![p] = label]
          /\ label = "seal_open" => Op(p) = "init"
          /\ label = "confirm" => Op(p) # "init"
    BY <1>5 DEF KeepKey, Goto, Return
  <2> QED BY <1>5, <2>1, AsideKeeps DEF KeepKey, Begun, Labels
<1>6. ASSUME NEW p \in Procs, EvictOpen(p) \/ EvictKey(p) \/ EvictParent(p) \/ Kill(p)
      PROVE  IInv'
  <2>1. \E label \in {"idle", "evict_key", "evict_parent"} :
          at' = [at EXCEPT ![p] = label]
    BY <1>6 DEF EvictOpen, EvictKey, EvictParent, Kill, Goto, Return
  <2> QED BY <1>6, <2>1, AsideKeeps
          DEF EvictOpen, EvictKey, EvictParent, Kill, Store, Begun, Labels
<1>7. ASSUME NEW p \in Procs, SealOpen(p) \/ SealWrite(p) \/ Confirm(p) \/ Remove(p)
      PROVE  IInv'
  BY <1>7, SealOpenKeeps, SealWriteKeeps, ConfirmKeeps, RemoveKeeps
<1> QED BY <1>1, <1>2, <1>3, <1>4, <1>5, <1>6, <1>7 DEF Next

(* Whoever was shown a phrase can restore its key until the file is         *)
(* deleted, for any number of processes, failures and crashes.              *)
THEOREM ShownPhrasesRestore == Spec => []PhraseRestores
<1>1. IInv => PhraseRestores
  BY DEF IInv
<1> QED BY InitHolds, StepKeeps, <1>1, PTL DEF Spec

-----------------------------------------------------------------------------
(* With what is known of the keys drawn, the rest of the type invariant.    *)
LEMMA TypeInit == Init => KeyTypeOK
<1> SUFFICES ASSUME Init PROVE KeyTypeOK
  OBVIOUS
<1>1. Seen \in Starts
  <2>1. (hmac = NoKey /\ file = NoFile) \in BOOLEAN /\ faults \in 0..MaxFaults
    BY DEF Init
  <2> QED
    BY <2>1 DEF Seen, Starts
<1>2. start \in [Procs -> Starts]
  BY <1>1 DEF Init
<1>3. file \in Files /\ hmac \in Keys \cup {NoKey} /\ drawn \in 0..MaxKeys
  BY DEF Init, Files, NoFile
<1>4. job \in [Procs -> Jobs]
  BY DEF Init, Jobs, Commands
<1>5. at \in [Procs -> Labels] /\ res \in [Procs -> Results]
  BY DEF Init, Labels, Results
<1>6. parent \in BOOLEAN /\ known \subseteq Keys /\ erased \subseteq Keys
  BY DEF Init
<1>7. faults \in 0..MaxFaults /\ crashes \in 0..MaxCrashes
  BY DEF Init
<1> QED
  BY <1>2, <1>3, <1>4, <1>5, <1>6, <1>7 DEF KeyTypeOK

(* The steps of a running command: job and start stay.                      *)
LEMMA TypeStep ==
  ASSUME KeyTypeOK, NEW p \in Procs,
         \/ StatusParent(p) \/ StatusKey(p) \/ Unseal(p)
         \/ LookParent(p) \/ MakeParent(p) \/ LookKey(p) \/ LoadKey(p) \/ KeepKey(p)
         \/ SealOpen(p) \/ SealWrite(p) \/ Confirm(p)
         \/ EvictOpen(p) \/ EvictKey(p) \/ EvictParent(p) \/ Remove(p) \/ Kill(p),
         Key(p) \in Keys \cup {NoKey},
         Op(p) = "init" /\ at[p] # "idle" => Key(p) \in Keys
  PROVE  KeyTypeOK'
<1> USE DEF Begun, Store
<1>1. /\ UNCHANGED <<drawn, job, start>>
      /\ \/ \E label \in Labels : Goto(p, label)
         \/ \E result \in Results : Return(p, result)
  BY DEF StatusParent, StatusKey, Unseal, LookParent, MakeParent, LookKey, LoadKey,
         KeepKey, SealOpen, SealWrite, Confirm, EvictOpen, EvictKey, EvictParent,
         Remove, Kill, Labels, Results, Cleared
<1>2. at' \in [Procs -> Labels] /\ res' \in [Procs -> Results]
  BY <1>1 DEF KeyTypeOK, Goto, Return, Labels
<1>3. faults' \in 0..MaxFaults /\ crashes' \in 0..MaxCrashes
  BY DEF KeyTypeOK, Works, Fails,
         StatusParent, StatusKey, Unseal, LookParent, MakeParent, LookKey, LoadKey,
         KeepKey, SealOpen, SealWrite, Confirm, EvictOpen, EvictKey, EvictParent,
         Remove, Kill
<1>4. parent' \in BOOLEAN /\ hmac' \in Keys \cup {NoKey}
  BY DEF KeyTypeOK,
         StatusParent, StatusKey, Unseal, LookParent, MakeParent, LookKey, LoadKey,
         KeepKey, SealOpen, SealWrite, Confirm, EvictOpen, EvictKey, EvictParent,
         Remove, Kill
<1>5. file' \in Files
  BY DEF KeyTypeOK, Files, NoFile, Partial, Sealed,
         StatusParent, StatusKey, Unseal, LookParent, MakeParent, LookKey, LoadKey,
         KeepKey, SealOpen, SealWrite, Confirm, EvictOpen, EvictKey, EvictParent,
         Remove, Kill
<1>6. known' \subseteq Keys /\ erased' \subseteq Keys
  BY DEF KeyTypeOK, Files,
         StatusParent, StatusKey, Unseal, LookParent, MakeParent, LookKey, LoadKey,
         KeepKey, SealOpen, SealWrite, Confirm, EvictOpen, EvictKey, EvictParent,
         Remove, Kill
<1> QED
  BY <1>1, <1>2, <1>3, <1>4, <1>5, <1>6 DEF KeyTypeOK

(* A command begins.                                                        *)
LEMMA TypeBegin ==
  ASSUME KeyTypeOK, NEW p \in Procs, CallInit(p) \/ CallImport(p) \/ CallClear(p)
  PROVE  KeyTypeOK'
<1>1. Seen \in Starts
  BY DEF Seen, Starts, KeyTypeOK
<1>2. PICK op \in Commands, k \in Keys \cup {NoKey} : Begin(p, op, k)
  BY DEF CallInit, CallImport, CallClear, Commands, KeyTypeOK, Keys, NoKey
<1>3. job' \in [Procs -> Jobs] /\ start' \in [Procs -> Starts]
  <2>1. [op |-> op, key |-> k, sealed |-> file.state # "none"] \in Jobs
    BY DEF Jobs
  <2> QED
    BY <1>1, <1>2, <2>1 DEF KeyTypeOK, Begin
<1>4. drawn' \in 0..MaxKeys
  BY DEF CallInit, CallImport, CallClear, KeyTypeOK
<1>5. at' \in [Procs -> Labels] /\ res' \in [Procs -> Results]
  BY DEF CallInit, CallImport, CallClear, KeyTypeOK, Goto, Return, Labels, Results
<1> QED
  BY <1>2, <1>3, <1>4, <1>5 DEF KeyTypeOK, Begin

(* Every variable of the master key keeps its type.                         *)
THEOREM KeysTyped == Spec => []KeyTypeOK
<1>1. IInv /\ KeyTypeOK /\ [Next]_vars => KeyTypeOK'
  <2> SUFFICES ASSUME IInv, KeyTypeOK, [Next]_vars PROVE KeyTypeOK'
    OBVIOUS
  <2>1. CASE UNCHANGED vars
    BY <2>1 DEF vars, KeyTypeOK
  <2>2. \A p \in Procs :
          /\ Key(p) \in Keys \cup {NoKey}
          /\ Op(p) = "init" /\ at[p] # "idle" => Key(p) \in Keys
    BY DEF IInv, KeysDrawn, OwnKeys, Key, Jobs
  <2>3. ASSUME NEW p \in Procs, CallInit(p) \/ CallImport(p) \/ CallClear(p)
        PROVE  KeyTypeOK'
    BY <2>3, TypeBegin
  <2>4. ASSUME NEW p \in Procs,
               \/ StatusParent(p) \/ StatusKey(p) \/ Unseal(p)
               \/ LookParent(p) \/ MakeParent(p) \/ LookKey(p) \/ LoadKey(p) \/ KeepKey(p)
               \/ SealOpen(p) \/ SealWrite(p) \/ Confirm(p)
               \/ EvictOpen(p) \/ EvictKey(p) \/ EvictParent(p) \/ Remove(p) \/ Kill(p)
        PROVE  KeyTypeOK'
    BY <2>2, <2>4, TypeStep
  <2> QED
    BY <2>1, <2>3, <2>4 DEF Next
<1> QED BY InitHolds, StepKeeps, TypeInit, <1>1, PTL DEF Spec

-----------------------------------------------------------------------------
(***************************************************************************)
(* One process at a time, whatever fails or is killed.  Nothing in the code *)
(* keeps two processes from clearing and sealing at once, and what follows  *)
(* does not hold for two.                                                   *)
(***************************************************************************)
Solo == \E p : Procs = {p}

Provisioning == {"look_parent", "make_parent", "look_key", "load_key", "keep_key"}
Sealing      == {"seal_open", "seal_write"}
Evicting     == {"evict_open", "evict_key"}
Inits(p)     == Op(p) = "init" /\ at[p] # "idle"

(* Until it shows the phrase nobody knows init's key, and from when it has  *)
(* made it persistent the rollback finds no other key in the TPM.           *)
KeyUnshown(p) ==
  /\ NoKey \notin known
  /\ Inits(p) => Key(p) \notin known
  /\ Inits(p) /\ at[p] \in Sealing \cup Evicting => hmac = Key(p)
  /\ at[p] \in Evicting => Op(p) \in {"init", "clear_tpm"}

(* Initially no key was shown.                                              *)
LEMMA UnshownInit ==
  ASSUME NEW one, Procs = {one}
  PROVE  Init => KeyUnshown(one)
BY DEF Init, KeyUnshown, Inits, Evicting

(* A step that shows no key and does not get past the persistent key.       *)
LEMMA UnshownAside ==
  ASSUME NEW one \in Procs, NEW label, at \in [Procs -> Labels], KeyUnshown(one),
         at[one] # "idle", at' = [at EXCEPT ![one] = label],
         UNCHANGED <<hmac, known, job>>,
         label \in Sealing \cup Evicting => at[one] \in Sealing \cup Evicting,
         label \in Evicting => Op(one) \in {"init", "clear_tpm"}
  PROVE  KeyUnshown(one)'
<1>1. at'[one] = label
  OBVIOUS
<1> QED BY <1>1 DEF KeyUnshown, Inits, Op, Key, Evicting, Sealing

(* Every step keeps this.                                                   *)
LEMMA UnshownNext ==
  ASSUME NEW one, Procs = {one}
  PROVE  IInv /\ KeyUnshown(one) /\ [Next]_vars => KeyUnshown(one)'
<1> SUFFICES ASSUME IInv, KeyUnshown(one), [Next]_vars PROVE KeyUnshown(one)'
  OBVIOUS
<1> at \in [Procs -> Labels] /\ job \in [Procs -> Jobs] /\ one \in Procs
  BY DEF IInv, KeysDrawn
<1>0. drawn \in Nat /\ known \subseteq 1..drawn
  BY DEF IInv, KeysDrawn
<1>1. CASE UNCHANGED vars
  BY <1>1 DEF vars, KeyUnshown, Inits, Op, Key
<1>2. CASE CallInit(one)
  <2>1. drawn + 1 \notin known /\ UNCHANGED <<hmac, known>>
    BY <1>0, <1>2 DEF CallInit, Begin
  <2>2. /\ at'[one] \in {"idle", "look_parent"}
        /\ at'[one] # "idle" => job'[one].key = drawn + 1
    BY <1>2 DEF CallInit, Begin, Return, Goto
  <2> QED BY <2>1, <2>2 DEF KeyUnshown, Inits, Op, Key, Evicting, Sealing
<1>3. CASE CallImport(one) \/ CallClear(one)
  <2>1. /\ UNCHANGED <<hmac, known>>
        /\ at'[one] \in {"status_parent", "evict_open", "remove"}
        /\ job'[one].op # "init"
        /\ at'[one] = "evict_open" => job'[one].op = "clear_tpm"
    BY <1>3 DEF CallImport, CallClear, Begin, Goto
  <2> QED BY <2>1 DEF KeyUnshown, Inits, Op, Key, Evicting
<1>4. CASE StatusParent(one) \/ StatusKey(one) \/ Unseal(one) \/ LookParent(one)
           \/ MakeParent(one) \/ LookKey(one) \/ LoadKey(one)
  <2>1. PICK label \in {"idle", "status_key", "unseal", "look_parent", "make_parent",
                        "look_key", "load_key", "keep_key"} :
          at' = [at EXCEPT ![one] = label]
    BY <1>4 DEF StatusParent, StatusKey, Unseal, LookParent, MakeParent, LookKey,
                LoadKey, Goto, Return
  <2>2. at[one] # "idle" /\ UNCHANGED <<hmac, known, job>>
    BY <1>4 DEF StatusParent, StatusKey, Unseal, LookParent, MakeParent, LookKey,
                LoadKey, Store, Begun
  <2> QED BY <2>1, <2>2, UnshownAside DEF Sealing, Evicting
<1>5. CASE KeepKey(one)
  <2>1. UNCHANGED <<known, job>> /\ at[one] = "keep_key"
    BY <1>5 DEF KeepKey, Begun
  <2>2. \/ at'[one] = "idle" /\ hmac' = hmac
        \/ at'[one] = "seal_open" /\ Op(one) = "init" /\ hmac' = Key(one)
        \/ at'[one] = "confirm" /\ Op(one) # "init" /\ hmac' = Key(one)
    BY <1>5 DEF KeepKey, Goto, Return
  <2> QED BY <2>1, <2>2 DEF KeyUnshown, Inits, Op, Key, Evicting, Sealing
<1>6. CASE SealOpen(one) \/ SealWrite(one)
  <2>1. PICK label \in {"seal_write", "confirm", "evict_open"} :
          at' = [at EXCEPT ![one] = label]
    BY <1>6 DEF SealOpen, SealWrite, Goto
  <2>2. at[one] \in Sealing /\ UNCHANGED <<hmac, known, job>>
    BY <1>6 DEF SealOpen, SealWrite, Begun, Sealing
  <2>3. Op(one) = "init"
    BY <2>2 DEF IInv, FileKept, Sealing
  <2> QED BY <2>1, <2>2, <2>3, UnshownAside DEF Sealing
<1>7. CASE Confirm(one)
  <2>1. at'[one] = "idle" /\ UNCHANGED <<hmac, job>>
    BY <1>7 DEF Confirm, Return, Store, Begun
  <2>2. known' = known \/ (Op(one) = "init" /\ known' = known \cup {Key(one)})
    BY <1>7 DEF Confirm
  <2>3. Op(one) = "init" => Key(one) # NoKey
    BY <1>7 DEF Confirm, IInv, OwnKeys, Keys, NoKey
  <2> QED BY <2>1, <2>2, <2>3 DEF KeyUnshown, Inits, Op, Key, Evicting
<1>8. CASE EvictOpen(one)
  <2>1. PICK label \in {"idle", "evict_key"} : at' = [at EXCEPT ![one] = label]
    BY <1>8 DEF EvictOpen, Goto, Return
  <2>2. at[one] \in Evicting /\ UNCHANGED <<hmac, known, job>>
    BY <1>8 DEF EvictOpen, Store, Begun, Evicting
  <2> QED BY <2>1, <2>2, UnshownAside DEF KeyUnshown, Evicting
<1>9. CASE EvictKey(one)
  <2>1. at'[one] = "evict_parent" /\ at[one] # "idle" /\ UNCHANGED <<known, job>>
    BY <1>9 DEF EvictKey, Goto, Begun
  <2> QED BY <2>1 DEF KeyUnshown, Inits, Op, Key, Evicting, Sealing
<1>10. CASE EvictParent(one) \/ Remove(one) \/ Kill(one)
  <2>1. /\ at' = [at EXCEPT ![one] = "idle"] /\ at[one] # "idle"
        /\ UNCHANGED <<hmac, known, job>>
    BY <1>10 DEF EvictParent, Remove, Kill, Return, Store, Begun
  <2> QED BY <2>1, UnshownAside DEF Sealing, Evicting
<1> QED BY <1>1, <1>2, <1>3, <1>4, <1>5, <1>6, <1>7, <1>8, <1>9, <1>10 DEF Next

(* With one process at a time, no failure and no crash lets the rollback of *)
(* init take a key out of the TPM whose phrase was shown.                   *)
THEOREM RollbackSparesShownKeys == Solo => (Spec => ShownKeysStay)
<1> SUFFICES ASSUME NEW one, Procs = {one} PROVE Spec => ShownKeysStay
  BY DEF Solo
<1>1. Init => KeyUnshown(one)
  BY UnshownInit
<1>2. IInv /\ KeyUnshown(one) /\ [Next]_vars => KeyUnshown(one)'
  BY UnshownNext
<1>3. KeyUnshown(one) /\ [Next]_vars => [KeyCleared]_vars
  <2> SUFFICES ASSUME KeyUnshown(one), Next, hmac' # hmac, hmac \in known
               PROVE  Op(one) = "clear_tpm" /\ at[one] = "evict_key"
    BY DEF KeyCleared
  <2>1. KeepKey(one) \/ EvictKey(one)
    BY DEF Next, CallInit, CallImport, CallClear, Begin, StatusParent, StatusKey, Unseal,
           LookParent, MakeParent, LookKey, LoadKey, SealOpen, SealWrite, Confirm,
           EvictOpen, EvictParent, Remove, Kill, Store
  <2>2. ~KeepKey(one)
    BY DEF KeepKey, KeyUnshown
  <2>3. at[one] = "evict_key"
    BY <2>1, <2>2 DEF EvictKey
  <2> QED BY <2>3 DEF KeyUnshown, Inits, Evicting
<1> QED BY <1>1, <1>2, <1>3, InitHolds, StepKeeps, PTL DEF Spec, ShownKeysStay

-----------------------------------------------------------------------------
(* Since p's command found neither a key nor a file, nothing has failed.    *)
Lucky(p) == start[p].clear /\ faults = start[p].faults

(* What an init that was lucky so far relies on at each of its operations.  *)
FreshStart(p) ==
  /\ at[p] \in Provisioning \cup Sealing \cup {"confirm"}
  /\ at[p] \in Provisioning => hmac = NoKey
  /\ at[p] \in Provisioning \cup {"seal_open"} => file = NoFile
  /\ at[p] = "make_parent" => ~parent
  /\ at[p] \in {"look_key", "load_key"} => parent

CleanStart(p) ==
  /\ start[p].faults <= faults
  /\ Inits(p) /\ Lucky(p) => FreshStart(p)
  /\ Ended(p, "init", "error") => ~Lucky(p)

(* Initially no command has failed.                                         *)
LEMMA CleanInit ==
  ASSUME NEW one, Procs = {one}
  PROVE  Init => CleanStart(one)
<1> SUFFICES ASSUME Init PROVE CleanStart(one)
  OBVIOUS
<1>1. at[one] = "idle" /\ res[one] = "none" /\ start[one].faults = faults /\ faults = 0
  BY DEF Init, Seen
<1> QED BY <1>1 DEF CleanStart, Inits, Ended

(* An init that begins without a key and a file is not refused.             *)
LEMMA CleanCall ==
  ASSUME NEW one, Procs = {one}, KeyTypeOK, CleanStart(one),
         CallInit(one) \/ CallImport(one) \/ CallClear(one)
  PROVE  CleanStart(one)'
<1>1. /\ start' = [start EXCEPT ![one] = Seen]
      /\ UNCHANGED <<parent, hmac, file, faults>>
  BY DEF CallInit, CallImport, CallClear, Begin
<1>2. start'[one] = Seen
  BY <1>1 DEF KeyTypeOK
<1>3. start'[one].faults = faults' /\ faults' \in Nat
  BY <1>1, <1>2 DEF Seen, KeyTypeOK
<1>4. start'[one].clear <=> (hmac = NoKey /\ file = NoFile)
  <2>1. ASSUME NEW c, NEW f PROVE [clear |-> c, faults |-> f].clear = c
    OBVIOUS
  <2>2. Seen.clear = (hmac = NoKey /\ file = NoFile)
    BY <2>1, Zenon DEF Seen
  <2> QED BY <1>2, <2>2
<1>5. CASE CallInit(one)
  <2>1. \/ at'[one] = "idle" /\ file.state # "none"
        \/ at'[one] = "look_parent"
    BY <1>5 DEF CallInit, Return, Goto, KeyTypeOK
  <2>2. file.state # "none" => file # NoFile
    BY DEF NoFile
  <2> QED BY <1>1, <1>3, <1>4, <2>1, <2>2
          DEF CleanStart, Lucky, FreshStart, Inits, Ended, Provisioning, Sealing
<1>6. CASE CallImport(one) \/ CallClear(one)
  <2>1. job'[one].op # "init"
    BY <1>6 DEF CallImport, CallClear, Begin, KeyTypeOK
  <2> QED BY <1>3, <2>1 DEF CleanStart, Inits, Ended, Op
<1> QED BY <1>5, <1>6

(* A step of a lucky init finds what it relies on, and works or is killed.  *)
LEMMA CleanStep ==
  ASSUME NEW one, Procs = {one}, KeyTypeOK, IInv, CleanStart(one),
         \/ StatusParent(one) \/ StatusKey(one) \/ Unseal(one)
         \/ LookParent(one) \/ MakeParent(one) \/ LookKey(one) \/ LoadKey(one)
         \/ KeepKey(one) \/ SealOpen(one) \/ SealWrite(one) \/ Confirm(one)
         \/ EvictOpen(one) \/ EvictKey(one) \/ EvictParent(one) \/ Remove(one)
         \/ Kill(one)
  PROVE  CleanStart(one)'
<1> one \in Procs /\ at \in [Procs -> Labels] /\ res \in [Procs -> Results]
  BY DEF KeyTypeOK
<1>1. at[one] # "idle" /\ UNCHANGED <<job, start>>
  BY DEF StatusParent, StatusKey, Unseal, LookParent, MakeParent, LookKey, LoadKey,
         KeepKey, SealOpen, SealWrite, Confirm, EvictOpen, EvictKey, EvictParent,
         Remove, Kill, Begun
<1>2. UNCHANGED faults \/ (Fails /\ faults' = faults + 1)
  BY DEF StatusParent, StatusKey, Unseal, LookParent, MakeParent, LookKey, LoadKey,
         KeepKey, SealOpen, SealWrite, Confirm, EvictOpen, EvictKey, EvictParent,
         Remove, Kill, Works, Fails
<1>3. faults \in Nat /\ start[one].faults \in Nat
  BY DEF KeyTypeOK, Starts
<1>4. start'[one].faults <= faults'
  BY <1>1, <1>2, <1>3 DEF CleanStart
<1>5. Lucky(one)' => Lucky(one) /\ faults' = faults
  BY <1>1, <1>2, <1>3 DEF Lucky, CleanStart
<1>6. SUFFICES ASSUME Op(one) = "init", Lucky(one), FreshStart(one), Works
               PROVE  /\ at'[one] # "idle" => FreshStart(one)'
                      /\ at'[one] = "idle" => res'[one] # "error"
  BY <1>1, <1>4, <1>5 DEF CleanStart, Works, Inits, Ended, Op
<1>7. CASE StatusParent(one) \/ StatusKey(one) \/ Unseal(one) \/ Remove(one)
           \/ EvictOpen(one) \/ EvictKey(one) \/ EvictParent(one)
  BY <1>6, <1>7 DEF FreshStart, Provisioning, Sealing, StatusParent, StatusKey, Unseal,
                    Remove, EvictOpen, EvictKey, EvictParent
<1>8. CASE LookParent(one)
  BY <1>3, <1>6, <1>8 DEF FreshStart, Provisioning, Sealing, LookParent, Works, Fails,
                          Goto, Store
<1>9. CASE MakeParent(one)
  BY <1>3, <1>6, <1>9 DEF FreshStart, Provisioning, Sealing, MakeParent, Works, Fails, Goto
<1>10. CASE LookKey(one) \/ LoadKey(one)
  BY <1>3, <1>6, <1>10 DEF FreshStart, Provisioning, Sealing, LookKey, LoadKey, Works,
                           Fails, Goto, Store
<1>11. CASE KeepKey(one)
  BY <1>3, <1>6, <1>11 DEF FreshStart, Provisioning, Sealing, KeepKey, Works, Fails, Goto
<1>12. CASE SealOpen(one) \/ SealWrite(one)
  BY <1>3, <1>6, <1>12 DEF FreshStart, Provisioning, Sealing, SealOpen, SealWrite, Works,
                           Fails, Goto
<1>13. CASE Confirm(one)
  <2>1. at'[one] = "idle" /\ res'[one] \in {"ok", "unconfirmed"}
    BY <1>3, <1>6, <1>13 DEF Confirm, Works, Fails, Return
  <2> QED BY <2>1
<1>14. CASE Kill(one)
  <2>1. at'[one] = "idle" /\ res'[one] = "killed"
    BY <1>14 DEF Kill, Return
  <2> QED BY <2>1
<1> QED BY <1>7, <1>8, <1>9, <1>10, <1>11, <1>12, <1>13, <1>14

(* With one process at a time, whatever earlier commands that failed or     *)
(* were killed have left, an init that finds neither a key nor a file only  *)
(* fails if one of its own operations does.                                 *)
THEOREM ClearedStartsAgain == Solo => (Spec => []InitStartsAgain)
<1> SUFFICES ASSUME NEW one, Procs = {one} PROVE Spec => []InitStartsAgain
  BY DEF Solo
<1>1. Init => CleanStart(one)
  BY CleanInit
<1>2. IInv /\ KeyTypeOK /\ CleanStart(one) /\ [Next]_vars => CleanStart(one)'
  <2> SUFFICES ASSUME IInv, KeyTypeOK, CleanStart(one), [Next]_vars
               PROVE  CleanStart(one)'
    OBVIOUS
  <2>1. CASE UNCHANGED vars
    BY <2>1 DEF vars, CleanStart, Inits, Lucky, FreshStart, Ended, Op
  <2>2. CASE CallInit(one) \/ CallImport(one) \/ CallClear(one)
    BY <2>2, CleanCall
  <2>3. CASE \/ StatusParent(one) \/ StatusKey(one) \/ Unseal(one)
             \/ LookParent(one) \/ MakeParent(one) \/ LookKey(one) \/ LoadKey(one)
             \/ KeepKey(one) \/ SealOpen(one) \/ SealWrite(one) \/ Confirm(one)
             \/ EvictOpen(one) \/ EvictKey(one) \/ EvictParent(one) \/ Remove(one)
             \/ Kill(one)
    BY <2>3, CleanStep
  <2> QED BY <2>1, <2>2, <2>3 DEF Next
<1>3. CleanStart(one) /\ KeyTypeOK => InitStartsAgain
  BY DEF CleanStart, Lucky, InitStartsAgain, KeyTypeOK, Starts
<1> QED BY <1>1, <1>2, <1>3, InitHolds, StepKeeps, KeysTyped, PTL DEF Spec

-----------------------------------------------------------------------------
(* While one operation at most fails: init found no file and makes its own, *)
(* import brings back the key of the file, and only an init that is about   *)
(* to seal or to clear its own key leaves a key without a file.  It clears  *)
(* because of the one failure, so the eviction works.                       *)
Asking  == {"status_parent", "status_key", "unseal"}
HasFile == hmac # NoKey => hmac \in erased \/ file = Sealed(hmac)

Provided(p) ==
  /\ at[p] \in Asking => Op(p) = "import"
  /\ at[p] \in Provisioning => Op(p) \in {"init", "import"}
  /\ file.state = "none" => file = NoFile
  /\ Inits(p) /\ at[p] \in Provisioning \cup {"seal_open"} => file = NoFile
  /\ Op(p) = "import" /\ at[p] \in Provisioning => file = Sealed(Key(p))
  /\ Inits(p) /\ at[p] = "seal_write" => file = Partial(Key(p))
  /\ Inits(p) /\ at[p] \in Evicting => faults = 1
  /\ ~(Inits(p) /\ at[p] \in Sealing \cup Evicting) => HasFile

(* Initially there is neither a key nor a file.                             *)
LEMMA ProvidedInit ==
  ASSUME NEW one, Procs = {one}
  PROVE  Init => Provided(one)
BY DEF Init, Provided, Inits, Op, NoFile, HasFile, Asking, Provisioning

(* A command begins.                                                        *)
LEMMA ProvidedCall ==
  ASSUME NEW one, Procs = {one}, KeyTypeOK, Provided(one),
         CallInit(one) \/ CallImport(one) \/ CallClear(one)
  PROVE  Provided(one)'
<1>1. at[one] = "idle" /\ UNCHANGED <<hmac, file, erased>>
  BY DEF CallInit, CallImport, CallClear, Begin
<1>2. HasFile /\ (file.state = "none" => file = NoFile)
  BY <1>1 DEF Provided, Inits, Sealing, Evicting
<1>3. HasFile'
  BY <1>1, <1>2 DEF HasFile
<1>4. CASE CallInit(one)
  <2>1. at'[one] = "idle" \/ (at'[one] = "look_parent" /\ file.state = "none")
    BY <1>4 DEF CallInit, Return, Goto, KeyTypeOK
  <2>2. job'[one].op = "init"
    BY <1>4 DEF CallInit, Begin, KeyTypeOK
  <2> QED BY <1>1, <1>2, <1>3, <2>1, <2>2
          DEF Provided, Inits, Op, Asking, Provisioning, Sealing, Evicting
<1>5. CASE CallImport(one) \/ CallClear(one)
  <2>1. /\ job'[one].op # "init"
        /\ \/ at'[one] = "status_parent" /\ job'[one].op = "import"
           \/ at'[one] \in {"evict_open", "remove"}
    BY <1>5 DEF CallImport, CallClear, Begin, Goto, KeyTypeOK
  <2> QED BY <1>1, <1>2, <1>3, <2>1 DEF Provided, Inits, Op, Asking, Provisioning
<1> QED BY <1>4, <1>5

(* What leaves key and file alone and makes nothing of them either.         *)
LEMMA ProvidedAside ==
  ASSUME NEW one \in Procs, NEW label, KeyTypeOK, Provided(one),
         at[one] # "idle", at' = [at EXCEPT ![one] = label],
         UNCHANGED <<hmac, file, erased, job>>,
         ~(Inits(one) /\ at[one] \in Sealing \cup Evicting),
         label \notin Sealing \cup Evicting,
         label \in Asking => at[one] \in Asking,
         label \in Provisioning =>
           at[one] \in Provisioning \/ (Op(one) = "import" /\ file = Sealed(Key(one)))
  PROVE  Provided(one)'
<1>1. at'[one] = label
  BY DEF KeyTypeOK
<1>2. HasFile'
  BY DEF Provided, HasFile
<1> QED BY <1>1, <1>2 DEF Provided, Inits, Op, Key, Asking, Sealing, Evicting, Provisioning

(* A step of a command.                                                     *)
LEMMA ProvidedStep ==
  ASSUME NEW one, Procs = {one}, MaxFaults <= 1, IInv, KeyTypeOK,
         KeyUnshown(one), Provided(one),
         \/ StatusParent(one) \/ StatusKey(one) \/ Unseal(one)
         \/ LookParent(one) \/ MakeParent(one) \/ LookKey(one) \/ LoadKey(one)
         \/ KeepKey(one) \/ SealOpen(one) \/ SealWrite(one) \/ Confirm(one)
         \/ EvictOpen(one) \/ EvictKey(one) \/ EvictParent(one) \/ Remove(one)
  PROVE  Provided(one)'
<1> one \in Procs /\ at \in [Procs -> Labels] /\ faults \in 0..MaxFaults
  BY DEF KeyTypeOK
<1>0. Fails => faults = 0 /\ faults' = 1 /\ ~Works
  BY DEF Fails, Works
<1>1. CASE StatusParent(one) \/ StatusKey(one) \/ LookParent(one) \/ LookKey(one)
           \/ LoadKey(one) \/ MakeParent(one) \/ Confirm(one) \/ EvictParent(one)
  <2>1. PICK label \in {"idle", "status_key", "unseal", "make_parent", "look_key",
                        "load_key", "keep_key"} :
          /\ at' = [at EXCEPT ![one] = label]
          /\ label \in Provisioning => at[one] \in Provisioning
          /\ label \in Asking => at[one] \in Asking
    BY <1>1 DEF StatusParent, StatusKey, LookParent, LookKey, LoadKey, MakeParent,
                Confirm, EvictParent, Goto, Return, Asking, Provisioning
  <2>2. /\ at[one] \notin Sealing \cup Evicting \cup {"idle"}
        /\ UNCHANGED <<hmac, file, erased, job>>
    BY <1>1 DEF StatusParent, StatusKey, LookParent, LookKey, LoadKey, MakeParent,
                Confirm, EvictParent, Store, Begun, Sealing, Evicting
  <2> QED BY <2>1, <2>2, ProvidedAside DEF Sealing, Evicting
<1>2. CASE Unseal(one)
  <2>1. /\ at[one] = "unseal" /\ UNCHANGED <<hmac, file, erased, job>>
        /\ \/ at' = [at EXCEPT ![one] = "idle"]
           \/ at' = [at EXCEPT ![one] = "look_parent"] /\ file = Sealed(Key(one))
    BY <1>2 DEF Unseal, Store, Begun, Goto, Return
  <2>2. Op(one) = "import"
    BY <2>1 DEF Provided, Asking
  <2> QED BY <2>1, <2>2, ProvidedAside DEF Inits, Asking, Sealing, Evicting, Provisioning
<1>3. CASE KeepKey(one)
  <2>1. /\ at[one] = "keep_key" /\ UNCHANGED <<file, erased, job>>
        /\ Op(one) \in {"init", "import"}
    BY <1>3 DEF KeepKey, Begun, Provided, Provisioning
  <2>2. CASE at' = [at EXCEPT ![one] = "idle"] /\ UNCHANGED hmac
    BY <2>1, <2>2, ProvidedAside DEF Asking, Provisioning, Sealing, Evicting
  <2>3. CASE Op(one) = "init" /\ at'[one] = "seal_open"
    BY <2>1, <2>3 DEF Provided, Inits, Op, Key, Asking, Provisioning, Sealing, Evicting
  <2>4. CASE Op(one) = "import" /\ at'[one] = "confirm" /\ hmac' = Key(one)
    BY <2>1, <2>4 DEF Provided, HasFile, Inits, Op, Key, Asking, Provisioning, Sealing,
                      Evicting
  <2> QED BY <1>3, <2>1, <2>2, <2>3, <2>4 DEF KeepKey, Goto, Return
<1>4. CASE SealOpen(one) \/ SealWrite(one)
  <2>1. /\ Inits(one) /\ at[one] \in Sealing /\ hmac = Key(one)
        /\ UNCHANGED <<hmac, erased, job>>
    BY <1>4 DEF SealOpen, SealWrite, IInv, FileKept, KeyUnshown, Inits, Sealing, Begun
  <2>2. CASE Fails /\ Goto(one, "evict_open") /\ UNCHANGED file
    BY <1>0, <2>1, <2>2 DEF Provided, Inits, Op, Goto, Asking, Provisioning, Sealing,
                            Evicting
  <2>3. CASE SealOpen(one) /\ Works
    <3>1. at[one] = "seal_open" /\ file = NoFile
      BY <2>1, <2>3 DEF SealOpen, Provided
    <3>2. at'[one] = "seal_write" /\ file' = Partial(Key(one))
      BY <1>0, <2>3, <3>1 DEF SealOpen, Goto
    <3> QED BY <2>1, <3>2 DEF Provided, Inits, Op, Key, Asking, Provisioning, Sealing,
                              Evicting, Partial
  <2>4. CASE SealWrite(one) /\ Works
    <3>1. at[one] = "seal_write" /\ file = Partial(Key(one))
      BY <2>1, <2>4 DEF SealWrite, Provided
    <3>2. at'[one] = "confirm" /\ file' = Sealed(Key(one))
      BY <1>0, <2>4, <3>1 DEF SealWrite, Goto
    <3> QED BY <2>1, <3>2 DEF Provided, HasFile, Inits, Op, Key, Asking, Provisioning,
                              Sealing, Evicting, Sealed
  <2> QED BY <1>4, <2>2, <2>3, <2>4 DEF SealOpen, SealWrite
<1>5. CASE EvictOpen(one)
  <2>1. /\ at[one] = "evict_open" /\ UNCHANGED <<hmac, file, erased, job>>
        /\ Inits(one) => faults = 1
        /\ Op(one) \in {"init", "clear_tpm"}
    BY <1>5 DEF EvictOpen, Store, Begun, Provided, KeyUnshown, Evicting
  <2>2. \/ at'[one] = "evict_key" /\ UNCHANGED faults
        \/ at'[one] = "idle" /\ faults = 0
    BY <1>0, <1>5 DEF EvictOpen, Works, Goto, Return
  <2>3. HasFile \/ Inits(one)
    BY DEF Provided
  <2> QED BY <2>1, <2>2, <2>3 DEF Provided, HasFile, Inits, Op, Asking, Provisioning,
                                  Sealing, Evicting
<1>6. CASE EvictKey(one)
  <2>1. /\ at'[one] = "evict_parent" /\ UNCHANGED <<file, erased, job>>
        /\ at[one] = "evict_key"
        /\ hmac' = NoKey \/ (UNCHANGED hmac /\ faults = 0)
    BY <1>0, <1>6 DEF EvictKey, Goto, Begun
  <2>2. HasFile'
    BY <2>1 DEF Provided, HasFile, Evicting
  <2> QED BY <2>1, <2>2 DEF Provided, Asking, Provisioning, Sealing, Evicting
<1>7. CASE Remove(one)
  <2>1. /\ at[one] = "remove" /\ at'[one] = "idle" /\ UNCHANGED <<hmac, job>>
        /\ \/ UNCHANGED <<file, erased>>
           \/ file' = NoFile /\ erased' = erased \cup ({file.key} \ {NoKey})
    BY <1>7 DEF Remove, Return
  <2>2. HasFile
    BY <2>1 DEF Provided, Sealing, Evicting
  <2>3. HasFile'
    BY <2>1, <2>2 DEF HasFile, Sealed
  <2> QED BY <2>1, <2>3 DEF Provided, Inits, Asking, Provisioning, NoFile
<1> QED BY <1>1, <1>2, <1>3, <1>4, <1>5, <1>6, <1>7

(* With one process at a time and at most one failure, once no command runs *)
(* a key is in the TPM only if the file that restores it was written: the   *)
(* rollback of init makes up for that failure wherever it strikes, and      *)
(* import brings back no other key.                                         *)
THEOREM NoKeyWithoutFile ==
  Solo /\ MaxFaults <= 1 /\ MaxCrashes = 0 => (Spec => []KeyHasFile)
<1> SUFFICES ASSUME NEW one, Procs = {one}, MaxFaults <= 1, MaxCrashes = 0
             PROVE  Spec => []KeyHasFile
  BY DEF Solo
<1>1. Init => KeyUnshown(one) /\ Provided(one)
  BY UnshownInit, ProvidedInit
<1>2. IInv /\ KeyUnshown(one) /\ [Next]_vars => KeyUnshown(one)'
  BY UnshownNext
<1>3. IInv /\ KeyTypeOK /\ KeyUnshown(one) /\ Provided(one) /\ [Next]_vars
      => Provided(one)'
  <2> SUFFICES ASSUME IInv, KeyTypeOK, KeyUnshown(one), Provided(one), [Next]_vars
               PROVE  Provided(one)'
    OBVIOUS
  <2>1. CASE UNCHANGED vars
    BY <2>1 DEF vars, Provided, Inits, HasFile, Op, Key
  <2>2. CASE CallInit(one) \/ CallImport(one) \/ CallClear(one)
    BY <2>2, ProvidedCall
  <2>3. CASE \/ StatusParent(one) \/ StatusKey(one) \/ Unseal(one)
             \/ LookParent(one) \/ MakeParent(one) \/ LookKey(one) \/ LoadKey(one)
             \/ KeepKey(one) \/ SealOpen(one) \/ SealWrite(one) \/ Confirm(one)
             \/ EvictOpen(one) \/ EvictKey(one) \/ EvictParent(one) \/ Remove(one)
    BY <2>3, ProvidedStep
  <2>4. ~Kill(one)
    BY DEF Kill, KeyTypeOK
  <2> QED BY <2>1, <2>2, <2>3, <2>4 DEF Next
<1>4. Provided(one) => KeyHasFile
  BY DEF Provided, KeyHasFile, HasFile, Quiet, Inits
<1> QED BY <1>1, <1>2, <1>3, <1>4, InitHolds, StepKeeps, KeysTyped, PTL DEF Spec
=============================================================================
