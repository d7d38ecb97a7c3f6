# pinpam in TLA+

pinpam authenticates Linux users with a PIN that is kept in the TPM: each
user's PIN is the authorisation value of an NV index of type PinFail, so that
the TPM itself counts wrong guesses and stops comparing at a limit. This
directory models the code around that index, checks the models with TLC and
proves facts about them with TLAPS. Paths are relative to the repository.

## The system

| Part | Code | State | Operations | Hard behaviour |
|---|---|---|---|---|
| PIN store | `pinpam-core/src/pinmanager.rs`, `pindata.rs` | per uid a PinFail slot (unwritten, or PIN, pinCount, pinLimit) and a version tag, both in the TPM | `setup_pin`, `verify_pin` with the migration of legacy slots, `delete_pin_admin`, `delete_pin_with_auth`, owner reads | each operation is a series of TPM commands; other processes run between them; commands and reconnections fail; processes are killed; rollback; two-format storage |
| PIN type | `pin.rs`, `util.rs` | none | `Pin::new` (trim, validate), `normalize_legacy_pin`, `can_manage_pin`, `can_attempt_pin` | leading zeros: the old format cannot represent them |
| NV layout | `pinindex.rs`, `pinconstants.rs` | none | uid to slot index, uid to tag index | 32-bit arithmetic; the two ranges must not overlap |
| Attempt counters | `pindata.rs` | none | big-endian decoding, `AttemptInfo`, `locked` | sign and width (`c_int` and `u32`), limit 0 |
| Policy | `pinpolicy.rs`, `tcti.rs` | one cached policy per process | secure read of the file, parse, defaults, `validate` | open, check and read are three steps; fallback; a cache that outlives edits |
| Command line | `pinutil/src/main.rs` | none of its own | `setup`, `change`, `delete`, `test`, `status`, `master-key ...` | reads counters, prompts the user, then acts; `change` deletes before it sets up |
| PAM module | `pinpam-pam/src/lib.rs` | cached policy | `pam_sm_authenticate`: status, first-pass token, prompt, `pinutil test`, outcome | stale status, tokens of earlier modules, subprocess failures |
| Master key | `pinpam-core/src/master_key.rs` | RSA parent and HMAC key in the TPM, sealed seed on disk | `init`, `import_to_tpm`, `clear_from_tpm`, `clear_from_disk`, `derive_user_token` | three places written one after another, rollback, crashes |
| Master-key PAM module | `pinpam-master-key-pam/src/lib.rs` | cached policy | stamps AUTHTOK, always PAM_IGNORE | runs in a stack that others configure, beside master-key commands |
| TPM | not in the repository | NV indices, persistent keys | one command at a time, for all processes | counts and refuses guesses itself; vendors differ in the error for a locked index |

How they interact: the PAM module runs `pinutil status` and `pinutil test` as
subprocesses; `pinutil` creates a `PinManager` (a TPM connection) per command
and so do concurrent logins, so several processes run operations on the same
slot with no lock between them: the TPM serialises single commands only. The
policy decides limits and lengths for whoever loads it. The master-key module
runs `pinutil master-key get-user-token` after the PIN module in the same stack.

What makes each part correct:

* PIN store: a guess is compared at most `pinLimit` times in a row, whatever
  interleaves, fails or is killed; a PIN that was set up verifies until it is
  deleted; setup is complete or reports an error; deletion with authentication
  deletes what was authenticated; a migration loses nothing; every call returns.
* NV layout: no two users, and no slot and tag, share an index.
* Counters: what is reported as locked is what the TPM refuses, for every limit the
  policy admits that can be read back.
* Policy: a process is bound by one whole text that root's file held, or by the
  defaults; an unsafe or broken file has no say.
* Command line and PAM: no attempt is spent that the user did not make, the
  outcome matches the state of the slot, and no command strands a user.
* Master-key PAM module: it never decides a login, and the keyring gets the same
  token however the user logged in.
* Master key: a phrase that was shown restores its key, no key is in use that
  nothing can restore, and no step that fails leaves a state that clearing
  cannot repair.

## Modules

| Module | Contents |
|---|---|
| `Pins` | A PIN is the number of its leading zeros and the rest; `Normalize` is `normalize_legacy_pin`. |
| `TpmNv` | The effect of single TPM commands on a slot. External: modelled from how `define_pin_slot` configures the index and how the callers read the TPM's answers. |
| `PinManager` | The PIN store (EXTENDS `Pins`, `TpmNv`). |
| `PinVault` | The abstract specification of the store: entries (PIN, wrong guesses, limit), changed only by provisioning, removal and guesses. |
| `PinManagerProps` | Properties of the store and the refinement mapping to `PinVault`. |
| `Pinutil` | The commands setup, change, delete, test and status over the store (EXTENDS `PinManager`: a command runs PinManager's own steps). |
| `PinutilProps` | Properties of the commands. |
| `PamAuth` | `pam_sm_authenticate` of libpinpam, whose helpers run Pinutil's steps (EXTENDS `Pinutil`). |
| `Login` | The abstract specification of a login: PINs handed in, compared, charged, answered. |
| `PamAuthProps` | Properties of logins and the refinement mapping to `Login` (EXTENDS `PinutilProps`). |
| `Policy`, `PolicyProps` | How a process comes to its policy, and `Pin::new`; properties. |
| `PinIndex` | uid to slot index and tag index, and the indices defined. |
| `Attempts` | Counter and limit as words, as `c_int` and as `u32`; the two definitions of locked. |
| `MasterKey`, `MasterKeyProps` | init, import and the clear commands of the master key; properties. |
| `PamStack`, `PamStackProps` | The documented PAM stack with both modules and a keyring, beside the master-key commands (EXTENDS `MasterKey`); properties. |
| `PinManagerProofs`, `PinutilProofs`, `PamAuthProofs`, `PinIndexProofs`, `AttemptsProofs`, `PolicyProofs`, `MasterKeyProofs`, `PamStackProofs` | The theorems (`PamAuthProofs` EXTENDS `PinutilProofs`, which EXTENDS `PinManagerProofs`). |
| `MC...` | Constants for TLC. |

### PinManager

A process inside an operation is at the label of its next TPM command (or
reconnection); an action executes that command and everything the code does up to
the next one. `phase` stands for the call stack: `"legacy"` while an untagged
slot is being verified, `"migrate"` inside `migrate_legacy_pin_format`, `"undo"`
inside setup's rollback, otherwise `"main"`. `Works`/`Fails` are the two ways
any command can go; `Crash` kills a process between commands. `chosen` is a
history variable: the PIN last set up for a user, unless a deletion or the rollback of
that very setup has removed it (`EndsChoice`). A rollback that meets the slot of
another setup undefines it all the same, but `chosen` keeps that setup's PIN: nobody
asked for its removal, and the properties that speak of `chosen` see the loss.

| Code | Actions |
|---|---|
| `setup_pin` | `SetupOwner`, `SetupDefine`, `SetupWrite`, `SetupRestart`, tag actions, on failure `UndoRestart`, `Undefine`, `TagUndefine` |
| `write_pin_version_tag` | `TagWrite`, `TagDefine`, `TagRewrite` |
| `delete_pin_admin` | `Undefine`, `TagUndefine` |
| `verify_pin` | `VerifyTag`, `VerifyOpen`, `VerifyRead`, `VerifyOwner`; untagged: `VerifyRestart`, migration, `VerifyReopen` |
| `migrate_legacy_pin_format` | tag actions, or `Undefine` ... `MigrateRestart`, setup actions, `MigrateReopen` |
| `delete_pin_with_auth` | as `verify_pin`, then `Undefine`, `TagUndefine` |

Abstractions: a failing command has no effect (a command whose effect took
place while its answer was lost is the effect followed by a crash or by the
failure of the next command); an index that is defined but not written is
`"blank"`; sessions, attributes and policy digests are what they make the TPM
do; logging is left out. Reading a slot's counters (`is_locked_out`,
`get_attempt_count`, `get_pin_slot`) changes nothing and has no action of its own.

### Pinutil

Each process runs one command at a time. `stage` is where the command stands
outside the store; while it is inside, `at` moves as in `PinManager`
(`ManagerStep`), and `Back` is the return. What `Look` reads (the attempt
counters) decides early returns and the next prompt; the prompts (`EnterOld`,
`EnterNew`, `Confirm`) are steps of the user, so any other process may run
between the look and the call. `out` is the result as the caller sees it;
`"told"` is an Ok whose refusal is printed on a terminal only. `spent` counts
the wrong guesses a command has cost. Callers are told apart by real and
effective uid as `util.rs` does: root, the owner, somebody with effective uid 0
only (`"elevated"`), and anybody else.

| Code | Actions |
|---|---|
| `setup_pin` | `Start`, `Open`, `Look`, `EnterNew`, store, `Stored` |
| `change_pin` | `Start`, `Open`, `Look`, `EnterOld`, store, `Checked`, `Reopen`, `EnterNew`, store, `Removed`, store, `Stored`; root skips the middle |
| `delete_pin` | `Start`, `Open`, `Look`, `Confirm` or `EnterOld`, store, `Removed` |
| `test_pin` | `Start`, `Open`, `Look`, `EnterOld`, store, `Checked` |
| `show_status` | `Start`, `Open`, `Look` |

### PamAuth

A process that serves logins runs at most one helper at a time; the helper is a
command of `Pinutil` in machine mode, in the variables of its host, and its steps are
`Pinutil`'s own (`HelperStep`). `pam` is where the module stands, `report` what the
status helper printed, `hand` the PIN the test helper was given; `given` and
`charged` are history variables. Between any two steps other processes run
commands. A helper is killed on its own (`KillHelper`); what it had done to the
store stays done, and the module sees no output.

| Code | Actions |
|---|---|
| `pam_sm_authenticate`, `run_pinutil_status` | `Authenticate`, the status helper, `StatusDone` |
| `decide_first_pass` | `Decide`, part of `StatusDone` |
| phase 1 of `authenticate_user` | `Test`, the test helper, `FirstDone` |
| `prompt_for_pin` | `Prompt`, `Type` |
| `run_pinutil_test`, `finalize_outcome` | `Test`, the test helper (`Feed` is its `prompt_pin`), `TestDone` |

Both flags together behave as `use_first_pass`, no flag as `try_first_pass`
without a token, so that two modes are enough. A token that `Pin::new` rejects is
no token. The helper loads the policy for itself; a PIN that it rejects
although its host accepted it is a failure in `Feed`. The codes libpam itself may
return for a missing conversation or user are `CONV_ERR` and `USER_UNKNOWN`.
`acct_mgmt`, `open_session`, `close_session`, `setcred` and `chauthtok` return
constants.

### Policy

A text is a sequence of settings, an inode has an owner, permission bits, a type
and a text, and `path` is the inode the policy's name stands for. The
administrator renames a new file into place (`Replace`), saves in place (`Save`,
which may leave the file empty for a while), protects a file that was not secure
(`Protect`), removes it (`Unlink`), and installs and removes pinutils (`Upgrade`).

| Code | Actions |
|---|---|
| `read_policy_if_secure` | `Open`, `Stat`, `Read`, each of which may fail (`Trouble`) |
| `parse_config`, `load_from_path` | `Parse`, with `ParseConfig` as a recursive function, one turn per setting (`Turns`) |
| `cached`, `load_from_standard_locations` | `Adopt`; `Exit` ends the process |
| `Pin::new`, `validate` | `Enter` |

The metadata are those of the open file, so an inode that was swapped for another
one under the name is still the one that was checked. A file that others
could write, and that is then protected without a new text, counts as held by
root from then on: `held` records what the name stood for while it was secure.

### PamStack

The stack is a substack with libpinpam, `pam_unix` and `pam_deny`, then
libpinpam_master_key and a keyring (`src/README.md:323-359`). `Reaction` and
`Dispatch` are libpam's; they, `pam_unix`, `pam_deny` and the keyring are external.
libpinpam_master_key may have any of the four controls and stand before, in or
after the substack. What libpinpam answers is a choice here; what it may
answer is the matter of `PamAuth`. The token of a key is the key.

| Code | Actions |
|---|---|
| `pam_sm_authenticate` of libpinpam_master_key | `Skip` when there is no token, else `TokenMac` |
| `derive_user_token` | `TokenLook`, `TokenMac` |
| `init`, `import_to_tpm`, clear commands | `KeyStep` |

### PinIndex and Attempts

`PinIndex` keeps the set of defined indices with the uid and the purpose each was
defined for; definition fails where an index is taken, removal goes by the index
alone. Checked additions and the TPM handle range are guards. `Attempts` keeps the
two words the TPM has and reads them as the code does: `c_int` in `PinData`,
clamped to `u32` in `AttemptInfo`, with a wrapping subtraction for what is shown.

### MasterKey

The TPM holds an RSA parent and an HMAC key, the disk a sealed file; all three
are written by separate steps. A key stands for itself and for the recovery
phrase drawn with it. `known` is the set of keys whose phrase was shown,
`erased` those whose file was deleted, `start` what a command found; they are
history variables.

| Code | Actions |
|---|---|
| `init` | `CallInit`, provisioning, `SealOpen`, `SealWrite`, `Confirm`; if sealing fails `EvictOpen`, `EvictKey`, `EvictParent` |
| `provision_tpm_objects` | `LookParent`, `MakeParent`, `LookKey`, `LoadKey`, `KeepKey` |
| `import_to_tpm` | `CallImport`, `StatusParent`, `StatusKey`, `Unseal`, provisioning, `Confirm` |
| `clear_from_tpm` | `CallClear`, `EvictOpen`, `EvictKey`, `EvictParent` |
| `clear_from_disk` | `CallClear`, `Remove` |

Abstractions: sealing is perfect (only the phrase opens a complete file, and it
gives back the key that was sealed); creating, loading and persisting an object
are two commands (`LoadKey`, which needs the parent, and `KeepKey`, which needs
a free handle). Directory permissions are best effort in the code and left
out. `status` only reads; `derive_user_token` is in `PamStack`.

## Runs

| Run | Instance | Shows |
|---|---|---|
| `pm_faulty` | one process, one user, PINs with 0 or 1 leading zero over two endings and the PIN `0`, limits 1 and 2, 2 failures, 1 kill, slots of every origin, fairness | stored PINs are the users', Ok of setup is complete, deletion needs the PIN, the vault (`StoredIsChosen`, `SetupVerifiable`, `DeleteNeedsThePin`, `VaultSpec`) and `TypeOK`; until something fails an accepted PIN is accepted again, lock reports are true and migrations complete (`AcceptedStaysAccepted`, `LockReportTrue`, `MigrationCompletes`) |
| `pin_index` | the constants of the source, uids at both ends of the ranges | no index serves two purposes; every slot can be tagged |
| `attempts` | 5-bit words, every word as `max_attempts` | where what is reported is enforced, and where answers agree with reports |
| `pu_clean` | one process, every command by every caller, logins of both modes with every token, no legacy slots, no failures | a right PIN, typed or left by an earlier module, logs in (`RightPinLogsIn`) and is never called incorrect; `MAXTRIES` means locked and `AUTH_ERR` means not locked; change leaves a PIN |
| `pu_faulty` | one process, commands that change or test and logins, legacy slots too, three PINs of which two differ in a zero, 1 failure, 1 kill of a command or helper, fairness | commands and logins end or wait for their user; Ok means stored; only root and owners who know the PIN change it; the prompt counts right; logins keep to the abstract login (`LoginSpec`) and `PamTypeOK` |
| `pu_race` | two processes, one of which changes a PIN while the other changes it too or serves a login | a command costs at most one attempt, the right PIN none, no slot is left unwritten and one that is there verifies with its PIN (`RemainingVerifies`), and `LoginSpec` |
| `policy` | one process, two inodes, 3 edits, texts with repeated, unknown and bad settings | what is parsed was held by a secure file, what binds is all of it or the defaults, a PIN is made only of an input that they prescribe (`PinsAsPrescribed`), a load that nothing disturbs obeys the file |
| `stack` | one login at a time beside one process of master-key commands, three keys, 1 failure, 4 controls, 6 places | the module never decides a login, the keyring gets the same token either way; no key in use without its file, init can always start again, failed inits take no key away that was shown |
| `mk_race` | two processes, two keys, 1 failure, 1 kill | a phrase that was shown restores its key until the file is deleted |
| `pm_two_migrations`, `pu_two_changes`, `pu_wedged` | as small as the scenario allows | one counterexample each, see Findings |

Bounds. A slot's behaviour depends on equality of PINs, on equality up to
leading zeros, and on pinCount against pinLimit: two endings, zero or one
leading zero and limits 1 and 2 give every case of each (a right PIN, one that
is right only up to zeros, a wrong one; the last and an earlier attempt). Two
failures cover a failing command inside the handling of a failing command
(setup's tag and then its rollback); one kill followed by further calls covers
every residue an operation can leave. Two processes are the least that
interleave; what is proved holds for any number. Calls are not bounded. Three
keys let two generations be cleared and replaced while a phrase of the first is
still known; the limit on keys ends the drawing of new ones, nothing else. Words
of five bits have the same two halves as words of 32. Two inodes are one that is
open and one that takes its name; three edits are one before the load and two
between its steps (swap and rewrite, truncate and write, rewrite and protect),
and `MaxEdits` bounds nothing else. Policies bind one process at a time and
processes do not act on files, so one process is enough; what is proved holds
for any number, and for texts of any length.

What the runs leave out, and why: `pu_clean` and `pu_race` exclude legacy slots
because entering a legacy PIN with other leading zeros, or twice at once, does
lose it (Findings); `RemainingVerifies` speaks of the slots that are there, because two
changes at once may leave none (`pu_two_changes`), and `OkMeansStored` of one
command at a time for the same reason; `AcceptedStaysAccepted`, `LockReportTrue` and
`MigrationCompletes` speak of the time before the first failure, because a migration that
fails loses the PIN; `pu_faulty` excludes a second process because a login
between setup's write and its tag takes the slot for a legacy one; `stack`
allows one failure because a failing rollback after a failing file does leave a
key without one, and one process because a rollback evicts whatever key is there.
`RightPinLogsIn` and the properties about `MAXTRIES` and `AUTH_ERR` are those of one
login at a time: beside another one a report is old by the time it is used
(Findings). `SameTokenEitherWay` speaks of logins during which the key stays and its
token can be derived.

Fairness. In `FairSpec` a process inside an operation of the store takes its next
step; in `PamFairSpec` so do a command or helper outside the store that does not
wait for its user and the module whose helper has ended. Both are weak
fairness per process: the code waits for nothing but the TPM's answer and its
helper's end, has no loops and no locks, and the operating system schedules each
process. Nothing is assumed about users: no command or login has to be
started, and no prompt has to be answered. The step of a command is fair as a
whole, whether it works or fails, so no command has to succeed.

## Proofs

All theorems hold for every value of the constants that the named assumptions
admit (`PinsAssumption` and the like: the constants are of the right kind): any
number of users, PINs, keys, texts, failures and kills. Where a theorem has a
hypothesis, it is one of these.

* `Solo`: one process, whatever number of commands and logins it runs one after
  another. Nothing in the code keeps two processes off one slot, or two
  master-key commands off one TPM; two of them may complete each other's unwritten
  slot, delete what the other has set up, or act on reports that are old (Findings).
* `Calm`: no TPM command fails, no process is killed, and no limit is 0. These
  properties speak of what a call that was answered has achieved, and a failing
  migration or change does lose the PIN (Findings); a limit of 0 is a slot that
  refuses its own PIN.
* `Unambiguous(S)`: no two PINs of `S`, the PINs that are entered, differ in
  leading zeros only, or no slot is of the legacy format, which cannot tell such PINs apart. A
  user who enters a legacy PIN with other zeros fixes that form (Findings).
* `Plain(S)`: no PIN of `S` starts with a zero. Both formats store such a PIN alike, so
  that a migration only adds the tag.

| Theorem | Hypothesis | Property | Inductive invariant |
|---|---|---|---|
| `PinManagerProofs!TypeCorrect` | | `TypeOK` | itself |
| `ImplementsVault` | | `VaultSpec` | `TypeOK`, `PinsOnly` |
| `StoredAsChosen`, `SetupStoresThePin`, `DeletionIsAuthorised` | `Solo` | `StoredIsChosen`, `SetupVerifiable`, `DeleteNeedsThePin` | `OneStore` |
| `AcceptedAgain`, `LockedMeansLocked` | `Solo`, no limit is 0 | `AcceptedStaysAccepted`, `LockReportTrue` | `Calmly`, until something fails (`UnharmedCalmly`) |
| `ChosenVerifies`, `RightPinNeverCounts` | `Solo`, `Calm`, `Unambiguous` | `ProvisionedStaysVerifiable`, `RightPinCostsNothing` | `Calmly`, `Current`; `Faithful` follows |
| `PlainPinNeverCounts` | `Plain` | `RightPinCostsNothing` | `PlainStore` |
| `PlainPinVerifies` | `Plain`, no failure or kill | `RemainingVerifies` | `PlainStore`, `BlanksWritten` |
| `PinutilProofs!CommandsTyped`, `CommandsCostOneAttempt` | | `UtilTypeOK`, `AtMostOneAttempt` | `CommandInv` |
| `OkIsOk`, `PinsHaveManagers` | `Solo` | `OkMeansStored`, `OnlyManagersChangePins` | `CommandInv`, `Errand`, `OneStore` |
| `PamAuthProofs!LoginsTyped`, `HelpersCostOneAttempt` | | `PamTypeOK`, `AtMostOneAttempt` | `PamInv` |
| `ImplementsLogin` | | `LoginSpec` | `PamInv` |
| `OkIsOkBesideLogins`, `LoginsChangeNoPin` | `Solo` | `OkMeansStored`, `OnlyManagersChangePins` | `PamInv`, `Errand`, `OneStore` |
| `PromptIsRight` | `Solo` | `PromptCountsRight` | `Informed` with `PamInv` |
| `IncorrectIsWrong`, `RightPinIsLetIn`, `MaxTriesIsLocked`, `AuthErrIsRetryable` | `Solo`, `Calm` | `IncorrectMeansWrong`, `RightPinLogsIn`, `MaxTriesMeansLocked`, `AuthErrLeavesAttempts` | `CalmLogin` |
| `ChangedPinVerifies` | `Solo`, `Calm`, `Unambiguous`, no slot of a newer release | `ChangeLeavesAPin` | `CalmLogin`, `NoneNewer`, `Current` |
| `PlainLoginNeverCounts` | `Plain` | `RightPinCostsNothing` | `PlainLogins` |
| `PlainLoginsVerify` | `Plain`, no failure or kill | `RemainingVerifies` | `PlainLogins`, `BlanksWritten` |
| `PinIndexProofs!IndicesNeverAlias`, `SlotsAreTaggable` | | `NoAliasing`, `EverySlotCanBeTagged` | `Disjoint` (the two ranges do not meet) and `Placed` (what is defined is where its uid says) |
| `AttemptsProofs!ReportsAreEnforced`, `AnswersAgree` | | `ReportedIsEnforced`, `AnswersMatchReports` | `CountInLimit`; how words are read back in either half of their range |
| `PolicyProofs!PolicyIsWhole`, `PinsArePrescribed` | | `ReadWasHeld`, `PinsAsPrescribed` | `PolicyInv`; with it `BoundByRules`, that what binds is the defaults or the meaning of a held text |
| `ParsedAsMeant` | | `ParseConfig` is `Meaning`, or no policy | `Parsed`, over the turns |
| `PolicyTyped`, `InForceIsMeant` | | `PolicyTypeOK`, `InForceWasHeld` | `PolicyInv`, and the properties themselves |
| `LoadedAsWritten` | | `CalmLoadObeys` | `Undisturbed` |
| `MasterKeyProofs!ShownPhrasesRestore` | | `PhraseRestores` | `IInv` |
| `KeysTyped` | | `KeyTypeOK` | itself, with `IInv` |
| `RollbackSparesShownKeys` | `Solo` | `ShownKeysStay` | `KeyUnshown` |
| `ClearedStartsAgain` | `Solo` | `InitStartsAgain` | `CleanStart` |
| `NoKeyWithoutFile` | `Solo`, at most one failure, no kill | `KeyHasFile` | `KeyUnshown`, `Provided` |
| `PamStackProofs!DecisionStands`, `KeyringGetsTheToken` | | `VerdictIsTheDecision`, `SameTokenEitherWay` | `DecisionInv`, `TokenInv` |
| `StackTyped` | | `StackTypeOK` | `DecisionInv`, `KeysTyped` |
| `KeysBesideLogins` | those of the three | `ShownKeysStay`, `InitStartsAgain`, `KeyHasFile` of `StackSpec` | those of the three, by `StackKeepsKeys` |

### The store

`ImplementsVault` needs `PinsOnly`: whatever an unwritten index was
defined with is a PIN, and a process that runs `delete_pin_admin` on its own behalf
never reaches the other commands. The policy write completes whatever index
is there, possibly one another process defined, so the PIN that becomes an entry
is not the writer's own. Each command that touches a slot is then one step of
the vault: the policy write `Provision`, undefining `Remove`, the authorised
read `RightGuess` or `WrongGuess`; a call is `Ask`; everything else stutters.

`OneStore` is what one process relies on while anything may fail: past the
comparison the PIN of the call is the chosen one up to leading zeros
(`Vouched`), which is why a migration may store it; setup knows at each command
how far its PIN is (`SetUp`), on the rollback too; a call of `delete_pin_admin`
does nothing else (`OwnDelete`).

`Calmly` says for each command what the store looks like when it is given, and
that every slot no call is at is `Tidy`: absent with its tag, or written, with
a positive limit, in the form its tag promises. A call begins and ends in a tidy
store, so that calls can follow one another in any order. It is stated for a set
of PINs `S`, because the store's own runs enter `Entries` while logins also hand
in `Tokens`. `Faithful` is what follows for a guess: it is compared with the
chosen PIN in the form it was chosen in, either because `S` has one form of it
(`OneForm`) or because nothing was ever stored otherwise (`Current`).

`PlainStore` needs neither one process nor a working TPM. A slot holds the PIN
that was chosen for it (`PlainSlot`), and no migration goes beyond its tag
(`PlainCall`), as the stored form is the normal form. Without failures an index
that is defined but unwritten has a setup that is about to write it
(`BlanksWritten`), so that once all calls have ended every slot that remains verifies
with its PIN. That a slot remains is not among the conclusions: a rollback may delete
the one another setup has just been told is in place (`pu_two_changes`).

### Commands and logins

`Charge` says that a wrong guess has been charged at most once, and that the
command is past any further comparison when it was. `Errand` says what a command
has asked the store for, with which PIN, for whom, and that whoever got that far may.
`Flow` does the same for a login's helper: it tests the PIN it was handed, for the
user of the login. With them each step of a login is one of the abstract login's
(`Supply`, a comparison, an answer) or a stutter, whatever the other processes
do to the slot; that is `ImplementsLogin`.

`Informed` is what the module knows from its status helper while nothing else runs:
all of the counters, or all but the attempt that a wrong token cost. A failing or
killed helper leaves it informed of less, never wrong, since then it does not prompt.
`CalmLogin` adds what a helper's result says of the PIN it was given (`Tested`), what
an answer says of PIN and slot (`Reasons`), and `CalmTool`: which PINs are entered,
that only a slot that takes guesses is given one (`Screened`), and where a change has
left the slot (`Replacing`). The store's invariants are reused as they stand: seen
from the store, a step of a command or of a login is a call, a step of `PinManager`,
a kill or nothing (`Does`).

### Counters

Both theorems hold for every `max_attempts`, since the policy parser admits every u32;
what they say depends on whether the limit is `Readable`, positive and below half the
word. A readable limit is reported as it is enforced and answers agree. A limit of 0
refuses every PIN while status shows no lock. Limits from 2^31 up are read back
negative: status never shows a lock, though the TPM goes on to enforce the unsigned
value, and the right PIN is answered with LockedOut. The attempts
shown as remaining are right, without wrapping, up to half the word.

### Policy

`PolicyInv` says of every inode that can still be read, by its name or by a
process that has it open, that if it is secure then its text was held; and that an
inode that passed the check stays secure, because edits make files secure, never the
other way. Reading is then the last of three steps on one inode. `Undisturbed` adds
that a load during which nothing changed has the file that is there.

What `ParseConfig` makes of a text is a claim about every number of turns. The
library's induction rules take the claim as an operator, which the provers
cannot instantiate; `LeastNumber` does without: a set of numbers that is not empty has
a least one (from the well-foundedness of `<`), and the turns at which a claim fails
are such a set. `TurnsExist` and `TurnByTurn` give the recursive function its
defining equation in this way, and `Parsed` is the claim: after n turns the rules are
the meaning of the first n settings, or none if one of them was bad.

### Master key

`ShownPhrasesRestore` needs three facts beside the property. `KeysDrawn`: no
process has a key that was not drawn. `OwnKeys`: a running init has a key, and
no other init has the same, so that completing a file never completes another
one's. `FileKept`: an init about to write has its partial file, and one about
to show its phrase the complete file, unless the file was deleted; `create_new`
is what keeps this true when another init comes to the same path.

`KeyUnshown`: nobody knows the key of a running init, and from when it is persistent
the rollback finds no other. `CleanStart`: an init that found nothing and met no
failure has at each step what the step needs, a parent left behind included.
`Provided`: only an init about to seal, or about to evict its own key, leaves a key
without a file, and it evicts because of the one failure there may be, so that the
eviction works.

### The stack

`DecisionInv` follows the stack in two halves. In the substack nothing has counted
yet and no credential was right; behind it libpam's impression is positive if one
was and negative if `pam_deny` was reached. libpinpam_master_key is ignored in
both halves, and the keyring can neither lift a failure nor undo a success.
`Layout` and `Skipping` say where each entry stands and where a substack that is
cut short goes on, for every place of libpinpam_master_key. `TokenInv` adds that on a
login that nothing disturbs the key stays and its token waits before the keyring.
`StackKeepsKeys` is the refinement that carries the theorems about the master key
over: to it a login does nothing.

### Model-checked only

`MigrationCompletes`, `CommandsEnd` and `LoginsEnd` are liveness under fairness, which
TLAPS cannot reach; they stay with TLC. So do the three counterexample runs. Every safety
and action property of the passing runs is a theorem, and the instance of each run
satisfies the hypotheses of the theorems about its properties. Outside the
hypotheses stands what two processes do with PINs that start with a zero or with
legacy slots; there the code does not keep the properties (`pm_two_migrations`).
`ProvisionedStaysVerifiable` is proved under the hypotheses of `ChosenVerifies`; that run
shows what happens without them.

## Findings

Each is a run whose counterexample TLC prints.

* `pm_two_migrations`: two correct logins at once lose a legacy PIN without any
  failure. Each deletes the slot and sets it up again; the one whose tag write
  fails rolls back by deleting the slot of the other.
* `pu_two_changes`: of two overlapping changes by root, the first has written its slot
  and found no tag when the second deletes that slot, sets up and tags its own PIN
  and returns Ok. The first is then refused the definition of its tag, and its rollback
  deletes the slot of the second: both tags and both PINs are gone, nothing failed, and
  the change that returned Ok is not told.
* `pu_wedged`: a setup killed between defining and writing the index leaves one
  that setup takes for no PIN (and then cannot define), and that delete and change
  take for no PIN too. No command of pinutil removes it.

Further behaviour met while modelling, each the reason for a restriction of a run
above or of a property:

* `delete` by the owner in machine mode prints Ok for a wrong PIN and for a locked
  slot: the refusal is a message at a terminal only.
* A login between setup's write and its tag takes the new slot for a legacy one and tags
  it; setup then rolls back, so that the PIN which was just accepted is gone. Setup
  does return an error.
* The migration deletes the legacy slot before it reconnects and sets it up again. One
  failing reconnection in between loses the PIN, while `verify_pin` logs a warning
  and returns Success.
* A legacy PIN `0x` entered once as `x` is tagged as it stands; `0x`, which its user
  chose, no longer verifies.
* With `pin_lockout_max_attempts` from 2^31 up the right PIN is answered with LockedOut
  before any attempt has failed (`src/README.md:122` calls it the number of allowed
  failed attempts). A limit of 0 is a slot that refuses its own PIN and that status
  shows as open.
* `setup_pin` does not overwrite an existing PIN, though its doc comment says so.
* `delete_pin_admin` removes the tag after the slot: a setup in between loses its
  tag. `delete_pin_with_auth` may delete a PIN it did not verify when another process
  replaced it.
* `verify_pin` answers a guess at a locked slot with Invalid and the lock flag,
  never with LockedOut.
* A password of an earlier module that the policy accepts as a PIN is tried and costs
  an attempt, be it of digits or not: `Pin::new` looks at the length only, although
  `src/README.md:132-134` says that it is skipped. After a token was rejected the
  user is asked once, though 135-137 speaks of prompting until the limit.
* `authenticate_user` counts on from the status it read: beside another login its
  MAXTRIES may be for a slot that a right PIN has cleared meanwhile, and a prompt may
  promise attempts that are gone. The TPM decides either way.
* `pinutil test` reports a missing PIN as `NoPinSet`, while the module looks for
  `NotProvisioned`: the answer, AUTHINFO_UNAVAIL, is the same.
* A host that is killed leaves its helper to finish like any other `pinutil test`.
* A PIN whose length a new policy excludes can no longer be entered, not even to
  change it; only root can delete or replace it (`src/README.md:43` speaks of
  the lockout settings, which existing slots do keep).
* A bad TCTI spec is refused "rather than silently falling back"
  (`pinpolicy.rs:171-173`): the setting is, and with it the whole policy, which falls
  back to the defaults, limits and device included. So does a `pinutil_path` that is
  not there at that moment, for the rest of the process's life; and so does a file
  that is saved in place and read while it is empty.
* libpam goes on after a substack that failed, so the token is derived and the
  keyring sees it on a failed login as well, although
  `pinpam-master-key-pam/src/lib.rs:10-12` says that the module is only reached on a
  successful one. The verdict is not affected.
* A login while `init` is between persisting a key and its end may give the keyring the
  token of a key that the rollback then removes.
* A failing status at the end of `init` means that key and file exist and the
  phrase was shown to nobody. `clear_from_tpm` reports success when evictions
  failed. A failed import leaves the RSA parent, and then refuses to run again
  until the TPM is cleared.

## Not modelled

* Confirmations of the master-key commands: they come before anything is read, so a
  command that is cancelled is one that is not called.
* Sandbox, logging, messages, packaging: no state of their own.
* The characters of a PIN: a PIN is its leading zeros and an ending in `Pins`, and its
  length in `Policy`. Nothing in the code tells PINs apart by anything else.
* Whether the helper found at `pinutil_path` is pinpam's: the model takes it to be.
* Permission bits above 0777, which `metadata_is_secure` does not look at.

## Plan

Done: the PIN store with its vault, the NV layout, the counters, the commands of
pinutil, logins with their abstract specification, the policy, the master key, the
documented stack, and a theorem for every safety and action property of the passing runs.

What is left, in this order: what holds of two processes without `Plain` (a store of
this release only, `OfThisRelease`, where no migration ever sets up a slot anew);
`ChangeLeavesAPin` and `IncorrectMeansWrong` with one failure, as far as the code keeps
them; a policy that changes between a host and its helper composed with `PamAuth`.
