# Cloak in TLA+

Cloak locks files and folders on Windows: a Flutter app (`lib/`) drives vaults,
keys and operations; a Rust helper (`native/drive`) opens vault folders as
drives through Dokany on top of a vault library (`native/vault2`); a Rust shell
plug-in (`native/shell`) and a C++ runner (`windows/runner`) connect it to
Explorer. This folder holds its formal models, the TLC instances that check
them and the proofs TLAPS checks. All paths below are relative to `src/`.

| file | what it is |
|---|---|
| `VaultJournal.tla` | locking, unlocking, their journal and startup recovery |
| `ItemLife.tla` | what locking and unlocking promise, without any file |
| `VaultLife.tla` | the refinement mapping from the first to the second |
| `MCVaultJournal.tla`, `crash_users`, `any_failure`, `everything`, `drive` `.cfg` | the instances of `VaultJournal` for TLC |
| `ContentFile.tla` | the encrypted blocks of one file of a drive vault |
| `ByteFile.tla` | what a file promises: a row of bytes |
| `VaultTree.tla` | folders, stored names and caches of a drive vault |
| `DriveTree.tla` | what a drive shows: a tree of names |
| `Drives.tla` | the drive helper: requests, mount table, threads; it composes the next two |
| `DriveHandler.tla` | what programs do with files on a drive |
| `TreeCopy.tla` | copying a folder into a vault or back, and comparing |
| `MCContentFile.tla`, `MCVaultTree.tla`, `MCDrives.tla`, `content*.cfg`, `tree*.cfg`, `drives.cfg` | their instances for TLC |
| `Keyring.tla` | which keys open which vault: session, password change, recovery key, keys made ahead |
| `MCKeyring.tla`, `keys*.cfg` | its instances for TLC |
| `VaultJournalProofs.tla` | `VaultJournal`: types, and no decrypted files left behind |
| `VaultLossProofs.tla` | `VaultJournal`: no data is lost, originals and vaults are deleted last |
| `VaultEndsProofs.tla` | `VaultJournal`: nothing is left behind, a failed lock does no harm, every step is one of `ItemLife` |
| `KeyringProofs.tla` | `Keyring`: types, and every safety property of its runs |
| `ContentFileProofs.tla` | `ContentFile`: types, memory agrees with the disk, the blocks behave as plain bytes |
| `DrivesProofs.tla` | `Drives` and `DriveHandler`: the table, the events, the count, what the names of handles lead to |
| `TreeCopyProofs.tla` | `TreeCopy`: a copy that ends well is exact |
| `VaultTreeProofs.tla` | `VaultTree`: one object for each open file, true caches and paths, and that it implements `DriveTree` |
| `PROJECT.json` | index: components, runs, mutants, source lines, findings, hazards, theorems |

Run `tlc -config crash_users.cfg MCVaultJournal` and `tlapm VaultLossProofs.tla`.

## 1. The system

**Lock, unlock, startup recovery** (`lib/engine/operations`). State: the item's
folder on disk; one journal file for each operation under way (kind, phase,
paths). Operations: lock (rename the item away, write a `.flk-partial`, verify,
rename it into place, delete the original), unlock (restore into a work folder,
rename it into place, delete the vault), recovery of every journal entry at
start. Hard: a crash, a failure or an act of the user between any two steps;
recovery that itself fails half way. Correct when: no data is lost, originals
and vaults are deleted last, nothing decrypted is left behind, every
interrupted operation ends.

**Drive lock and export** (`lib/engine/drive/drive_operations.dart`,
`native/drive/src/jobs.rs`). The same with a vault *folder* (`.flkd`), written
and read by the helper process. Extra hazards: deleting a folder is not atomic,
and the helper can die.

**Vault files** (`lib/engine/vault`, `lib/engine/format`). The archive of a
`.flk`: records, end marker, streaming cipher. Correct when what is restored is
what was locked, and a truncated or changed archive is refused.

**Header and key slots** (`vault_header.dart`, `rekey_operation.dart`,
`reseal_operation.dart`). Two slot areas with generations and checksums; a
rewrite goes to the older one. Hard: torn writes, two isolates rewriting one
header. Correct when the newest valid area is read and no slot is lost.

**Engine runner** (`engine_runner.dart`). Runs an operation in an isolate;
progress, cancellation, an isolate that dies.

**Items list** (`items_controller.dart`). `items.json`: each item's status and
paths. At start it loads the list, runs recovery and applies the outcomes by
tag. Hard: recovery deletes journal entries before the list is saved. Correct
when the status agrees with the disk.

**Protection controller** (`protection_controller.dart`). One operation at a
time for the user, Explorer and the watchers: lock, unlock, open as a drive,
take off the list. Hard: state read before an `await` and used after it; the
locking of the session meanwhile.

**Relock keys** (`relock_keys.dart`). Keys made ahead so that an item can be
locked without a password. Correct when one set of keys makes one vault only.

**Watchers** (`unlocked_items_watcher.dart`, `folder_window_watcher.dart`).
Timers and window events that lock items again.

**Session and recovery key** (`features/auth`). The keystore, the keys in
memory, password change (saves first, then rekeys the vaults), recovery key
activation and its retry. Hard: two read-modify-writes of the keystore around
`await`s; a stop half way through the vaults.

**Stored files** (`json_file_store.dart`). Queue of writes; temporary file,
backup, rename; the backup is read when the file cannot be parsed.

**Drive service and helper** (`lib/engine/drive`, `native/drive`). Requests,
answers and events over a pipe; the helper runs each request on a thread and
keeps a table of mounts, with a thread that serves each drive; a 20 s mount
timeout and a 15 s unmount timeout. Hard: a drive that ends while it is being
mounted or unmounted, timeouts that race what they wait for, stdin that closes
in the middle. Correct when every drive that is served is in the table, the app
is told of the end of every drive it was told is mounted, and every request is
answered.

**Files on a drive** (`native/drive/src/drives/handler.rs`). Dokany's callbacks:
opening with a disposition, marks for deletion, the count of open files. Hard:
two callbacks release a handle, a mark goes by name. Correct when the count is
right and a call by name never meets what took the place of another thing.

**Drive vaults: the tree** (`native/vault2/src/vault.rs`). Each folder has a
random IV for which its names are encrypted; folders, indexes of names without
their case and open files are cached by stored path. Hard: renames and removals
in several disk steps against caches other threads fill. Correct when what the
drive shows is a tree of names to which each call does what it says.

**Drive vaults: contents** (`native/vault2/src/content.rs`). A header with a
random id, then sealed blocks. Hard: block arithmetic at the ends, stray bytes,
a stop between two disk steps. Correct when it behaves as a row of bytes.

**Drive vaults: copying** (`native/vault2/src/tree.rs`, `native/drive/src/jobs.rs`).
Scan, copy, compare, with the user at work in the folder and a cancel flag.
Correct when a job that ends well leaves two equal trees.

**App lifetime** (`single_instance.dart`, `app_window.dart`,
`launch_intents.dart`). One instance, an inbox for requests of later ones,
closing while an operation runs.

**Settings, cryptography, access rules, Explorer plug-in, runner.** Independent
values, library primitives, and calls of Windows.

How they interact: requests from the window, Explorer's menu and the watchers
all enter the protection controller, which is busy with at most one operation;
it runs locks and unlocks in an isolate and drive operations through the
helper; both write the same journal folder; the result changes the items list.
At the next start the items list runs recovery over the journal before any
request is taken. The session hands keys to the controller and loses them when
it locks.

## 2. What is modelled

### `VaultJournal`

The disk `fs` maps paths to contents. A path is an item or vault name, or one of
the three temporary names that carry an operation's id (`.flk-locking`,
`.flk-partial`, `.flk-restoring`), which makes them unique as the random part
does in the code. A content says its form (file, folder, `.flk`, `.flkd`), whose
data it holds and whether all of it is there. `journal` maps operation ids to
entries; ids grow like `startedAt`, the order in which recovery goes through
them. `pc` is the step the app is at, with the variables it has in memory.

| actions | code |
|---|---|
| `StartLock` ... `ForgetLock` | `LockOperation.run`, `DriveOperations.lock` |
| `LockFails`, `BackPartial`, `BackItem`, `BackForget` | `_rollback`, `_rollbackLock` |
| `StartUnlock` ... `ForgetUnlock`, `UnlockFails`, `AbortUnlock`, `AbortForget` | `UnlockOperation.run`, `DriveOperations.export` |
| `Start`, `Pick`, `R...`, `Skip`, `Recovered` | `ItemsController.build`, `JournalRecovery` |
| `DeleteChild` (`Tear`) , `Gone`, `Stuck` | `FsUtils.deleteTree` in the middle, at its end, with failures |
| `Crash`, `Quit` | the app stops in the middle of something, or between operations |
| `Others` | the user and other programs: new items and vaults, renames, files added |

One action is one step between two points at which a crash makes a difference.
Which failures exist is a constant: `crash`, `rename`, `write` (any error or
cancel while writing, verifying or restoring), `save` and `remove` (of a journal
entry), `delete`. A failing step takes the error path of the code.

`Style` chooses `.flk` files or `.flkd` folders. The differences in the code are
differences in the model: an export picks its target name at the start and an
unlock at the end; an export deletes the vault before its work folder is
finished with and gives the entry up in its error path whatever is left; a
folder can be deleted half.

Left out of this model: passwords and keys (every operation has the right one),
free-space checks and progress, file attributes, the retry inside `rename` (one
step here), the flushing of the disk (a step that has happened survives a
crash), the two halves of a journal save (its temporary file is invisible to
`pending`), and names other than a name and its free variants.

`ItemLife` is the promise: each item's data is *open*, *moving* or *sealed* once
it exists, and a lock that took it away ends. `VaultLife` maps a disk to it by
looking for whole copies.

### `Keyring`

Keys are numbers: the generation of the master password or recovery key they
come from; an item's own password is always 1. `vaults` and `relock` say which
generation opens the slots of each vault on the disk and of the keys made ahead
for the next one; `stored` and `keystore` are the keystore on the disk and in
memory, `masterKey` and `cache` the session's keys.

| variable or actions | code |
|---|---|
| `change`: `ChangePassword`, `ResetWithRecoveryKey`, `Derived`, `SaveChange`, `Rekey...`, `FinishChange` | `SessionController._replacePassword`, `AuthService.changePassword`, `RekeyOperation` |
| `activate`: `Activate`, `SaveRecoveryKey` | `RecoveryKeyService.activate` |
| `reseal`: `WindowOpens`, `Reseal...`, `SavePending` | `HomeShell`, `RecoveryKeyService.updateVaults`, `ResealOperation` |
| `op`: `StartLock` ... `LockFails`, `StartUnlock` ... `UnlockFails`, `RememberMasterKey` | `ProtectionController._encrypt`, `_decrypt`, `_slotsFor`, `_prepareRelock`; `LockAgainPrompt` |
| `saving` | the queue of `JsonFileStore` |
| `Unlock`, `Lock`, `Crash` | `SessionController.unlock`, `lock`; a stop and a new start |

The app is one thread: a flow runs from one `await` to the next without others
getting a turn, so one action is what happens between two `await`s that matter.
A flow's record holds what the code has in local variables across an `await`:
that is where it can be stale. Slots of a vault are read and rewritten in an
isolate, in two actions. Saves of the keystore are queued with the document
they were asked to save; that a save is written and that its flow goes on are
one action, for the next save in the queue cannot overtake that continuation.

Who can meet whom follows from the window. The progress overlay keeps the user
from starting anything while an item is locked or unlocked, but the timer,
Explorer and the tray can lock and unlock items, and lock the app, behind a
dialog. A change, a reset and an activation each have a modal dialog; an
activation's stays open until its update is done, while the update that starts
with the window (`by = "window"`) runs behind everything. The constant
`Overlap` says which of these meetings an instance has; all of them are
possible in the program.

Left out: drives (their vaults stay while open), setup, wrong passwords, taking
an item off the list and moving it to another password, keys made ahead that
cannot be saved, and unlocking a vault at the very moment its slots are
rewritten (`NotRewritten`: two short accesses to one file, a collision of which
is an error of the second). An interrupted lock or unlock is completed or
rolled back in the step of the crash (`Interrupted`): how is `VaultJournal`'s
subject.

### `ContentFile`, an implementation of `ByteFile`

`disk` is one stored file: its length in bytes, the id of its header and a block
for each index; a block is *sealed* (with an id and its plaintext), *torn*, or a
*hole* of zeros. `mem` is the `State` of the open file. A call is a chain of
operators, each one disk step of the code with the arithmetic around it, that
take and return a record of disk, memory and outcome: `EnsureHeader`, `Grow`
(which pads the last block or drops stray bytes, then extends), `Patched` and
`WriteBlocks`, `Shrink`. Lengths are computed as in the code (`PlainLen`,
`StoredLen`); the sizes of header, nonce and tag are constants.

`cut` says at which disk step, and after how many bytes of it, a call stops. Then
either the write failed and the call answers so (`"error"` in `Faults`), or the
process ended and the file is opened again from what is stored (`"crash"`).
`WriteAt`, `AppendData`, `WriteWithin`, `SetLen`, `Reopen` and `SetReadOnly` are
the calls. A call holds the file's lock from begin to end, so it is one action.

`ByteFile` is a row of bytes with a length: a write, a new length whose new
bytes are zeros, and a failed call, which harms at most the blocks from where it
began. `ByteSpec` maps the blocks to bytes by reading them (`Contents`).

Left out: the cipher (a sealed block opens only with its id and length and in
its place; its place is where it lies, for no step of the code moves blocks),
attributes and times, and the size of a read.

### `VaultTree`, an implementation of `DriveTree`

`disk` says of each thing in which folder it is and under which stored name. A
stored name is the pair of the folder's IV and the plain name, which is what
its encryption amounts to: it can be read by who has the IV, and not after a
move to another folder. `sidecars` are the files that carry long names. `dirs`,
`files` and `opened` are the caches of folders and open files; `opened` holds
the `ContentFile` objects themselves, with the path each believes in.

A change (`CreateFile`, `CreateDir`, `Remove`, `Rename`) holds the lock
`changes`. It looks everything up at once, with what that adds to the caches,
and becomes a `job`, the list of its remaining steps on disk and caches, which
`Continue` does one at a time. In between, other threads list and look things
up, in the steps between which the code lets go of its locks: a thread takes the
remembered state of a folder (`TakeDir`, the lock of `dirs`) and uses it later
(`UseDir`, the lock of that state's index, which it fills with what is at the
path by then); it reads the IV of a folder that is not remembered (`ReadIv`) and
remembers it later (`KeepIv`); it looks a file up (`LookupFile`) and opens it
(`OpenFile`). `held` is what a thread has between two such steps. A state is told
from others by its IV, so that two states of one folder would get one index;
that happens only where one of them is not in use any more.

All of these steps come between any two steps of a change, with three exceptions,
because with each of them the code goes wrong (section 4). The constant `Overlap`
lets them in: `"list"`, a folder moves from, or comes to, where a thread has
taken a state and not used it; `"iv"`, a folder goes while a thread has read its
IV and not remembered it; `"open"`, a file is looked up or opened in the middle of
a change. `CloseFile` drops a file no one
holds, `Restart` ends the process anywhere (`"crash"` in `Faults`), `"unlink"`
and `"move"` let the file system refuse a removal or a rename.

`DriveTree` is a tree of names, unique without their case in each folder, with
`Create`, `Remove` (of what is empty), `Rename` and `Replace`. A rename says that
the new folder is not inside what moves (`Apart`): some set of folders leads from
it up to the root, and what moves is not in it. `DriveSpec` maps
the disk to what can be decrypted (`Visible`). A step with a sidecar or a cache
is a stutter.

Left out: attributes and times, names that cannot be stored, `.flkd`'s own files
in the root, and the reuse of an IV (they are 16 random bytes; a model value is
taken again only when nothing knows it any more).

### `Drives`, with `DriveHandler` and `TreeCopy`

`Drives` is the helper process. A request's thread is at the step `req[id].at`,
with its local variables in the same record:

| steps of `at` | code |
|---|---|
| `unsent`, `spawned`, `begin` ... `answer`, `replied` (`Receive`, `Start`, `Answer`, `Cancel`) | `main.rs`, `Jobs` |
| `keep`, `wait`, `join` (`Mount`, `KeepThread`, `MountReady`, `MountFails`, `MountTimesOut`, `Join`) | `Drives::mount`, `forget` |
| `count`, `take`, `ask`, `close` (`Unmount` ... `Closed`, `NotClosed`) | `Drives::unmount` |
| `work` (`BeginJob`, `WorkOn`) | `jobs.rs` |

`mounts` is the table, `mounting` the lock a mount keeps to its end, `drive` and
`ready` the thread that serves a drive and its channel (`Serve` ... `Tell` are
`serve` and `ended`), `sent` the events. An action is what happens under one
lock, or one call that can wait. A timeout can come at any time before what it
waits for. `StdinCloses`, `UnmountNext` and `Exit` are the end of the process.

A `plan` is drawn at the start: the requests of the run, which of the
environment's faults may happen (`refuse`: a mount that is refused or a drive
that does not start; `eject`; `slowMount` and `slowClose`: the timeouts; `close`:
stdin), whether programs use the drives, and what is in the folder a job copies.

`DriveHandler` is what programs do on a served drive, seen at one path of each
vault: `CreateFile` with every disposition, `WriteFile`, `SetEndOfFile`,
`SetAllocationSize`, `SetFileAttributes`, `DeleteOnClose`, `Cleanup`,
`CloseFile`. With `Unmarks`, programs may take back the mark of a thing that is
gone already (section 4). `TreeCopy` is the walk of a job: `Scan`, `CopyEntry`, `CopyChunk`,
`Copied`, `VerifyEntry`, `VerifyChunk`, `Verified`, and the user who changes the
plain folder at any point (`Edit`, `Delete`). Each is composed into `Drives`
with its own variables.

Left out: `move_file` (it is `Rename` of `VaultTree`), what is in the files
(`ContentFile`), hidden and system files (they only make more calls fail),
times, listings, volume information, progress, and the parsing of requests.

## 3. Properties

Of `VaultJournal`:

* `NoDataLoss`: all of the user's data has a whole copy under an item or vault
  name, or where a lock with a journal entry put it.
* `OriginalDeletedLast`, `VaultDeletedLast`: whatever path led there (operation
  or recovery), a deletion of the original or of the vault begins only when the
  other copy is complete under its final name.
* `NoStrayPlaintext`: decrypted files under a temporary name have an entry.
* `Tidy`: nothing temporary is left once the journal is empty and the app idle.
* `FailedLockHarmless`: a lock that answers with a failure has left the item in
  place, or an entry for the next start.
* `EntriesResolved`: each entry is gone in the end (liveness).
* `LifeSteps`: every step is one of `ItemLife`, or none (refinement).
* `LifeSpec`: the whole is an implementation of `ItemLife`, in which a lock that
  was begun ends.
* `TypeOK`: types, and the accord of memory and journal: whatever step the app
  is at, the entry of that operation is there and of its kind.

Of `Keyring`:

* `NewPasswordOpens`: after a change, the new password opens every vault that
  should and is not flagged, whichever keys it was locked with and when.
* `NewRecoveryOpens`: while the pending flag is clear, every vault and all keys
  made ahead open with the current recovery key.
* `SavedFirst`: no vault has a slot for a key that the keystore on the disk does
  not know.
* `NeverBack`: no save brings a replaced password or recovery key back.
* `KeystoreAgrees`: memory and disk have the same keystore except while vaults
  are rewritten.
* `OneVault`: keys made ahead are never left behind after a lock has written
  with them.
* `RecoveryCatchesUp`: the pending flag clears in the end, or a vault waits for
  a password only the user has (liveness).

Of `ContentFile`:

* `ByteSpec`: every call does to encrypted blocks what it would do to bytes, and
  one that stops half-way harms only the blocks it was about (refinement).
* `MemoryTrue`: what the open file keeps of its length and id is what is stored.
* `NewBytesZero`: bytes a file grows by read as zeros, whatever happened before.
* `TypeOK`: types.

Of `VaultTree`:

* `DriveSpec`: what can be decrypted is a tree of names to which each call does
  what it says, also when the process ends in the middle (refinement).
* `CachesTrue`: between changes no cache contradicts the disk.
* `PathTrue`: an open file knows its path through every rename around it.
* `OneFile`: no stored file is open as two objects, whose locks and lengths would
  not know of each other.

Of `Drives`, `DriveHandler` and `TreeCopy`:

* `TableTrue`: every drive that is served is in the table under its vault and
  letter, alone there.
* `EndsTold`: the app is told of the end of exactly the drives whose mount
  succeeded.
* `Answered`: every request is answered, or the helper ends (liveness).
* `CountTrue`: the count of open files is right.
* `NamesTrue`: removals, and some calls on folders, go by name; what they find
  there is what their handle was opened on, never what was made in its place.
* `CopyExact`: a job that ends well leaves two equal trees unless the user went
  on after the comparison had begun.

## 4. Runs

| run | instance | shows |
|---|---|---|
| `crash_users` | folder and file, 2 operations, 2 of crash / write / save, 2 acts (create, rename), fair | `NoDataLoss`, `OriginalDeletedLast`, `VaultDeletedLast`, `Tidy`, `LifeSteps`, `EntriesResolved`, `LifeSpec` |
| `any_failure` | 3 operations, 2 failures of every kind, nobody else, fair | `NoDataLoss`, `FailedLockHarmless`, `EntriesResolved` |
| `everything` | 2 operations, every failure and every act, 2 of each | `TypeOK`, `NoStrayPlaintext` |
| `drive` | vault folders, 2 operations, 2 of crash / write / save / delete / remove | `NoDataLoss`, `VaultDeletedLast` |
| `keys` | one flow at a time, items behind the update; 2 passwords, 3 recovery keys, 2 of vault / save failures | `NewPasswordOpens`, `NewRecoveryOpens`, `OneVault`, `NeverBack` |
| `keys_crash` | also items during a change and an activation; 2 of crash / save failures | `TypeOK`, `KeystoreAgrees`, `SavedFirst` |
| `keys_catch_up` | one flow at a time, 2 of vault / save failures, fair | `RecoveryCatchesUp` |
| `content` | blocks of 2 bytes, files of up to 5, 2 ids, a crash in any disk step | `TypeOK`, `MemoryTrue`, `ByteSpec` |
| `content_gap` | the same, with failing writes instead of crashes | `NewBytesZero` is violated |
| `tree` | 2 changes of 4 kinds to a vault with folders, a file, names that differ in case and a long one; a thread that reads folders, IVs and files in two steps each; crashes, refused removals | `OneFile`, `CachesTrue`, `PathTrue`, `DriveSpec` |
| `tree_gap` | a rename and a new folder, a thread that reads folders, `Overlap = {"list"}` | `CachesTrue` is violated |
| `drives` | 10 plans of up to 3 requests for 2 vaults, 2 letters, 2 handles | `TableTrue`, `EndsTold`, `CountTrue`, `CopyExact`, `NamesTrue`, `Answered` |

Bounds of `VaultJournal`. Two operations are a lock and its unlock, or two locks under one name;
three (in `any_failure`) let an entry outlive an operation and meet a later one.
Two failures are a failure and one in its error path, or a crash and one in
recovery. Two names are a name and the variant a taken one is replaced by. Two
pieces of data are the least that can be mistaken for each other, and `Files`
makes one of them a single file. In the fair runs there are three names, or four, so that
recovery always finds a free one: the code counts up without limit
(`FsUtils.freePath`), and running out of names would be the model's doing.
`MaxFaults` also makes failures end, which the liveness properties need.
`CHECK_DEADLOCK` stays on: an idle app can always be quit and started.

Bounds of `Keyring`. Two items are one of the master password and one with its
own; flows treat the vaults of their list one by one, and no action reads two.
Two passwords are one change. Three recovery keys are two activations, the
second while vaults still wait for the first. Two failures are a missed vault
and a failed save or a failed retry.

Bounds of `ContentFile`. Blocks of two bytes have a first and a last one; three
bytes written at once cover a whole block and a part of another, on either
side. Five bytes are two blocks and a half; a sixth is a length no file may have
(`too_large`, `content.rs:414`). Two ids are an old and a new one;
blocks keep at most one old id. Nonce and tag are two bytes together, so that a
cut can leave a stored block shorter than they are, inside them, or behind.
The file can be changed without end; the run covers every sequence of calls.

Bounds of `VaultTree`. Paths are at most two long, so that a folder with
something in it can be renamed into, out of, and below another. Two names
differ only in case, one is long. Two changes are a removal or a rename and what takes the
path it left; each change is up to ten steps, and the steps of the reading thread
and the crash can come between any two. One reading thread is enough for what
one can do to the caches; the theorems have any number. `CHECK_DEADLOCK FALSE`: after its changes a
vault may have nothing left to do.

Bounds of `Drives`. Each plan lets one part of the helper do its worst: two
mounts of two vaults or of one, two unmounts of one drive, every timeout with
and without the end of stdin, a refused and an ejected drive, programs at work
during an unmount, imports and exports with links, a cancel and one or two
changes by the user. Two handles are the two whose closing
the mark and the count depend on; two files are one made in the place of
another. `CHECK_DEADLOCK FALSE`: a helper that has answered everything waits
for the app.

Fairness of `VaultJournal` (`FairSpec`). The app's own steps (`Running`, `Recovery`) happen: it is
a sequence of `await`s with no one to wait for. `Quit` and `Start` happen: the
user ends the app and starts it again and again, and this is what retries the
entries recovery could not resolve (it does nothing between starts). No request,
no act of others and no failure is ever assumed to happen.

Fairness of `Keyring`. A flow under way goes on: its steps are `await`s on the
disk and on an isolate. The app is locked (by the clock if by nobody else), and
unlocked again and again: the app promises the update "after the next unlock",
and strong fairness of `Unlock` is needed because items may be locked and
unlocked behind a locked window for ever. Items are not unlocked *during* an
update in this run: doing that to the same vault every time would keep it
missed.

Fairness of `Drives` (`FairSpec`). While some thread of the helper can go on, one
does: they are threads of the system with no one to starve them, none can go on
for ever, and timeouts are among their steps. Dokany starts a drive or
fails to, and removes one when it is asked to. No request, no program, no eject
and no end of stdin is assumed. `Answered` excepts `Stuck`, a mount that timed
out while its drive starts after all (see below).

### What the runs refute

`content_gap` (`NewBytesZero`). A write that fails part-way (the disk is full, a
network drive is gone) leaves stored bytes that the open file's length does not
know of. A later growth drops such bytes only when the remembered length shows
them (`content.rs:484`), extends the file over them, and they become part of a
block that cannot be opened. `content.rs:412` says of `set_len`: "New bytes read
as zeros." After a crash the length is read from the disk and the bytes are
dropped: that is why `content`, with crashes, passes.

`tree_gap` (`CachesTrue`). `list` takes the state of a folder and lets the lock of
the folders go; then it locks the state's index and reads what is at the path by
now (`vault.rs:331`; the lookup through the indexes does the same, `vault.rs:395`).
If the folder `a` is renamed in between, its state goes with it (`moved`), and if a
new folder takes the stored path of `a`, nothing in it can be read with the old
IV: the renamed folder, which has things in it, gets an empty index for good. It
can be listed, but what is in it is found only by its exact name, cannot be
removed or renamed, and does not keep a name that differs only in case from being
made. `vault.rs:475` says: "The index is built while its lock is held, so no change
made meanwhile is lost: changes update it only after the disk."

The models show more when an instance is given other constants. In each of
these cases the code does not keep what it, its comments or its documentation
say. They are the reasons for the restrictions of the passing runs, and a
reader can reproduce each of them:

| change to the instance | then fails | what happens |
|---|---|---|
| `drive`: `Faults = {"rename", "crash"}`, `MaxOps = 1` | `NoDataLoss` | The rollback of a drive lock deletes the complete partial vault child by child while the entry says *verified* (`drive_operations.dart:166`). A crash in between leaves a torn folder that recovery moves into place as the vault, and then deletes the original. `docs/ARCHITECTURE.md:309` calls that vault complete. |
| `drive`: `INVARIANT NoStrayPlaintext` | `NoStrayPlaintext` | The error path of an export ignores files it could not delete and removes the entry. `drive_operations.dart:228` relies on startup recovery, which no longer knows of them. |
| `any_failure`: `Faults = {"rename"}`, `Acts = {"item"}`, `MaxActs = 1`, `MaxOps = 2`, `Names = {docs}` | `NoDataLoss` | A rollback that cannot rename the item back (its name was taken) keeps an entry in phase *verified*. A later lock under the same vault name makes recovery take the new vault for the old entry's and delete the first item's only copy. |
| `keys_crash`: `Overlap = {"reseal-change"}` | `SavedFirst` | The update of vaults that began with the window ends during a password change and saves the session's keystore, still the old one, over the new one. After a restart the app accepts only the old password, and the vaults have the new one. |
| `crash_users`: `"edit"` in `Acts`, `Data = {a, c}` and `Files = {}` | `OriginalDeletedLast` | Files added to a folder after it was scanned and before it was renamed are not in the vault; the check that follows compares the vault with what was written. |
| `any_failure`: `"item"` and `"moveItem"` in `Acts`, `MaxActs = 1` | `VaultDeletedLast` | An unlock whose work folder could not be deleted keeps a *committed* entry. After the item has been locked again, a start finds something under the item's name and deletes the new vault. |
| `keys`: `"reseal-activate"` or `"activate-lock"` in `Overlap` | `NeverBack` | An update ends while a second recovery key is being saved; its own save brings the first one back. |
| `keys`: `"crash"` in `Faults` | `NewPasswordOpens` | The app stops after the new keystore is saved: vaults not rewritten yet are neither flagged nor tried again. |
| `keys`: `"crash"` in `Faults` | `OneVault` | Keys made ahead survive a crash in the lock that used them and serve a second vault. |
| `keys`: `"change-item"` in `Overlap` | `NewPasswordOpens` | An item locked with the old key during a change is neither in the change's list nor flagged. |
| `keys`: `"activate-item"` in `Overlap` | `NewRecoveryOpens` | An item that is being locked when a recovery key is activated keeps the old key's slot, and the flag is cleared. |
| `keys_crash`: `"change-lock"` in `Overlap` | `KeystoreAgrees` | The app is locked while a change derives its key: the keystore is saved, then the change ends by an exception, and the session keeps asking for the old password until the app is restarted. |
| `content`: `Faults = {"error"}` | `MemoryTrue` | A write that fails half-way changes the stored file and not the remembered length; `content_gap` shows what follows. |
| `tree`: `Changes = {"createFile"}`, `Overlap = {"open"}`, `Faults = {}`, `MaxChanges = 1` | `OneFile` | `create_file` puts the stored file in place before it remembers the open one (`vault.rs:173`): a thread that opens it in between gets an object of its own, though "All handles to the same file must share one instance" (`content.rs:167`). |
| `tree`: the same with `Changes = {"rename"}` | `OneFile` | A thread opens the file under its new path before the rename has moved what is remembered. |
| `tree`: `Changes = {"remove", "rename"}`, `Overlap = {"iv"}`, `Faults = {}`, `MaxChanges = 3` | `CachesTrue`, `DriveSpec` | `dir` reads a folder's IV and remembers it later (`vault.rs:445`). Meanwhile the folder is removed and another one takes its stored path. With the wrong IV what is in it cannot be read and does not count: the folder is removed with its files (`vault.rs:225` says that only empty folders are). |
| `tree`: `Changes = {"createFile", "rename"}`, `Faults = {"move"}` | `CachesTrue` | A rename removes the file it replaces, then cannot move (`vault.rs:304`): the index still has what is gone. |
| `drives`: `Unmarks = TRUE` | `NamesTrue` | Two programs have one file open; the first marks and removes it. The second takes the mark back (`delete_file` asks nothing of a file that is gone, `handler.rs:472`), a third makes a file under the name, the second marks again, and its `cleanup` removes the third's file by its name (`handler.rs:293`), though nobody who had that one open asked for it. |
| `drives`: `~Stuck` as an invariant | `~Stuck` | A mount times out before Dokany has the drive: there is nothing to unmount yet (`windows.rs:219`), then the drive starts, `forget` waits for its thread and keeps `mounting`, so that no drive can be opened until the helper ends. |
| `drives`: the plan that mounts one vault three times and unmounts it once with `force`, with `refuse` and `eject` in its faults | `TableTrue` | An unmount that has read a ready mount (`windows.rs:252`) outlives its drive, which is ejected, and takes the thread of the *next* mount of the vault from the table (`windows.rs:272`). That mount fails, finds no thread to join (`windows.rs:228`) and lets `mounting` go; its own thread ends late and removes the entry of a third mount (`windows.rs:238`), whose drive is served and in no table. |

The passing runs are those in which these combinations cannot occur: that is why
`keys` has no crashes and lets only items meet the update, `crash_users` has no
failing renames and deletions, and no files added to an item, `any_failure` has no
acts of others, `drive` has no failing renames, `tree` has no `Overlap` and no refused
renames, `drives` has no `Unmarks`, and `content` has crashes instead of failing
writes. The theorems of section 5 have the same restrictions as assumptions, where
they need them.

## 5. Proofs

All theorems hold for every value of the constants: any number of operations,
items, names, keys, requests, drives and failures, every block size, every tree.
Where one has an assumption on what may fail or overlap, section 4 has the
counterexample that makes it necessary.

| theorem | states | assumes |
|---|---|---|
| `VaultJournalProofs!TypeCorrect` | `TypeOK` | nothing |
| `VaultJournalProofs!NothingStray` | `NoStrayPlaintext` | `.flk`, or deletions that do not fail |
| `VaultLossProofs!NothingLost` | `NoDataLoss` | `Calm` |
| `VaultLossProofs!OriginalLast` | `OriginalDeletedLast` | `Calm` |
| `VaultLossProofs!VaultLast` | `VaultDeletedLast` | `Calm` |
| `VaultEndsProofs!NothingLeft` | `Tidy` | `Calm` |
| `VaultEndsProofs!LockFailsSafely` | `FailedLockHarmless` | nobody renames items meanwhile |
| `VaultEndsProofs!StepsAreLife` | `LifeSteps` | `Calm` |
| `KeyringProofs!TypesHold` | `TypeOK` | nothing |
| `KeyringProofs!OneVaultOnly` | `OneVault` | no crash |
| `KeyringProofs!KeystoresAgree` | `KeystoreAgrees` | `ChangeAlone` |
| `KeyringProofs!ReplacedForGood` | `NeverBack` | `FlowsAlone` |
| `KeyringProofs!SavedBeforeUsed` | `SavedFirst` | `FlowsAlone` |
| `KeyringProofs!PasswordOpens` | `NewPasswordOpens` | `OpsAlone`, no crash |
| `KeyringProofs!RecoveryOpens` | `NewRecoveryOpens` | `OpsAlone` |
| `ContentFileProofs!TypesHold` | `TypeOK` | nothing |
| `ContentFileProofs!MemoryAgrees` | `MemoryTrue` | no write that fails under a process that goes on |
| `ContentFileProofs!BlocksAreBytes` | `ByteSpec` | the same |
| `ContentFileProofs!LengthsAgree` | `PlainLen(StoredLen(n)) = n` | nothing |
| `DrivesProofs!TableIsTrue` | `TableTrue` | `Steady` |
| `DrivesProofs!EndsAreTold` | `EndsTold` | `Steady` |
| `DrivesProofs!CountIsTrue` | `CountTrue` | nothing |
| `DrivesProofs!NamesStayTrue` | `NamesTrue` | `~Unmarks` |
| `TreeCopyProofs!CopiesAreExact` | `CopyExact` | nothing |
| `VaultTreeProofs!FileIsOne` | `OneFile` | `Calm` of that module |
| `VaultTreeProofs!CachesStayTrue` | `CachesTrue` | the same |
| `VaultTreeProofs!PathStaysTrue` | `PathTrue` | the same |
| `VaultTreeProofs!VaultIsDrive` | `DriveSpec` | the same |

### `VaultJournal`

* `TypeCorrect`. `TypeOK` is inductive as it stands, because
  it says which entry the app's memory belongs to: without `MemoryOK` a step
  could not know that the entry it saves again exists. The steps of one
  operation in hand (`Working`) go by what they do to the disk
  (`WorkingDisk`), to the journal (`WorkingJournal`: nothing, a new phase, or a
  removal) and to memory (`WorkingMemory`); requests, starts and other people's
  acts have lemmas of their own.
* `NothingStray`. `NoStrayPlaintext` is not inductive: that an entry exists does
  not say that it is of the kind that looks at that path, nor that the path is
  empty when the entry is removed. `Accounted` adds both, and that an id not yet
  given out has no entry.
* `NothingLost`. `Calm` allows crashes at any step, failing writes and failing
  journal saves, and users who create and rename items, for `.flk` and `.flkd`
  alike. It excludes what the counterexamples of section 4 need: files added to
  an item, and renames, deletions and removals that fail. The inductive invariant
  `Sound` adds to `NoDataLoss`:
  at most one entry is *hot*, that is, not a lock still to be rolled back
  (`OneHot`); what the phase of an entry says of the disk, for instance that a
  *verified* lock has a whole copy in the partial vault or in place
  (`PhasesTrue`); what the step the app is at says of the disk, for instance
  that an unlock about to delete the vault has a whole copy under the item's
  name (`LockTrue`, `UnlockTrue`); and that memory and entry name the same vault
  (`Remembered`). `OneHot` is the heart of it: recovery trusts the phase of an
  entry, and a step of one operation could make the phase of another untrue
  (it does in the cases of section 4 that `Calm` excludes). Each action has a lemma,
  which first says what it does to the disk, the journal and memory (`Moved`,
  `Lost`, `Entries`, `Dropped`, `Stays`, ...) and then proves the parts of
  `Sound` from that alone.
* `OriginalLast` and `VaultLast` follow from the same invariant: whenever the app
  is at a step that deletes, `LockTrue`, `UnlockTrue` and `PhasesTrue` have the other
  copy whole in its place, from the first child of a tree to its last.
* `NothingLeft`. `Tidy` speaks of an empty journal only. `Swept` says the same of
  one entry at a time: a temporary name has an entry of the kind that uses it,
  up to the step that removed the file. It takes `PlaceFree` (a verified vault
  still has its place free, so that recovery can put it there) and
  `FoldersOnly` (no single file is in a vault folder: an export would leave the
  folder it came in).
* `LockFailsSafely`. `InHand`: until the vault is in place, and as long as the
  rollback goes on, the staged item is there as it was; so a lock answers
  without an entry only when the item is under its name. Every failure may
  happen; only a rename by somebody else between the lock's request and its first
  step is excluded.
* `StepsAreLife`, the refinement without its fairness. `Open`, `Moving` and `Held`
  say where whole copies of a piece of data are; `LifeFacts` reads the refinement
  mapping off them. Each thing an operation can do to the disk (`Disk`: seven
  in all, from thirty actions) has a lemma that at most one piece of data turns,
  and how (`LifeTurns`). Three need the invariant. A vault that gets its name
  must not be all there is of its data, hence `Known`: all that lies anywhere came
  from the user, so by `NoDataLoss` it has a copy already. The original goes,
  and its vault is there; the vault goes, and the item is back: these are the
  facts behind `OriginalLast` and `VaultLast`.

They use the assumptions of `VaultJournal` (`DataAssumption`, `NameAssumption`,
`BoundAssumption`, `ChoiceAssumption`): each piece of data is a file or not,
added files make a folder from a folder, `NoName` is no name, the bounds are
natural numbers.

### `Keyring`

`ChangeAlone`, `FlowsAlone` and `OpsAlone` are the meetings of flows an instance
leaves out: the first, an update of the vaults or the locking of the app during
a change of the password; the second, the same during an activation, too; the
third, every meeting except items locked and unlocked during an update. All of
them allow every failure of a vault or a save.

* `TypesHold`. `TypeInv` adds to the types that a flow waits in the queue of saves
  once, exactly when it says so (`SavingTrue`), and that a lock which holds keys
  made ahead has them (`OpTrue`): that a step reads `Head(saving)` or the slots of
  a lock is well defined only with these.
* `OneVaultOnly` takes `UsedTrue`: keys that have been used belong to the lock
  under way, after its write.
* `KeystoresAgree` takes `AgreeInv`: whatever waits to be saved was made from the
  stored keystore of now, not of when the flow began, and the session was not
  wiped under it.
* `ReplacedForGood` takes `NewerInv`: what waits to be saved is no older than what
  is saved.
* `SavedBeforeUsed` takes `SlotsInv`, too: every key anywhere (in a vault, in keys
  made ahead, in the session, in the slots a lock will write or a rewrite has
  read) is no newer than the stored keystore.
* `PasswordOpens` and `RecoveryOpens` take `VaultsInv` (what a rewrite has read of a
  vault is what the vault still has), `PasswordInv` and
  `RecoveryInv`: a vault that does not open with the current key is one the flow
  under way still has to do, is doing or has missed, or it is flagged
  (of the recovery key: the keystore is). The second theorem needs no assumption
  on crashes, because the new recovery key is saved with its pending flag; the
  first does, because a change keeps in memory which vaults it has to do.

### `ContentFile`

* `TypesHold`. `TypeInv` adds to `TypeOK` what the steps need to stay in the types:
  the id in memory is the stored one, nothing is stored behind the end of the file
  (`Holes`: a block there is a hole, so growing over it reads zeros), and a file
  shorter than its header has no id. It holds under every fault; the lengths in
  memory and on the disk may differ after one.
* `MemoryAgrees`. The argument follows a call through
  its chain of disk steps: `Good` says of the record it hands on that
  it has its parts (`Fields`) and, as long as no disk step failed, that memory and
  disk agree; each step has a lemma that it keeps this, and a call that stopped ends by
  opening the file again. The heart of it is `WriteBlocks`: the length the
  code computes for memory after a write, from the last block it touched, is the
  one the disk has, which takes that all blocks before it are full.
* `BlocksAreBytes`, the refinement: `Spec => ByteSpec`, with `bytes` mapped to
  `Contents` and `len` to the length in memory. Both invariants above make
  `Contents` a function of the stored file alone (`View`), so every lemma is
  about what a disk step does to `View`: a header changes nothing (`EnsureView`);
  padding the last block and dropping stray bytes leave the file such that what
  is grown over it reads zeros (`PadView`, `StrayView`, `ExtendView`); blocks on
  their way into the file change their own bytes only, and when all are there the
  file reads as they say (`PlacedView`), which for the blocks of a write are the
  data and, around it, what was there (`PatchedBytes`); a resealed block and the
  cut after it leave the file its own beginning (`ResealView`, `CutView`). They
  add up to one lemma for each call (`WriteView`, `GrowView`, `ShrinkView`), for the
  case that it ends well and the one that it stops anywhere, and `StepMaps` turns
  these into the steps of `ByteFile`. That the two arithmetics of a block agree
  (its length from the file's, and from what is written) is `PatchedRow`.
* `LengthsAgree`: `PlainLen(StoredLen(n)) = n` for every length.

They use `SizesAssumption`, `DataAssumption` and `FaultsAssumption` of
`ContentFile`: sizes are positive, what is written is not empty, the
faults are the two that exist, and there is an id to give to a new header. The
refinement uses `PartsAssumption` as well: the beginning of something written may
be written, which `write_within` does.

### `Drives`, `DriveHandler` and `TreeCopy`

`PlansAssumption` says what a plan is: requests name vaults and requests that
exist, the main thread is none of them, and the folder to copy is a tree
(`IsTree`: finite, every entry in a folder). `PathsAssumption` says what paths and
contents are.

* `TableIsTrue` and `EndsAreTold`. `Ongoing` has eight parts: types; how far a
  request and its drive can be from each other (`PhasesTrue`); who holds
  `mounting` (`LockTrue`); that a drive is in the table exactly while it lives, but
  for one whose mount has failed (`ListTrue`); that no two drives are served at
  one letter (`LettersTrue`); that a mount which may fail still has the thread it
  will join, itself or in the table (`ThreadsTrue`); that an unmount works on a
  mount that had succeeded (`UnmountsTrue`); what was sent (`ToldTrue`).
  `ThreadsTrue` is the heart: `forget` joins the thread *before* it lets the next
  mount start, and that is what keeps a late `ended` from removing another
  mount's entry.

  It is also what needs `Steady`: of a vault whose mount may fail, a plan either
  mounts it once, or never unmounts it. Otherwise an unmount can take the thread
  of another mount (section 4, the last row). The app has at most one mount or
  unmount under way (`_ensureIdle` of `protection_controller.dart`) and sends an
  unmount for a drive it has been told is mounted, which is narrower; `Steady`
  still has every mount and unmount of different vaults, and of one vault whose
  mounts succeed, at once.
* `CountIsTrue`. `HandlesTrue` relates each handle to the drive it was opened on
  and says that it counts exactly while it is an open file with access to data
  that has not been cleaned up; the count is the cardinality of a finite set.
* `NamesStayTrue`. `NamesTrue` is not inductive: a thing made where one was removed
  would be found by the handles of the removed one. `NamesInv` says why none is
  made there: of a handle whose thing is gone there is nothing at the name *and*
  the mark is still set, which keeps Windows from opening anything at it until all
  handles there are closed. A mark taken back would end that.
* `CopiesAreExact`. What was copied does not matter for it, only that both sides
  stay trees (`FoldersTrue`, `OpenTrue`). Of the comparison, `ComparedTrue` says that
  there is a set of paths which are *done*: equal on both sides, with as many
  entries in both folders; and that everything in the top folder or in one that
  is done is done itself, or open, or on the list. With an empty list every path
  is done, by descent along its folders, and as many entries in a folder that has
  all of the other's make the two sets equal. Both need the trees to be trees
  of folders whatever the user does, hence `IsTree`.

### `VaultTree`

`Calm` is what the run `tree` allows, too: `Overlap` is empty, and the file system
does not refuse a rename. Section 4 has a counterexample for each of the three
meetings (`"list"`, `"iv"`, `"open"`) and for a refused rename. All else of a thread
that reads is in, between any two steps of a change: taking a state and filling its
index, reading an IV and remembering it, with folders that move or go elsewhere. Crashes
anywhere, refused removals, every sequence of changes, threads that open,
remember and close files between changes, and trees of every depth are all in.
The theorems use `TreeAssumption` and `DisksAssumption`: at the start the disk is
a vault (`IsVault`: names can be read and are unique without their case in each
folder).

* The inductive invariant `IInv` has three parts. `Steady` holds always: the disk
  is a vault and every long name has its sidecar. `HeldTrue` says what a thread
  holds between two steps: an IV that was read is still that of the folder at its
  path, and a state that was taken is that of the folder at its path or there is
  none. The steps of a change keep it (`HeldKept`, `WorkKeepsHeld`), and it is what
  makes a cache filled or an IV remembered later a true one.
  `Working` says which stage the change under way is at: each stage (`OneStage` for
  a creation or a removal, `ClearStage` and `MoveStage` for a rename) names the
  rest of the job, what is on the disk, and in `Sound` which names an index may
  still be wrong about, which path a folder or a file has left, and between which two
  paths the caches have yet to move. Between changes
  (`Quiet`) that is nothing, which is `CachesTrue` and `PathTrue`; and a cache that a
  thread fills half-way through a change is wrong about nothing else.
* Lookups. `NodeAt` and `Along` are recursive functions over paths. What they
  return is proved for a path of every length by the least path that would
  be a counterexample (`LeastNumber`, `NoBadPath`), for a disk that is a parameter,
  so that the disk of the next state is another instance (`NodeIn`, `NodeFacts`).
  The heart of it is `OnePath`: two stored paths lead to one thing only if they are
  equal, because a stored name carries its folder's IV and names are unique. With it
  a step that touches one thing changes `NodeAt` only for the paths through it:
  `More`, `Without` and a move each have a lemma that says what every path leads
  to afterwards, and `MoveKeys` is right because `Rebase` is injective on the
  paths that move.
* A lookup that ends well has found what is there, whatever its case, and what
  it added to the cache is true (`FoundTrue`): this is where a change begins
  (`CreateStarts`, `RemoveStarts`, `RenameStarts`).
* `OneFile`, `CachesTrue` and `PathTrue` follow from `IInv`.
* `VaultIsDrive`. In a steady state everything on the disk can be decrypted
  (`AllIsVisible`), so that the drive shows the disk itself. Only three kinds of
  step touch it. A creation finds its name free without its case
  (`CreateIsCreate`), a removal takes what is empty or a file that a rename will
  replace (`LessIsRemove`), a move is a `Rename` or a `Replace` (`MoveIsRename`): the
  folders on the way to the target are the set that `Apart` asks for, and the
  thing that moves is not among them, for its path is not a prefix of theirs
  (`IsApart`). All other steps leave what is shown alone. A crash half-way through a
  rename can therefore show one thing only that no call does by itself: the file
  to be replaced is gone and nothing is in its place yet.

### Only model-checked

`LifeSpec` (that a lock which was begun ends), `EntriesResolved`, `RecoveryCatchesUp`
and `Answered` need fairness, which is out of the provers' reach; the steps of
`LifeSpec` are proved (`StepsAreLife`). `NewBytesZero` of `ContentFile` is what the code
violates (section 4); where writes do not fail it is part of `ByteSpec`. The runs that go beyond the
assumptions of the theorems are `any_failure`, `everything` and `drive`, with
failing renames, deletions and removals of entries.

## 6. Not modelled

* *Items list and the rest of the protection controller*: `VaultJournal` and
  `Keyring` have the operations it starts; what the list says after a crash
  between the end of an operation and its save is not modelled.
* *Slot areas of a header, `JsonFileStore`, `SingleInstance`*: `Keyring` takes a
  rewrite of slots and a save as one step that happens or fails.
* *The archive's record grammar, the protocol between app and helper, headers,
  encryption of names, settings*: sequential conversions, or primitives of
  libraries, without shared state.
* *Watchers, window, tray, access rules, Explorer plug-in, C++ runner*: calls of
  Windows; what they ask of the app enters the models as requests at any time.
* *The rename of `FsUtils` with its retry*: one step here; the check and the move
  are apart in the code.

What would add most: the items list around `VaultJournal`; the two areas of a
header as an atomic register.
