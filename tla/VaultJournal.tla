---------------------------- MODULE VaultJournal ----------------------------
(***************************************************************************)
(* Crash-safe locking and unlocking of files and folders.                  *)
(*                                                                         *)
(* Models lib/engine/operations/{journal,lock_operation,unlock_operation}  *)
(* .dart, the lock and export of lib/engine/drive/drive_operations.dart    *)
(* and the file primitives of lib/engine/vault/fs_utils.dart: one          *)
(* operation of the app at a time, every step that changes the disk an     *)
(* action of its own, every step able to fail the way the code handles,    *)
(* a crash possible between any two steps, and the startup recovery        *)
(* (itself able to fail and to crash).  The user and other programs change *)
(* the same folder at any time.                                            *)
(*                                                                         *)
(* The disk is a function from paths to contents.  A content says which    *)
(* item's data it holds, in which form, and whether all of it is there.    *)
(***************************************************************************)
EXTENDS Integers, FiniteSets

CONSTANTS
    Data,       \* what items hold: one value for each state of an item's files
    Files,      \* the ones that are a single file
    Grown,      \* pairs <<d, e>>: e is folder d with files added
    NoData,     \* the data of an empty folder and of a path without entry
    Names,      \* the names an item can have
    Variants,   \* Names -> SUBSET Names: what freePath tries next, Name (2), ...
    NoName,     \* no name in memory
    MaxOps,     \* bound: operations started
    Style,      \* the form of the vaults: "flk" (one file) or "flkd" (a folder)
    Faults,     \* what may fail: "crash" "rename" "write" "save" "delete" "remove"
    MaxFaults,  \* bound: failures and crashes
    Acts,       \* what others do: "item" "vault" (create one), "moveItem"
                \* "moveVault" (rename one), "edit" (add files to an item)
    MaxActs     \* bound: steps of the user and of other programs

ASSUME DataAssumption ==
    /\ Files \subseteq Data
    /\ Grown \subseteq (Data \ Files) \X (Data \ Files)
    /\ NoData \notin Data
ASSUME NameAssumption ==
    /\ Variants \in [Names -> SUBSET Names]
    /\ NoName \notin Names
ASSUME BoundAssumption ==
    /\ MaxOps \in Nat
    /\ MaxFaults \in Nat
    /\ MaxActs \in Nat
ASSUME ChoiceAssumption ==
    /\ Style \in {"flk", "flkd"}
    /\ Faults \subseteq {"crash", "rename", "write", "save", "delete", "remove"}
    /\ Acts \subseteq {"item", "vault", "moveItem", "moveVault", "edit"}

Ops == 1..MaxOps

-----------------------------------------------------------------------------
(* Paths.  Item(n) and Vault(n) are the final names in the item's folder;  *)
(* the others carry the operation's id, so no two operations share them.   *)

Item(n)       == <<"item", n>>
Vault(n)      == <<"vault", n>>
Staged(o)     == <<"locking", o>>
Partial(o)    == <<"partial", o>>
Restoring(o)  == <<"restoring", o>>

Paths == ({"item", "vault"} \X Names) \cup ({"locking", "partial", "restoring"} \X Ops)

(* Contents. *)
Forms   == {"none", "file", "folder", "flk", "flkd"}
Content == [form : Forms, data : Data \cup {NoData}, whole : BOOLEAN]

None      == [form |-> "none", data |-> NoData, whole |-> FALSE]
EmptyDir  == [form |-> "folder", data |-> NoData, whole |-> FALSE]
Plain(d)  == [form |-> IF d \in Files THEN "file" ELSE "folder", data |-> d, whole |-> TRUE]
Sealed(d) == [form |-> Style, data |-> d, whole |-> TRUE]

(* Journal entries: workPath and partialPath follow from the id. *)
Phases  == {"started", "verified", "committed"}
Entry   == [kind : {"none", "lock", "unlock"}, phase : Phases,
            item : Names \cup {NoName}, vault : Names \cup {NoName}]
NoEntry == [kind |-> "none", phase |-> "started", item |-> NoName, vault |-> NoName]

-----------------------------------------------------------------------------
VARIABLES
    fs,       \* the disk: Paths -> Content
    journal,  \* the journal folder: Ops -> Entry
    pc,       \* the step the app is about to take
    cur,      \* operation being run or recovered (0: none)
    item,     \* its item name, in memory
    vault,    \* its vault name, in memory
    scanned,  \* the data a lock found in its item before it renamed it
    clean,    \* no deletion failed so far in this unlock
    todo,     \* entries startup recovery has yet to look at
    next,     \* id of the next operation (ids grow like startedAt)
    reply,    \* how the last operation answered its caller
    owned,    \* data that is on the disk, by the user's doing
    faults,   \* failures so far
    acts      \* steps of others so far

memory == <<cur, item, vault, scanned, clean>>
env    == <<owned, acts>>
vars   == <<fs, journal, pc, cur, item, vault, scanned, clean, todo, next,
            reply, owned, faults, acts>>

LockSteps     == {"stage", "write", "verify", "place", "commit", "deleteStaged", "forget"}
RollbackSteps == {"backPartial", "backItem", "backForget"}
UnlockSteps   == {"restore", "putBack", "restored", "deleteWork", "deleteVault", "closeUnlock",
                  "abort", "abortForget"}
RecoverySteps == {"pick", "rPlace", "rDeleteStaged", "rUnstage", "rDeletePartial",
                  "rDeleteVault", "rDeleteWork", "rAbort", "rCompleted", "rRolledBack"}
PcValues == {"down", "idle"} \cup LockSteps \cup RollbackSteps \cup UnlockSteps
            \cup RecoverySteps

LockEnds   == {"rPlace", "rDeleteStaged", "rUnstage", "rDeletePartial"}
UnlockEnds == {"rDeleteVault", "rDeleteWork", "rAbort"}
Busy       == PcValues \ {"down", "idle", "pick"}

Pending == {o \in Ops : journal[o].kind # "none"}

(* The phase "verified" is for locks only, and every entry names its paths. *)
JournalOK ==
    /\ journal \in [Ops -> Entry]
    /\ \A o \in Pending :
         /\ journal[o].item \in Names /\ journal[o].vault \in Names
         /\ journal[o].kind = "unlock" => journal[o].phase # "verified"

(* What is in memory belongs to an entry of the journal of the right kind. *)
MemoryOK ==
    /\ pc \in PcValues
    /\ cur \in Ops \cup {0}
    /\ pc \notin Busy => cur = 0
    /\ item \in Names \cup {NoName} /\ vault \in Names \cup {NoName}
    /\ pc \in Busy => cur \in Pending /\ item \in Names /\ vault \in Names
    /\ pc \in LockSteps \cup RollbackSteps \cup LockEnds => journal[cur].kind = "lock"
    /\ pc \in UnlockSteps \cup UnlockEnds => journal[cur].kind = "unlock"
    /\ scanned \in Data \cup {NoData}
    /\ clean \in BOOLEAN
    /\ todo \subseteq Pending \ {cur}
    /\ pc \notin RecoverySteps => todo = {}

(* The type invariant: the disk, the journal and the app's memory. *)
TypeOK ==
    /\ fs \in [Paths -> Content]
    /\ JournalOK
    /\ MemoryOK
    /\ next \in 1..(MaxOps + 1)
    /\ reply \in {"none", "ok", "failed"}
    /\ owned \subseteq Data
    /\ faults \in 0..MaxFaults
    /\ acts \in 0..MaxActs

Init ==
    /\ \E at \in [Data -> Names \cup {NoName}] :
         /\ \A d, e \in Data : at[d] = at[e] /\ at[d] # NoName => d = e
         /\ owned = {d \in Data : at[d] # NoName}
         /\ fs = [p \in Paths |->
                    IF p[1] = "item" /\ \E d \in Data : at[d] = p[2]
                    THEN Plain(CHOOSE d \in Data : at[d] = p[2])
                    ELSE None]
    /\ journal = [o \in Ops |-> NoEntry]
    /\ pc = "idle"
    /\ cur = 0 /\ item = NoName /\ vault = NoName
    /\ scanned = NoData /\ clean = TRUE
    /\ todo = {} /\ next = 1 /\ reply = "none"
    /\ faults = 0 /\ acts = 0

-----------------------------------------------------------------------------
(* File primitives (FsUtils and Journal). *)

Exists(p) == fs[p] # None

Fault(kind) == kind \in Faults /\ faults < MaxFaults /\ faults' = faults + 1

(* rename refuses a target that exists; otherwise it is one atomic step. *)
Rename(p, q) ==
    /\ Exists(p) /\ ~Exists(q)
    /\ fs' = [fs EXCEPT ![p] = None, ![q] = fs[p]]
    /\ UNCHANGED faults

RenameFails(p, q) ==
    /\ \/ (~Exists(p) \/ Exists(q)) /\ UNCHANGED faults
       \/ Fault("rename")
    /\ UNCHANGED fs

(* deleteTree removes a folder child by child: Tear is the moment after the *)
(* first child is gone, Gone the end, Stuck an end that reports failures.   *)
Tear(p) ==
    /\ fs[p].form \in {"folder", "flkd"} /\ fs[p].whole
    /\ fs' = [fs EXCEPT ![p].whole = FALSE]

Gone(p) ==
    /\ fs' = [fs EXCEPT ![p] = None]
    /\ UNCHANGED faults

Stuck(p) == Exists(p) /\ Fault("delete") /\ UNCHANGED fs

(* freePath: the name itself, or a free variant of it when it is taken. *)
FreeNames(n)  == IF Exists(Item(n)) THEN {m \in Variants[n] : ~Exists(Item(m))} ELSE {n}
FreeVaults(n) == IF Exists(Vault(n)) THEN {m \in Variants[n] : ~Exists(Vault(m))} ELSE {n}

(* Journal.save writes a temporary file and renames it: all or nothing. *)
Save(o, e) == journal' = [journal EXCEPT ![o] = e] /\ UNCHANGED faults
SaveFails  == Fault("save") /\ UNCHANGED journal

Forget(o)    == journal' = [journal EXCEPT ![o] = NoEntry] /\ UNCHANGED faults
ForgetFails  == Fault("remove") /\ UNCHANGED journal

(* Nothing of an operation stays in memory. *)
Cleared ==
    /\ cur' = 0 /\ item' = NoName /\ vault' = NoName
    /\ scanned' = NoData /\ clean' = TRUE

(* The operation ends and answers its caller. *)
Answer(r) ==
    /\ pc' = "idle" /\ reply' = r
    /\ Cleared
    /\ UNCHANGED <<todo, next, env>>

(* The operation goes on with its next step. *)
Go(step) == pc' = step /\ UNCHANGED <<memory, todo, next, reply, env>>

-----------------------------------------------------------------------------
(* Lock: LockOperation.run and DriveOperations.lock. *)

StartLock(n, v) ==
    /\ pc = "idle" /\ next \in Ops
    /\ fs[Item(n)].whole /\ v \in FreeVaults(n)
    /\ Style = "flkd" => fs[Item(n)].form = "folder"
    /\ Save(next, [kind |-> "lock", phase |-> "started", item |-> n, vault |-> v])
    /\ pc' = "stage" /\ cur' = next /\ item' = n /\ vault' = v
    /\ scanned' = fs[Item(n)].data
    /\ next' = next + 1 /\ reply' = "none"
    /\ UNCHANGED <<fs, clean, todo, env>>

Stage ==
    /\ pc = "stage"
    /\ Rename(Item(item), Staged(cur))
    /\ Go("write") /\ UNCHANGED journal

(* Nothing has changed yet, so the entry is removed and the error goes up; *)
(* that removal may fail too and is then the error.                        *)
StageFails ==
    /\ pc = "stage"
    /\ RenameFails(Item(item), Staged(cur))
    /\ \/ journal' = [journal EXCEPT ![cur] = NoEntry]
       \/ "remove" \in Faults /\ UNCHANGED journal
    /\ Answer("failed")

(* What is written.  The helper walks the staged folder (a file that took  *)
(* its place is refused), and a single file is read as it is now; of a      *)
(* folder, a .flk vault gets the files the scan found (VaultWriter walks    *)
(* the snapshot) and fails when one is missing.                             *)
FromScan == Style = "flk" /\ (scanned \notin Files \/ fs[Staged(cur)].form = "folder")
Source   == IF FromScan THEN scanned ELSE fs[Staged(cur)].data
Complete ==
    /\ Style = "flkd" => fs[Staged(cur)].form = "folder"
    /\ FromScan => \/ scanned = fs[Staged(cur)].data
                   \/ <<scanned, fs[Staged(cur)].data>> \in Grown

(* The vault file (or folder) is there before all of it is written. *)
WritePart ==
    /\ pc = "write" /\ ~Exists(Partial(cur))
    /\ fs' = [fs EXCEPT ![Partial(cur)] = [form |-> Style, data |-> Source, whole |-> FALSE]]
    /\ Go("write") /\ UNCHANGED <<journal, faults>>

WriteAll ==
    /\ pc = "write" /\ Exists(Partial(cur)) /\ Complete
    /\ fs' = [fs EXCEPT ![Partial(cur)].whole = TRUE]
    /\ Go("verify") /\ UNCHANGED <<journal, faults>>

SaveVerified ==
    /\ pc = "verify"
    /\ Save(cur, [journal[cur] EXCEPT !.phase = "verified"])
    /\ Go("place") /\ UNCHANGED fs

Place ==
    /\ pc = "place"
    /\ Rename(Partial(cur), Vault(vault))
    /\ Go("commit") /\ UNCHANGED journal

(* An error or a cancel while writing or verifying, a journal that cannot *)
(* be saved, a vault that cannot be moved into place.                     *)
LockFails ==
    /\ \/ pc \in {"write", "verify"} /\ Fault("write") /\ UNCHANGED fs
       \/ pc = "write" /\ ~Complete /\ UNCHANGED <<fs, faults>>
       \/ pc = "verify" /\ Fault("save") /\ UNCHANGED fs
       \/ pc = "place" /\ RenameFails(Partial(cur), Vault(vault))
    /\ Go("backPartial") /\ UNCHANGED journal

SaveCommitted ==
    /\ pc = "commit"
    /\ \/ Save(cur, [journal[cur] EXCEPT !.phase = "committed"])
       \/ SaveFails
    /\ Go("deleteStaged") /\ UNCHANGED fs

(* Files that could not be deleted keep the entry for the next start. *)
DeleteStaged ==
    /\ pc = "deleteStaged"
    /\ \/ Gone(Staged(cur)) /\ Go("forget")
       \/ Stuck(Staged(cur)) /\ Answer("ok")
    /\ UNCHANGED journal

(* The removal is outside every try: when it fails, so does the lock. *)
ForgetLock ==
    /\ pc = "forget"
    /\ \/ Forget(cur) /\ Answer("ok")
       \/ ForgetFails /\ Answer("failed")
    /\ UNCHANGED fs

(* LockOperation._rollback and DriveOperations._rollbackLock. *)
BackPartial ==
    /\ pc = "backPartial"
    /\ Gone(Partial(cur)) \/ Stuck(Partial(cur))
    /\ Go("backItem") /\ UNCHANGED journal

(* Mutant: the entry goes although the item could not be renamed back. *)
BackItemForgets ==
    /\ pc = "backItem"
    /\ IF Exists(Staged(cur)) /\ ~Exists(Item(item))
       THEN \/ Rename(Staged(cur), Item(item)) /\ Go("backForget") /\ UNCHANGED journal
            \/ /\ Fault("rename") /\ UNCHANGED fs /\ Answer("failed")
               /\ journal' = [journal EXCEPT ![cur] = NoEntry]
       ELSE Go("backForget") /\ UNCHANGED <<fs, faults, journal>>

BackItem ==
    /\ pc = "backItem"
    /\ IF Exists(Staged(cur)) /\ ~Exists(Item(item))
       THEN \/ Rename(Staged(cur), Item(item)) /\ Go("backForget")
            \/ Fault("rename") /\ UNCHANGED fs /\ Answer("failed")
       ELSE Go("backForget") /\ UNCHANGED <<fs, faults>>
    /\ UNCHANGED journal

(* Mutant: the rollback forgets the entry although the item is still renamed. *)
BackForgetAlways ==
    /\ pc = "backForget" /\ Forget(cur)
    /\ Answer("failed") /\ UNCHANGED fs

BackForget ==
    /\ pc = "backForget"
    /\ \/ ~Exists(Staged(cur)) /\ Forget(cur)
       \/ ~Exists(Staged(cur)) /\ ForgetFails
       \/ Exists(Staged(cur)) /\ UNCHANGED <<journal, faults>>
    /\ Answer("failed") /\ UNCHANGED fs

-----------------------------------------------------------------------------
(* Unlock: UnlockOperation.run (a .flk file) and DriveOperations.export (a *)
(* .flkd folder).  The password was right.                                 *)

StartUnlock(n, v) ==
    /\ pc = "idle" /\ next \in Ops
    /\ Exists(Vault(v))
    /\ \E m \in IF Style = "flkd" THEN FreeNames(n) ELSE {n} :
         /\ Save(next, [kind |-> "unlock", phase |-> "started", item |-> m, vault |-> v])
         /\ item' = m
    /\ pc' = "restore" /\ cur' = next /\ vault' = v
    /\ next' = next + 1 /\ reply' = "none"
    /\ UNCHANGED <<fs, scanned, clean, todo, env>>

RestorePart ==
    /\ pc = "restore" /\ ~Exists(Restoring(cur))
    /\ fs' = [fs EXCEPT ![Restoring(cur)] =
                [form |-> "folder", data |-> fs[Vault(vault)].data, whole |-> FALSE]]
    /\ Go("restore") /\ UNCHANGED <<journal, faults>>

(* The vault that was opened is still there, and none of it is missing. *)
Readable ==
    /\ Exists(Restoring(cur))
    /\ fs[Vault(vault)].whole /\ fs[Vault(vault)].data = fs[Restoring(cur)].data

RestoreAll ==
    /\ pc = "restore" /\ Readable
    /\ fs' = [fs EXCEPT ![Restoring(cur)].whole = TRUE]
    /\ Go("putBack") /\ UNCHANGED <<journal, faults>>

(* The restored folder becomes the item; of a restored file, its folder *)
(* stays behind, empty.  A .flk target is chosen here, an export's was   *)
(* chosen at the start.                                                  *)
PutBack ==
    /\ pc = "putBack" /\ Exists(Restoring(cur))
    /\ \E m \in IF Style = "flk" THEN FreeNames(item) ELSE {item} :
         /\ ~Exists(Item(m))
         /\ LET d == fs[Restoring(cur)].data
            IN  fs' = [fs EXCEPT ![Item(m)] = Plain(d),
                                 ![Restoring(cur)] = IF d \in Files THEN EmptyDir ELSE None]
         /\ item' = m
    /\ pc' = "restored"
    /\ UNCHANGED <<journal, faults, cur, vault, scanned, clean, todo, next, reply, env>>

UnlockFails ==
    /\ \/ pc \in {"restore", "putBack"} /\ Fault("write")
       \/ pc = "restore" /\ Exists(Restoring(cur)) /\ ~Readable /\ UNCHANGED faults
       \/ pc = "putBack" /\ Fault("rename")
       \/ /\ pc = "putBack" /\ UNCHANGED faults
          /\ IF Style = "flk" THEN FreeNames(item) = {} ELSE Exists(Item(item))
    /\ Go("abort") /\ UNCHANGED <<fs, journal>>

(* The error path: UnlockOperation keeps the entry when the work folder *)
(* could not be deleted, export removes it all the same.                *)
AbortUnlock ==
    /\ pc = "abort"
    /\ \/ Gone(Restoring(cur)) /\ Go("abortForget")
       \/ Stuck(Restoring(cur)) /\ Style = "flkd" /\ Go("abortForget")
       \/ Stuck(Restoring(cur)) /\ Style = "flk" /\ Answer("failed")
    /\ UNCHANGED journal

AbortForget ==
    /\ pc = "abortForget"
    /\ Forget(cur) \/ ForgetFails
    /\ Answer("failed") /\ UNCHANGED fs

(* Mutant: the entry of an unlock gets the phase of a lock. *)
SaveRestoredVerified ==
    /\ pc = "restored"
    /\ Save(cur, [journal[cur] EXCEPT !.phase = "verified", !.item = item])
    /\ Go("deleteVault") /\ UNCHANGED fs

SaveRestored ==
    /\ pc = "restored"
    /\ \/ Save(cur, [journal[cur] EXCEPT !.phase = "committed", !.item = item])
       \/ SaveFails
    /\ Go(IF Style = "flk" THEN "deleteWork" ELSE "deleteVault") /\ UNCHANGED fs

DeleteWork ==
    /\ pc = "deleteWork"
    /\ \/ Gone(Restoring(cur)) /\ clean' = clean
       \/ Stuck(Restoring(cur)) /\ clean' = FALSE
    /\ pc' = "deleteVault"
    /\ UNCHANGED <<journal, cur, item, vault, scanned, todo, next, reply, env>>

DeleteVault ==
    /\ pc = "deleteVault"
    /\ \/ Gone(Vault(vault)) /\ clean /\ Go("closeUnlock")
       \/ Gone(Vault(vault)) /\ ~clean /\ Answer("ok")
       \/ Stuck(Vault(vault)) /\ Answer("ok")
    /\ UNCHANGED journal

ForgetUnlock ==
    /\ pc = "closeUnlock"
    /\ \/ Forget(cur) /\ Answer("ok")
       \/ ForgetFails /\ Answer("failed")
    /\ UNCHANGED fs

-----------------------------------------------------------------------------
(* Stopping, starting, and startup recovery (JournalRecovery). *)

Stop ==
    /\ pc' = "down" /\ reply' = "none" /\ todo' = {}
    /\ Cleared
    /\ UNCHANGED <<fs, journal, next, env>>

Crash == pc # "down" /\ Fault("crash") /\ Stop
Quit  == pc = "idle" /\ UNCHANGED faults /\ Stop

Start ==
    /\ pc = "down"
    /\ pc' = "pick" /\ todo' = Pending
    /\ UNCHANGED <<fs, journal, memory, next, reply, faults, env>>

Recovered ==
    /\ pc = "pick" /\ todo = {}
    /\ pc' = "idle"
    /\ UNCHANGED <<fs, journal, memory, todo, next, reply, faults, env>>

(* Mutant: recovery trusts any vault file it finds, whatever the phase. *)
VaultReadyByFile(o) == Exists(Vault(journal[o].vault)) \/ Exists(Partial(o))

(* The vault of an interrupted lock counts as complete. *)
VaultReady(o) ==
    LET e == journal[o]
    IN  \/ e.phase = "committed"
        \/ e.phase = "verified" /\ (Exists(Vault(e.vault)) \/ Exists(Partial(o)))

(* Mutant: recovery trusts anything it finds under the item's name. *)
RestoreReadyByFile(o) == Exists(Item(journal[o].item))

(* Mutant: recovery trusts a work folder it finds, whatever the phase. *)
RestoreReadyByWork(o) == journal[o].phase = "committed" \/ Exists(Restoring(o))

(* The files of an interrupted unlock count as restored. *)
RestoreReady(o) == journal[o].phase = "committed" /\ Exists(Item(journal[o].item))

(* The oldest entry is looked at; its kind and phase and what is on the *)
(* disk decide between finishing and rolling back.                      *)
Pick ==
    /\ pc = "pick"
    /\ \E o \in todo :
         LET e == journal[o]
         IN  /\ \A q \in todo : o <= q
             /\ cur' = o /\ item' = e.item /\ vault' = e.vault
             /\ todo' = todo \ {o}
             /\ pc' = IF e.kind = "lock"
                      THEN IF VaultReady(o) THEN "rPlace" ELSE "rUnstage"
                      ELSE IF RestoreReady(o) THEN "rDeleteVault" ELSE "rAbort"
    /\ UNCHANGED <<fs, journal, scanned, clean, next, reply, faults, env>>

(* A failed entry stays and the next one is looked at. *)
Skip ==
    /\ pc' = "pick" /\ cur' = 0 /\ item' = NoName /\ vault' = NoName
    /\ UNCHANGED <<scanned, clean, todo, next, reply, env>>

RPlace ==
    /\ pc = "rPlace"
    /\ IF Exists(Partial(cur)) /\ ~Exists(Vault(vault))
       THEN \/ Rename(Partial(cur), Vault(vault)) /\ Go("rDeleteStaged")
            \/ Fault("rename") /\ UNCHANGED fs /\ Skip
       ELSE Go("rDeleteStaged") /\ UNCHANGED <<fs, faults>>
    /\ UNCHANGED journal

RDelete(step, p, then) ==
    /\ pc = step
    /\ \/ Gone(p) /\ Go(then)
       \/ Stuck(p) /\ Skip
    /\ UNCHANGED journal

RDeleteStaged == RDelete("rDeleteStaged", Staged(cur), "rCompleted")

RUnstage ==
    /\ pc = "rUnstage"
    /\ IF Exists(Staged(cur))
       THEN \/ \E m \in FreeNames(item) :
                 Rename(Staged(cur), Item(m)) /\ Go("rDeletePartial")
            \/ FreeNames(item) = {} /\ UNCHANGED <<fs, faults>> /\ Skip
            \/ Fault("rename") /\ UNCHANGED fs /\ Skip
       ELSE Go("rDeletePartial") /\ UNCHANGED <<fs, faults>>
    /\ UNCHANGED journal

(* Mutant: the rollback of recovery forgets the partial vault. *)
RKeepPartial ==
    /\ pc = "rDeletePartial"
    /\ Go("rRolledBack") /\ UNCHANGED <<fs, journal, faults>>

RDeletePartial == RDelete("rDeletePartial", Partial(cur), "rRolledBack")
RDeleteVault   == RDelete("rDeleteVault", Vault(vault), "rDeleteWork")
RDeleteWork    == RDelete("rDeleteWork", Restoring(cur), "rCompleted")
RAbort         == RDelete("rAbort", Restoring(cur), "rRolledBack")

(* Mutant: the entry of a recovered operation stays. *)
RForgetNever ==
    /\ pc \in {"rCompleted", "rRolledBack"}
    /\ Skip /\ UNCHANGED <<fs, journal, faults>>

RForget ==
    /\ pc \in {"rCompleted", "rRolledBack"}
    /\ Forget(cur) \/ ForgetFails
    /\ Skip /\ UNCHANGED fs

(* The path deleteTree is working on. *)
Deleting ==
    CASE pc \in {"deleteStaged", "rDeleteStaged"}           -> Staged(cur)
      [] pc \in {"backPartial", "rDeletePartial"}           -> Partial(cur)
      [] pc \in {"deleteVault", "rDeleteVault"}             -> Vault(vault)
      [] OTHER                                              -> Restoring(cur)

DeleteChild ==
    /\ pc \in {"deleteStaged", "rDeleteStaged", "backPartial", "rDeletePartial",
               "deleteVault", "rDeleteVault", "abort", "deleteWork", "rDeleteWork", "rAbort"}
    /\ Tear(Deleting)
    /\ UNCHANGED <<journal, pc, memory, todo, next, reply, faults, env>>

-----------------------------------------------------------------------------
(* The user and other programs: a new file or folder, a vault copied from *)
(* elsewhere, a file or folder given another name.                        *)

Act(kind) == kind \in Acts /\ acts < MaxActs /\ acts' = acts + 1

Create(d, p, c) ==
    /\ d \notin owned /\ ~Exists(p)
    /\ fs' = [fs EXCEPT ![p] = c]
    /\ owned' = owned \cup {d}

CreateItem(d, n)     == Act("item") /\ Create(d, Item(n), Plain(d))
CreateVault(d, n) == Act("vault") /\ Create(d, Vault(n), Sealed(d))

Move(p, q) ==
    /\ Exists(p) /\ ~Exists(q)
    /\ fs' = [fs EXCEPT ![p] = None, ![q] = fs[p]]
    /\ UNCHANGED owned

MoveItem(n, m)  == Act("moveItem") /\ Move(Item(n), Item(m))
MoveVault(n, m) == Act("moveVault") /\ Move(Vault(n), Vault(m))

(* The user adds files to a folder: its data becomes e. *)
Edit(n, e) ==
    /\ Act("edit")
    /\ fs[Item(n)].whole /\ e \notin owned
    /\ <<fs[Item(n)].data, e>> \in Grown
    /\ fs' = [fs EXCEPT ![Item(n)].data = e]
    /\ owned' = (owned \ {fs[Item(n)].data}) \cup {e}

Others ==
    /\ \/ \E d \in Data, n \in Names : CreateItem(d, n)
       \/ \E d \in Data, n \in Names : CreateVault(d, n)
       \/ \E e \in Data, n \in Names : Edit(n, e)
       \/ \E n, m \in Names : MoveItem(n, m) \/ MoveVault(n, m)
    /\ UNCHANGED <<journal, pc, memory, todo, next, reply, faults>>

-----------------------------------------------------------------------------
Request ==
    \/ \E n, v \in Names : StartLock(n, v)
    \/ \E n, v \in Names : StartUnlock(n, v)

Running ==
    \/ Stage \/ StageFails \/ WritePart \/ WriteAll \/ SaveVerified \/ Place \/ LockFails
    \/ SaveCommitted \/ DeleteStaged \/ ForgetLock
    \/ BackPartial \/ BackItem \/ BackForget
    \/ RestorePart \/ RestoreAll \/ PutBack \/ UnlockFails \/ AbortUnlock \/ AbortForget
    \/ SaveRestored \/ DeleteWork \/ DeleteVault \/ ForgetUnlock

Recovery ==
    \/ Recovered \/ Pick \/ RPlace \/ RDeleteStaged \/ RUnstage \/ RDeletePartial
    \/ RDeleteVault \/ RDeleteWork \/ RAbort \/ RForget

Next == Request \/ Running \/ DeleteChild \/ Recovery \/ Crash \/ Quit \/ Start \/ Others

Spec == Init /\ [][Next]_vars

(* The app runs what it has begun; the user stops and starts it again and *)
(* again.  Neither requests nor what others do is ever promised.          *)
FairSpec ==
    /\ Spec
    /\ WF_vars(Running \/ Recovery)
    /\ WF_vars(Quit) /\ WF_vars(Start)

-----------------------------------------------------------------------------
(* Properties. *)

(* A whole copy of d at an item name, at a vault name, or renamed away by a  *)
(* lock whose entry is still in the journal (startup recovery brings it      *)
(* back).  A copy under a partial or a work name would not count: it is      *)
(* deleted as a matter of course.                                            *)
Kept(d) ==
    \E p \in Paths :
        /\ fs[p].data = d /\ fs[p].whole
        /\ \/ p[1] \in {"item", "vault"}
           \/ p[1] = "locking" /\ journal[p[2]].kind = "lock"

(* No data is ever lost: through every lock, unlock, error, rollback, crash *)
(* and recovery, all of the user's data has a whole copy the user or the    *)
(* app can still reach.                                                     *)
NoDataLoss == \A d \in owned : Kept(d)

(* An original is deleted last: while a lock or its recovery deletes it, a *)
(* complete vault with the same data has the vault's final name.           *)
OriginalDeletedLast ==
    pc \in {"deleteStaged", "rDeleteStaged"} /\ Exists(Staged(cur)) =>
        /\ fs[Vault(vault)].whole
        /\ fs[Vault(vault)].data = fs[Staged(cur)].data

(* A vault is deleted last: while an unlock or its recovery deletes it, all *)
(* it holds is restored under some item name.                               *)
VaultDeletedLast ==
    pc \in {"deleteVault", "rDeleteVault"} /\ Exists(Vault(vault)) =>
        \E n \in Names : fs[Item(n)].whole /\ fs[Item(n)].data = fs[Vault(vault)].data

(* Decrypted files never stay where nobody looks: a staged original or a  *)
(* work folder with data in it always has a journal entry, so that the    *)
(* next start deals with it.                                              *)
NoStrayPlaintext ==
    \A o \in Ops, p \in Paths :
        p \in {Staged(o), Restoring(o)} /\ fs[p].data # NoData => journal[o].kind # "none"

(* Once the journal is empty and nothing runs, no temporary file is left. *)
Tidy ==
    pc = "idle" /\ Pending = {} =>
        \A o \in Ops : ~Exists(Staged(o)) /\ ~Exists(Partial(o)) /\ ~Exists(Restoring(o))

(* A lock that fails and leaves no journal entry has left the item in place. *)
FailedLockHarmless ==
    [][reply' = "failed" /\ pc' = "idle" /\ pc \in LockSteps \cup RollbackSteps
         => journal'[cur].kind = "lock" \/ fs'[Item(item)].whole]_vars

(* Every interrupted operation is finished or rolled back in the end, if *)
(* the app is started often enough and failures do not go on for ever.   *)
EntriesResolved == \A o \in Ops : journal[o].kind # "none" ~> journal[o].kind = "none"
=============================================================================
