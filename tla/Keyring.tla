------------------------------ MODULE Keyring ------------------------------
(***************************************************************************)
(* Which keys open which vault.                                            *)
(*                                                                         *)
(* Models lib/features/auth/application (the session, the change and reset *)
(* of the master password, the recovery key and its retry), the keys part  *)
(* of lib/features/items/application (relock_keys, item_key_cache,         *)
(* protection_controller) and the two operations that rewrite key slots    *)
(* (lib/engine/operations/{rekey,reseal}_operation.dart).  The app is one  *)
(* thread of callbacks: every await is a point where others get a turn,    *)
(* and the slots of a vault are read and rewritten in other isolates.      *)
(*                                                                         *)
(* A password or recovery key is the number of its generation: what        *)
(* matters of a key slot is which generation opens it.  An item's own      *)
(* password is always generation 1.                                        *)
(***************************************************************************)
EXTENDS Integers, FiniteSets, Sequences

CONSTANTS
    Items,        \* protected files and folders (method "encrypt")
    Own,          \* the ones with their own password
    NoItem,       \* no item
    MaxPasswords, \* bound: master passwords
    MaxRecovery,  \* bound: recovery keys
    Overlap,      \* which flows may meet: "a-b" allows b to begin or happen during a
    Faults,       \* "crash", "vault" (one cannot be reached), "save" (of the keystore)
    MaxFaults     \* bound: failures and crashes

ASSUME ItemAssumption == Own \subseteq Items /\ NoItem \notin Items
ASSUME BoundAssumption ==
    /\ MaxPasswords \in Nat \ {0}
    /\ MaxRecovery \in Nat \ {0}
    /\ MaxFaults \in Nat
ASSUME ChoiceAssumption ==
    /\ Overlap \subseteq {"change-item", "change-lock", "activate-item", "activate-lock",
                          "reseal-item", "reseal-change", "reseal-activate"}
    /\ Faults \subseteq {"crash", "vault", "save"}

Masters   == Items \ Own
Passwords == 1..MaxPasswords
Recovery  == 1..MaxRecovery

-----------------------------------------------------------------------------
VARIABLES
    stored,    \* keystore.json
    vaults,    \* the slots of each item's vault, on the disk
    relock,    \* the keys made ahead for each item's next vault, on the disk
    locked,    \* items listed as locked
    flagged,   \* items listed with needsPassword
    keystore,  \* the keystore in memory
    masterKey, \* the session's master key (0: the app is locked)
    cache,     \* the key remembered for each item (0: none)
    change,    \* the password change or reset under way
    reseal,    \* the update of the vaults to the recovery key under way
    activate,  \* the activation of a new recovery key under way
    op,        \* the lock or unlock under way
    saving,    \* the flows whose keystore waits to be written, in order
    made,      \* the latest master password and recovery key made
    faults     \* failures so far

lists   == <<vaults, relock, locked, flagged>>
session == <<keystore, masterKey, cache>>
flows   == <<change, reseal, activate, saving>>
vars    == <<stored, vaults, relock, locked, flagged, keystore, masterKey, cache,
             change, reseal, activate, op, saving, made, faults>>

\* A keystore, and the slots of a vault and of keys made ahead; used says that
\* a vault has been written with these keys.
Keystore   == [pwd : Passwords, rec : Recovery, pending : BOOLEAN]
NoKeystore == [pwd |-> 0, rec |-> 0, pending |-> FALSE]
Slots      == [pwd : Passwords, rec : Recovery]
NoSlots    == [pwd |-> 0, rec |-> 0]
Prepared   == [pwd : Passwords, rec : Recovery, used : BOOLEAN]
NoKeys     == [pwd |-> 0, rec |-> 0, used |-> FALSE]

\* The flows, with what each has in its local variables.
NoChange   == [pc |-> "idle", base |-> NoKeystore, new |-> 0, by |-> "key", key |-> 0,
               wiped |-> FALSE, all |-> {}, todo |-> {}, missed |-> {},
               item |-> NoItem, read |-> NoSlots]
NoReseal   == [pc |-> "idle", by |-> "window", rec |-> 0, keys |-> [i \in Items |-> 0],
               to |-> NoKeystore, todo |-> {}, missed |-> {},
               item |-> NoItem, read |-> NoSlots]
NoActivate == [pc |-> "idle", to |-> NoKeystore]
NoOp       == [kind |-> "none", item |-> NoItem, prepared |-> FALSE, slots |-> NoSlots,
               current |-> FALSE, typed |-> 0, written |-> FALSE]

Init ==
    /\ stored = [pwd |-> 1, rec |-> 1, pending |-> FALSE]
    /\ locked \in SUBSET Items
    /\ vaults = [i \in Items |-> IF i \in locked THEN [pwd |-> 1, rec |-> 1] ELSE NoSlots]
    /\ relock = [i \in Items |-> NoKeys]
    /\ flagged = {}
    /\ keystore = stored
    /\ masterKey = 1
    /\ cache = [i \in Items |-> 0]
    /\ change = NoChange /\ reseal = NoReseal /\ activate = NoActivate
    /\ op = NoOp
    /\ saving = <<>>
    /\ made = [pwd |-> 1, rec |-> 1]
    /\ faults = 0

Fault(kind) == kind \in Faults /\ faults < MaxFaults /\ faults' = faults + 1
NoFault     == UNCHANGED faults

Unlocked    == masterKey # 0
HasVault(i) == vaults[i] # NoSlots
HasKeys(i)  == relock[i] # NoKeys

\* Flow begins while the other is under way only where that is allowed.
Idle(flow)       == flow.pc = "idle"
Alone(flow, how) == Idle(flow) \/ how \in Overlap

\* The dialog of an activation stays open until its update is over; an update
\* that began with the window runs behind everything else.
BehindOnly(how) == Idle(reseal) \/ (reseal.by = "window" /\ how \in Overlap)

-----------------------------------------------------------------------------
(* Keys at hand. *)

\* The key that opens an item without asking, with that master key and those
\* items flagged.
SessionCredential(i, key, flags) ==
    IF cache[i] # 0 THEN cache[i]
    ELSE IF i \in Masters \ flags THEN key
    ELSE 0

\* The key for an item's next vault, with remembered keys c.
KeyFor(i, c) == IF i \in Masters /\ Unlocked THEN masterKey ELSE c[i]

\* Whether a vault with that key opens with the current password.
Current(i, key) == i \in Masters => key = keystore.pwd

\* RelockKeys.update, for the master password or the recovery key.
WithPasswordAll(pwd) ==
    [i \in Items |-> IF i \in Masters THEN [relock[i] EXCEPT !.pwd = pwd] ELSE relock[i]]
WithPassword(pwd) ==
    [i \in Items |-> IF HasKeys(i) /\ i \in Masters THEN [relock[i] EXCEPT !.pwd = pwd]
                     ELSE relock[i]]
WithRecoveryNot(keys, rec) == keys
WithRecovery(keys, rec) ==
    [i \in Items |-> IF keys[i] = NoKeys THEN NoKeys ELSE [keys[i] EXCEPT !.rec = rec]]

-----------------------------------------------------------------------------
(* Locking and unlocking an item: with which keys, and what becomes of     *)
(* them.  How it is done on the disk is VaultJournal's subject.  The       *)
(* progress overlay keeps the user from starting anything else meanwhile;  *)
(* watchers and Explorer may start it while another flow is under way.     *)

OpMayStart ==
    /\ op = NoOp
    /\ Alone(change, "change-item")
    /\ Alone(activate, "activate-item")
    /\ Alone(reseal, "reseal-item")

\* A master password typed to lock an item while the app is locked.
RememberMasterKey(i) ==
    /\ OpMayStart
    /\ i \in Masters \ locked /\ ~Unlocked /\ cache[i] = 0 /\ ~HasKeys(i)
    /\ cache' = [cache EXCEPT ![i] = keystore.pwd]
    /\ UNCHANGED <<stored, lists, keystore, masterKey, flows, op, made, faults>>

\* With a key at hand, or a custom password typed now (typed = 1).
LockWithKey(i) ==
    \E typed \in {0, 1} :
       /\ IF typed = 0 THEN KeyFor(i, cache) # 0
          ELSE i \in Own /\ cache[i] = 0 /\ ~HasKeys(i)
       /\ op' = [NoOp EXCEPT !.kind = "lock", !.item = i, !.typed = typed,
                    !.slots = [pwd |-> IF typed = 0 THEN KeyFor(i, cache) ELSE typed,
                               rec |-> keystore.rec],
                    !.current = Current(i, KeyFor(i, cache))]

\* With the keys made when it was unlocked.
LockPrepared(i) ==
    /\ KeyFor(i, cache) = 0 /\ HasKeys(i)
    /\ op' = [NoOp EXCEPT !.kind = "lock", !.item = i, !.prepared = TRUE,
                 !.slots = [pwd |-> relock[i].pwd, rec |-> relock[i].rec]]

StartLock(i) ==
    /\ OpMayStart
    /\ i \notin locked
    /\ LockWithKey(i) \/ LockPrepared(i)
    /\ UNCHANGED <<stored, lists, session, flows, made, faults>>

\* The lock begins to write with its keys; from now on they are used.
WriteVault ==
    /\ op.kind = "lock" /\ ~op.written
    /\ op' = [op EXCEPT !.written = TRUE]
    /\ relock' = IF op.prepared THEN [relock EXCEPT ![op.item].used = TRUE] ELSE relock
    /\ UNCHANGED <<stored, vaults, locked, flagged, session, flows, made, faults>>

\* The vault is in place, the keys made ahead are dropped, the item is listed.
LockDone ==
    LET i == op.item
        current == IF op.prepared THEN Current(i, op.slots.pwd) ELSE op.current
    IN /\ op.kind = "lock" /\ op.written
       /\ vaults'  = [vaults EXCEPT ![i] = op.slots]
       /\ relock'  = [relock EXCEPT ![i] = NoKeys]
       /\ locked'  = locked \cup {i}
       /\ flagged' = IF current THEN flagged \ {i} ELSE flagged \cup {i}
       /\ cache'   = IF op.typed # 0 THEN [cache EXCEPT ![i] = op.typed] ELSE cache
       /\ op' = NoOp
       /\ UNCHANGED <<stored, keystore, masterKey, flows, made, faults>>

LockFailsKeepingKeys ==
    /\ op.kind = "lock"
    /\ op' = NoOp
    /\ UNCHANGED <<stored, lists, session, flows, made, faults>>

\* Cancelled or failed, and rolled back; keys made ahead that were used are dropped.
LockFails ==
    /\ op.kind = "lock"
    /\ relock' = IF op.prepared /\ op.written THEN [relock EXCEPT ![op.item] = NoKeys]
                 ELSE relock
    /\ op' = NoOp
    /\ UNCHANGED <<stored, vaults, locked, flagged, session, flows, made, faults>>

\* Opened by a typed password, which is then remembered, or (typed = 0) by a
\* key of the session or the recovery key, which are not.
StartUnlock(i) ==
    /\ OpMayStart
    /\ i \in locked /\ HasVault(i)
    /\ \E typed \in {0, vaults[i].pwd} :
         op' = [NoOp EXCEPT !.kind = "unlock", !.item = i, !.typed = typed]
    /\ UNCHANGED <<stored, lists, session, flows, made, faults>>

\* The slots of the vault are not being rewritten at this very moment: a
\* rewrite is two short accesses to a file.
NotRewritten(i) == change.item # i /\ reseal.item # i

\* The vault is gone; keys for the next one are made if a current one is at hand.
UnlockDone ==
    LET i   == op.item
        c   == IF op.typed # 0 THEN [cache EXCEPT ![i] = op.typed] ELSE cache
        key == KeyFor(i, c)
    IN /\ op.kind = "unlock" /\ NotRewritten(i)
       /\ cache' = c
       /\ relock' = IF key = 0 \/ ~Current(i, key) THEN relock
                    ELSE [relock EXCEPT ![i] = [pwd |-> key, rec |-> keystore.rec,
                                                used |-> FALSE]]
       /\ vaults' = [vaults EXCEPT ![i] = NoSlots]
       /\ locked' = locked \ {i}
       /\ flagged' = flagged \ {i}
       /\ op' = NoOp
       /\ UNCHANGED <<stored, keystore, masterKey, flows, made, faults>>

UnlockFails ==
    /\ op.kind = "unlock"
    /\ op' = NoOp
    /\ UNCHANGED <<stored, lists, session, flows, made, faults>>

-----------------------------------------------------------------------------
(* Rewriting slots.  A flow reads the slots of a vault of its list, and    *)
(* then writes the other slot area with what it read and its own change:   *)
(* a write replaces all slots.                                             *)

Reads(flow, i) == flow.pc = "vaults" /\ flow.item = NoItem /\ i \in flow.todo

AtNext(flow, i) == [flow EXCEPT !.item = i, !.todo = @ \ {i}, !.read = vaults[i]]
Missed(flow, i) == [flow EXCEPT !.todo = @ \ {i}, !.missed = @ \cup {i}]
AtWrote(flow)   == [flow EXCEPT !.item = NoItem, !.read = NoSlots]
AtEnd(flow)     == flow.pc = "vaults" /\ flow.todo = {} /\ flow.item = NoItem

(* Saves of the keystore are queued (JsonFileStore), each with what was to *)
(* be saved when it was asked for; a flow goes on once its own is written. *)

Queue(flow)   == saving' = Append(saving, flow)
Written(flow) == saving # <<>> /\ Head(saving) = flow /\ saving' = Tail(saving)

-----------------------------------------------------------------------------
(* The update of the vaults to the current recovery key.                   *)

\* It first gives the keys made ahead the current recovery key.  Vaults and
\* keys are those of the moment it begins.
BeginReseal(by, ks, key, keys, flags) ==
    /\ relock' = WithRecovery(keys, ks.rec)
    /\ reseal' = [NoReseal EXCEPT !.pc = "vaults", !.by = by, !.rec = ks.rec,
                     !.todo = {i \in Items : HasVault(i)},
                     !.keys = [i \in Items |-> SessionCredential(i, key, flags)]]

\* The window opens when the app is unlocked, and begins it if it is pending.
WindowOpensOnly(ks, key, keys, flags) == relock' = keys /\ UNCHANGED reseal

WindowOpens(ks, key, keys, flags) ==
    IF ~Unlocked /\ ks.pending /\ Idle(reseal)
      THEN BeginReseal("window", ks, key, keys, flags)
      ELSE relock' = keys /\ UNCHANGED reseal

\* A vault that is current already needs no key.
ResealCurrent(i) ==
    /\ Reads(reseal, i)
    /\ vaults[i].rec = reseal.rec
    /\ reseal' = [reseal EXCEPT !.todo = @ \ {i}]
    /\ UNCHANGED <<stored, lists, session, change, activate, op, saving, made, faults>>

ResealOpens(i) == HasVault(i) /\ vaults[i].pwd = reseal.keys[i]

ResealRead(i) ==
    /\ Reads(reseal, i)
    /\ vaults[i].rec # reseal.rec /\ ResealOpens(i)
    /\ reseal' = AtNext(reseal, i)
    /\ UNCHANGED <<stored, lists, session, change, activate, op, saving, made, faults>>

ResealMissed(i) ==
    /\ Reads(reseal, i)
    /\ \/ vaults[i].rec # reseal.rec /\ ~ResealOpens(i) /\ NoFault
       \/ Fault("vault")
    /\ reseal' = Missed(reseal, i)
    /\ UNCHANGED <<stored, lists, session, change, activate, op, saving, made>>

ResealWrite ==
    /\ reseal.item # NoItem
    /\ vaults' = [vaults EXCEPT ![reseal.item] = [reseal.read EXCEPT !.rec = reseal.rec]]
    /\ reseal' = AtWrote(reseal)
    /\ UNCHANGED <<stored, relock, locked, flagged, session, change, activate, op, saving,
                   made, faults>>

\* The flag is set anew, in the keystore of this moment, unless there is a
\* newer recovery key or the flag is right.
ResealEnds ==
    LET to == [keystore EXCEPT !.pending = (reseal.missed # {})]
    IN /\ AtEnd(reseal)
       /\ IF keystore.rec # reseal.rec \/ to = keystore
            THEN reseal' = NoReseal /\ UNCHANGED saving
            ELSE /\ reseal' = [NoReseal EXCEPT !.pc = "save", !.by = reseal.by, !.to = to]
                 /\ Queue("reseal")
       /\ UNCHANGED <<stored, lists, session, change, activate, op, made, faults>>

SavePending ==
    /\ Written("reseal")
    /\ stored' = reseal.to
    /\ keystore' = reseal.to
    /\ reseal' = NoReseal
    /\ UNCHANGED <<lists, masterKey, cache, change, activate, op, made, faults>>

PendingNotSaved ==
    /\ Written("reseal") /\ Fault("save")
    /\ reseal' = NoReseal
    /\ UNCHANGED <<stored, lists, session, change, activate, op, made>>

-----------------------------------------------------------------------------
(* A new recovery key: saved first, marked pending; then the vaults.       *)

Activate ==
    /\ Unlocked /\ Idle(activate) /\ Idle(change) /\ op = NoOp
    /\ BehindOnly("reseal-activate")
    /\ made.rec < MaxRecovery
    /\ made' = [made EXCEPT !.rec = @ + 1]
    /\ activate' = [pc |-> "save",
                    to |-> [keystore EXCEPT !.rec = made.rec + 1, !.pending = TRUE]]
    /\ Queue("activate")
    /\ UNCHANGED <<stored, lists, session, change, reseal, op, faults>>

SaveRecoveryKeyOnDisk ==
    /\ Written("activate")
    /\ stored' = activate.to
    /\ activate' = NoActivate
    /\ UNCHANGED <<lists, session, change, reseal, op, made, faults>>

\* Then updateVaults, unless the app locked or one is already under way.
SaveRecoveryKey ==
    /\ Written("activate")
    /\ stored' = activate.to
    /\ keystore' = activate.to
    /\ IF Unlocked /\ Idle(reseal)
         THEN BeginReseal("dialog", activate.to, masterKey, relock, flagged)
         ELSE UNCHANGED <<reseal, relock>>
    /\ activate' = NoActivate
    /\ UNCHANGED <<vaults, locked, flagged, masterKey, cache, change, op, made, faults>>

RecoveryKeyNotSaved ==
    /\ Written("activate") /\ Fault("save")
    /\ activate' = NoActivate
    /\ UNCHANGED <<stored, lists, session, change, reseal, op, made>>

-----------------------------------------------------------------------------
(* A new master password: changed with the session's key, or reset with    *)
(* the recovery key.  The keystore is saved first, then the vaults.        *)

StartChange(by, key) ==
    /\ Idle(change) /\ Idle(activate) /\ op = NoOp
    /\ BehindOnly("reseal-change")
    /\ made.pwd < MaxPasswords
    /\ made' = [made EXCEPT !.pwd = @ + 1]
    /\ change' = LET all == {i \in Masters : HasVault(i)}
                 IN [NoChange EXCEPT !.pc = "derive", !.base = keystore, !.new = made.pwd + 1,
                        !.by = by, !.key = key, !.all = all, !.todo = all]
    /\ UNCHANGED <<stored, lists, session, reseal, activate, saving, op, faults>>

ChangePassword       == Unlocked /\ StartChange("key", masterKey)
ResetWithRecoveryKey == ~Unlocked /\ StartChange("recovery", keystore.rec)

DerivedUnsaved ==
    /\ change.pc = "derive"
    /\ change' = [change EXCEPT !.pc = "vaults"]
    /\ UNCHANGED <<stored, lists, session, reseal, activate, saving, op, made, faults>>

\* The new key is derived; what gets saved comes from the keystore of before.
Derived ==
    /\ change.pc = "derive"
    /\ change' = [change EXCEPT !.pc = "save"]
    /\ Queue("change")
    /\ UNCHANGED <<stored, lists, session, reseal, activate, op, made, faults>>

NewKeystore == [change.base EXCEPT !.pwd = change.new]

\* The credential is then copied for the isolate that rewrites the vaults.  A
\* key the session wiped meanwhile cannot be: the change ends by an exception.
SaveChange ==
    /\ Written("change")
    /\ stored' = NewKeystore
    /\ change' = IF change.wiped /\ change.all # {} THEN NoChange
                 ELSE [change EXCEPT !.pc = "vaults"]
    /\ UNCHANGED <<lists, session, reseal, activate, op, made, faults>>

ChangeNotSavedGoesOn ==
    /\ Written("change") /\ Fault("save")
    /\ change' = [change EXCEPT !.pc = "vaults"]
    /\ UNCHANGED <<stored, lists, session, reseal, activate, op, made>>

ChangeNotSaved ==
    /\ Written("change") /\ Fault("save")
    /\ change' = NoChange
    /\ UNCHANGED <<stored, lists, session, reseal, activate, op, made>>

RekeyOpens(i) ==
    /\ HasVault(i)
    /\ change.key = IF change.by = "key" THEN vaults[i].pwd ELSE vaults[i].rec

RekeyRead(i) ==
    /\ Reads(change, i)
    /\ RekeyOpens(i)
    /\ change' = AtNext(change, i)
    /\ UNCHANGED <<stored, lists, session, reseal, activate, op, saving, made, faults>>

RekeyMissed(i) ==
    /\ Reads(change, i)
    /\ (~RekeyOpens(i) /\ NoFault) \/ Fault("vault")
    /\ change' = Missed(change, i)
    /\ UNCHANGED <<stored, lists, session, reseal, activate, op, saving, made>>

RekeyWrite ==
    /\ change.item # NoItem
    /\ vaults' = [vaults EXCEPT ![change.item] = [change.read EXCEPT !.pwd = change.new]]
    /\ change' = AtWrote(change)
    /\ UNCHANGED <<stored, relock, locked, flagged, session, reseal, activate, op, saving,
                   made, faults>>

FinishChangeUnflagged ==
    /\ AtEnd(change)
    /\ keystore' = NewKeystore
    /\ masterKey' = change.new
    /\ flagged' = flagged \ {i \in change.all : HasVault(i)}
    /\ WindowOpens(NewKeystore, change.new, WithPassword(change.new), flagged)
    /\ change' = NoChange
    /\ UNCHANGED <<stored, vaults, locked, cache, activate, op, saving, made, faults>>

\* The session goes on with the new keystore and key, whatever they were
\* meanwhile; keys made ahead get the new password; vaults that were not
\* updated are flagged.  That is saved before the others' flags go: a window
\* that opens may see either.
FinishChange ==
    LET missed  == {i \in change.missed : HasVault(i)}
        updated == {i \in change.all \ change.missed : HasVault(i)}
    IN /\ AtEnd(change)
       /\ keystore' = NewKeystore
       /\ masterKey' = change.new
       /\ flagged' = (flagged \ updated) \cup missed
       /\ \E flags \in {flagged \cup missed, flagged'} :
             WindowOpens(NewKeystore, change.new, WithPassword(change.new), flags)
       /\ change' = NoChange
       /\ UNCHANGED <<stored, vaults, locked, cache, activate, op, saving, made, faults>>

-----------------------------------------------------------------------------
(* The session, and the end of the app.                                    *)

\* The typed password is checked against the keystore in memory.
Unlock ==
    /\ ~Unlocked /\ Idle(change) /\ op = NoOp
    /\ masterKey' = keystore.pwd
    /\ WindowOpens(keystore, keystore.pwd, relock, flagged)
    /\ UNCHANGED <<stored, vaults, locked, flagged, keystore, cache, change, activate, op,
                   saving, made, faults>>

\* By the user, or by the clock.  Keys are wiped, also where they are in use.
Lock ==
    /\ Unlocked /\ Alone(change, "change-lock") /\ Alone(activate, "activate-lock")
    /\ masterKey' = 0
    /\ cache' = [i \in Items |-> 0]
    /\ change' = IF change.by = "key" /\ change.pc \in {"derive", "save"}
                   THEN [change EXCEPT !.wiped = TRUE]
                 ELSE change
    /\ UNCHANGED <<stored, lists, keystore, reseal, activate, op, saving, made, faults>>

\* What recovery makes of an operation the app stopped in: completed or rolled
\* back, and the list follows.  Flags and keys made ahead stay as they were.
Interrupted ==
    \/ UNCHANGED <<vaults, locked>>
    \/ /\ op.kind = "lock" /\ op.written
       /\ vaults' = [vaults EXCEPT ![op.item] = op.slots]
       /\ locked' = locked \cup {op.item}
    \/ /\ op.kind = "unlock" /\ NotRewritten(op.item)
       /\ vaults' = [vaults EXCEPT ![op.item] = NoSlots]
       /\ locked' = locked \ {op.item}

\* The app stops and is started again.
Crash ==
    /\ Fault("crash")
    /\ Interrupted
    /\ keystore' = stored
    /\ masterKey' = 0
    /\ cache' = [i \in Items |-> 0]
    /\ change' = NoChange /\ reseal' = NoReseal /\ activate' = NoActivate
    /\ op' = NoOp
    /\ saving' = <<>>
    /\ UNCHANGED <<stored, relock, flagged, made>>

-----------------------------------------------------------------------------
OpStep == WriteVault \/ LockDone \/ LockFails \/ UnlockDone \/ UnlockFails

ItemStep ==
    \/ \E i \in Items : RememberMasterKey(i) \/ StartLock(i) \/ StartUnlock(i)
    \/ OpStep

ChangeStep ==
    \/ Derived \/ SaveChange \/ ChangeNotSaved
    \/ \E i \in Items : RekeyRead(i) \/ RekeyMissed(i)
    \/ RekeyWrite \/ FinishChange

RecoveryStep ==
    \/ SaveRecoveryKey \/ RecoveryKeyNotSaved
    \/ \E i \in Items : ResealCurrent(i) \/ ResealRead(i) \/ ResealMissed(i)
    \/ ResealWrite \/ ResealEnds \/ SavePending \/ PendingNotSaved

Next ==
    \/ ItemStep
    \/ ChangePassword \/ ResetWithRecoveryKey \/ ChangeStep
    \/ Activate \/ RecoveryStep
    \/ Unlock \/ Lock \/ Crash

Spec == Init /\ [][Next]_vars

(***************************************************************************)
(* A flow under way goes on and an operation ends; the user, or the clock, *)
(* locks the app, and the user unlocks it again and again.                 *)
(***************************************************************************)
Fairness ==
    /\ WF_vars(OpStep) /\ WF_vars(ChangeStep) /\ WF_vars(RecoveryStep)
    /\ WF_vars(Lock) /\ SF_vars(Unlock)

FairSpec == Spec /\ Fairness

-----------------------------------------------------------------------------
(* Type invariant: flows are where their local variables say, and slots    *)
(* and keys hold generations that exist.                                   *)

TypeOK ==
    /\ stored \in Keystore /\ keystore \in Keystore
    /\ vaults \in [Items -> Slots \cup {NoSlots}]
    /\ relock \in [Items -> Prepared \cup {NoKeys}]
    /\ locked \subseteq Items /\ flagged \subseteq Items
    /\ masterKey \in Passwords \cup {0}
    /\ cache \in [Items -> Passwords \cup {0}]
    /\ change \in [pc : {"idle", "derive", "save", "vaults"},
                   base : Keystore \cup {NoKeystore}, new : Passwords \cup {0},
                   by : {"key", "recovery"}, key : Passwords \cup Recovery \cup {0},
                   wiped : BOOLEAN, all : SUBSET Masters, todo : SUBSET Masters,
                   missed : SUBSET Masters, item : Masters \cup {NoItem},
                   read : Slots \cup {NoSlots}]
    /\ reseal \in [pc : {"idle", "vaults", "save"}, by : {"window", "dialog"},
                   rec : Recovery \cup {0}, keys : [Items -> Passwords \cup {0}],
                   to : Keystore \cup {NoKeystore}, todo : SUBSET Items,
                   missed : SUBSET Items, item : Items \cup {NoItem},
                   read : Slots \cup {NoSlots}]
    /\ activate \in [pc : {"idle", "save"}, to : Keystore \cup {NoKeystore}]
    /\ op \in [kind : {"none", "lock", "unlock"}, item : Items \cup {NoItem},
               prepared : BOOLEAN, slots : Slots \cup {NoSlots}, current : BOOLEAN,
               typed : Passwords \cup {0}, written : BOOLEAN]
    /\ saving \in Seq({"change", "activate", "reseal"}) /\ Len(saving) <= 3
    /\ made \in [pwd : Passwords, rec : Recovery]
    /\ faults \in 0..MaxFaults

\* Outside the vaults' part of a change, the app goes by the keystore that is
\* on the disk, and its session's key is that keystore's: what the user types
\* is accepted after a restart if it is accepted now (session_controller.dart).
KeystoreAgrees ==
    change.pc # "vaults" => keystore = stored /\ masterKey \in {0, stored.pwd}

\* A keystore saved never brings back a master password or recovery key that
\* was replaced, whoever saves what it read earlier (auth_service.dart).
NeverBack == [][stored'.pwd >= stored.pwd /\ stored'.rec >= stored.rec]_vars

\* Once a change of the master password is over, the new one opens every item
\* of the master password that is not flagged, those locked before, during and
\* after it with whatever keys included (session_controller.dart:208-212).
NewPasswordOpens ==
    change.pc # "vaults" =>
        \A i \in Masters \ flagged : HasVault(i) => vaults[i].pwd = stored.pwd

\* With the flag clear, every vault, and every vault that will be made with
\* keys made ahead, opens with the current recovery key
\* (recovery_key_service.dart:94-103).
NewRecoveryOpens ==
    ~stored.pending =>
        \A i \in Items : /\ HasVault(i) => vaults[i].rec = stored.rec
                         /\ HasKeys(i) => relock[i].rec = stored.rec

\* No vault has a slot for a password or recovery key that the keystore on the
\* disk does not know yet, or any more: such a vault could be opened by nothing
\* the app accepts (auth_service.dart:157, 196).
SavedFirst ==
    \A i \in Items : vaults[i].pwd <= stored.pwd /\ vaults[i].rec <= stored.rec

\* Keys made ahead are there for one vault: none that a lock has written with
\* is left when the lock is over (protection_controller.dart:873-879).
OneVault ==
    op.kind # "lock" => \A i \in Items : ~relock[i].used

\* The vaults catch up with a new recovery key: the flag clears in the end, or
\* there is a vault still sealed to an old one that only the user can open
\* (home_shell.dart:35-37, recovery_key_service.dart:51-54).
RecoveryCatchesUp ==
    stored.pending ~> \/ ~stored.pending
                      \/ \E i \in Own \cup flagged :
                            HasVault(i) /\ vaults[i].rec # stored.rec
=============================================================================
