---------------------------- MODULE KeyringProofs ----------------------------
(***************************************************************************)
(* What Keyring promises, proved for every set of items and any number of  *)
(* master passwords, recovery keys and failures.                           *)
(***************************************************************************)
EXTENDS Keyring, SequenceTheorems, TLAPS

-------------------------------------------------------------------------------
(* The types, part by part. *)

Changes == [pc : {"idle", "derive", "save", "vaults"},
            base : Keystore \cup {NoKeystore}, new : Passwords \cup {0},
            by : {"key", "recovery"}, key : Passwords \cup Recovery \cup {0},
            wiped : BOOLEAN, all : SUBSET Masters, todo : SUBSET Masters,
            missed : SUBSET Masters, item : Masters \cup {NoItem},
            read : Slots \cup {NoSlots}]
Reseals == [pc : {"idle", "vaults", "save"}, by : {"window", "dialog"},
            rec : Recovery \cup {0}, keys : [Items -> Passwords \cup {0}],
            to : Keystore \cup {NoKeystore}, todo : SUBSET Items,
            missed : SUBSET Items, item : Items \cup {NoItem},
            read : Slots \cup {NoSlots}]
Activates == [pc : {"idle", "save"}, to : Keystore \cup {NoKeystore}]
Ops == [kind : {"none", "lock", "unlock"}, item : Items \cup {NoItem},
        prepared : BOOLEAN, slots : Slots \cup {NoSlots}, current : BOOLEAN,
        typed : Passwords \cup {0}, written : BOOLEAN]
Waiting == {"change", "activate", "reseal"}
Relocks == [Items -> Prepared \cup {NoKeys}]

Waits(flow) == \E n \in 1..Len(saving) : saving[n] = flow

SessionTrue ==
    /\ stored \in Keystore /\ keystore \in Keystore
    /\ masterKey \in Passwords \cup {0} /\ cache \in [Items -> Passwords \cup {0}]

ListsTrue ==
    /\ vaults \in [Items -> Slots \cup {NoSlots}] /\ relock \in Relocks
    /\ locked \subseteq Items /\ flagged \subseteq Items

\* A change under way knows the keystore it started from and the new password,
\* and the slots it has read of the vault it is at.
ChangeTrue ==
    /\ change \in Changes
    /\ change.pc # "idle" => change.base \in Keystore /\ change.new \in Passwords
    /\ change.item # NoItem => change.pc = "vaults" /\ change.read \in Slots

ResealTrue ==
    /\ reseal \in Reseals
    /\ reseal.pc = "vaults" => reseal.rec \in Recovery
    /\ reseal.pc = "save" => reseal.to \in Keystore
    /\ reseal.item # NoItem => reseal.pc = "vaults" /\ reseal.read \in Slots

ActivateTrue ==
    /\ activate \in Activates
    /\ activate.pc = "save" => activate.to \in Keystore

\* A lock has the slots it will write; those made ahead it holds are there.
OpTrue ==
    /\ op \in Ops
    /\ op = NoOp \/ (op.kind # "none" /\ op.item \in Items)
    /\ op.kind = "lock" => op.slots \in Slots
    /\ op.kind = "lock" /\ op.prepared => HasKeys(op.item)

\* A flow waits for its save, once, exactly when it says so.
SavingTrue ==
    /\ saving \in Seq(Waiting)
    /\ \A m, n \in 1..Len(saving) : saving[m] = saving[n] => m = n
    /\ Waits("change") <=> change.pc = "save"
    /\ Waits("activate") <=> activate.pc = "save"
    /\ Waits("reseal") <=> reseal.pc = "save"

BoundsTrue == made \in [pwd : Passwords, rec : Recovery] /\ faults \in 0..MaxFaults

TypeInv == /\ SessionTrue /\ ListsTrue /\ ChangeTrue /\ ResealTrue /\ ActivateTrue
           /\ OpTrue /\ SavingTrue /\ BoundsTrue

-------------------------------------------------------------------------------
(* The other inductive invariants. *)

NoCrash == "crash" \notin Faults

\* Keys made ahead are used by the lock under way.
UsedTrue ==
    \A i \in Items : relock[i].used =>
        op.kind = "lock" /\ op.item = i /\ op.prepared /\ op.written

\* No update of the vaults runs beside a change of the password, and the app is
\* not locked during one.
ChangeAlone == Overlap \cap {"reseal-change", "change-lock"} = {}

AgreeInv ==
    /\ KeystoreAgrees
    /\ change.pc # "idle" => Idle(reseal) /\ Idle(activate)
    /\ ~change.wiped
    /\ change.pc \in {"derive", "save"} => change.base = stored
    /\ change.pc = "vaults" => stored = NewKeystore
    /\ activate.pc = "save" => activate.to.pwd = stored.pwd
    /\ reseal.pc = "save" => reseal.to.pwd = stored.pwd

\* Nor does one run beside an activation, nor is the app locked then.
FlowsAlone ==
    Overlap \cap {"reseal-change", "change-lock", "reseal-activate", "activate-lock"} = {}

\* What waits to be saved is newer than what is saved.
NewerInv ==
    /\ stored.pwd <= made.pwd /\ stored.rec <= made.rec
    /\ change.pc \in {"derive", "save"} => stored.pwd < change.new
    /\ change.pc # "idle" => change.new <= made.pwd
    /\ activate.pc = "save" =>
          Unlocked /\ Idle(reseal) /\ stored.rec < activate.to.rec /\ activate.to.rec <= made.rec
    /\ reseal.pc = "save" => reseal.to.rec = stored.rec

\* What will become slots of a vault is no newer than what is saved.
KnownTo(ks, slots) == slots.pwd <= ks.pwd /\ slots.rec <= ks.rec

SlotsInv ==
    /\ \A i \in Items : /\ KnownTo(stored, vaults[i]) /\ KnownTo(stored, relock[i])
                        /\ cache[i] <= stored.pwd
    /\ KnownTo(stored, keystore) /\ masterKey <= stored.pwd
    /\ KnownTo(stored, op.slots) /\ op.typed <= stored.pwd
    /\ KnownTo(stored, change.read)
    /\ KnownTo(stored, reseal.read) /\ reseal.rec <= stored.rec

\* Locking and unlocking an item only meet an update of the vaults.
OpsAlone == Overlap \subseteq {"reseal-item"}

\* The vaults are those of the items that are locked, and what a flow has read
\* of the one it is at is what it has.
VaultsInv ==
    /\ \A i \in Items : (HasVault(i) <=> i \in locked)
    /\ op.kind = "lock" => op.item \notin locked
    /\ (change.pc # "idle" \/ activate.pc # "idle") => op = NoOp
    /\ change.item # NoItem => change.item \in locked /\ change.read = vaults[change.item]
    /\ reseal.item # NoItem => reseal.item \in locked /\ reseal.read = vaults[reseal.item]

\* A vault that opens with the password that is saved.
Opens(i) == vaults[i].pwd = stored.pwd

PasswordInv ==
    /\ NewPasswordOpens
    /\ op.kind = "lock" /\ op.item \in Masters /\ ~op.prepared /\ op.current
          => op.slots.pwd = keystore.pwd
    /\ change.pc # "idle" => change.all = {i \in Masters : HasVault(i)}
    /\ change.pc \in {"derive", "save"} => change.todo = change.all
    /\ change.pc = "vaults" =>
          \A i \in change.all :
             i \in change.todo \/ i \in change.missed \/ i = change.item \/ Opens(i)

\* A vault, keys and slots with the current recovery key.
Recent(slots) == slots.rec = stored.rec

RecoveryInv ==
    /\ NewRecoveryOpens
    /\ ~stored.pending /\ op.kind = "lock" => Recent(op.slots)
    /\ reseal.pc # "idle" =>
          /\ \A i \in Items : HasKeys(i) => Recent(relock[i])
          /\ op.kind = "lock" => Recent(op.slots)
    /\ reseal.pc = "vaults" =>
          /\ reseal.rec = stored.rec
          /\ \A i \in Items : HasVault(i) =>
                i \in reseal.todo \/ i \in reseal.missed \/ i = reseal.item \/ Recent(vaults[i])
    /\ reseal.pc = "save" /\ ~reseal.to.pending =>
          \A i \in Items : HasVault(i) => Recent(vaults[i])
    /\ activate.pc = "save" => activate.to.pending

-------------------------------------------------------------------------------
(* What the operators give. *)

\* A flow that begins to wait waits once, and one that is written no more.
LEMMA QueueKeeps ==
    ASSUME SavingTrue, NEW flow \in Waiting, ~Waits(flow), Queue(flow)
    PROVE  /\ saving' \in Seq(Waiting)
           /\ \A m, n \in 1..Len(saving') : saving'[m] = saving'[n] => m = n
           /\ \A g : Waits(g)' <=> Waits(g) \/ g = flow
<1>1. /\ saving \in Seq(Waiting) /\ Len(saving) \in Nat /\ saving' = Append(saving, flow)
      /\ \A m, n \in 1..Len(saving) : saving[m] = saving[n] => m = n
      /\ \A n \in 1..Len(saving) : saving[n] # flow
  BY LenProperties DEF SavingTrue, Queue, Waits
<1>2. /\ saving' \in Seq(Waiting) /\ Len(saving') = Len(saving) + 1
      /\ \A n \in 1..Len(saving) : saving'[n] = saving[n]
      /\ saving'[Len(saving) + 1] = flow
  BY <1>1, AppendProperties
<1>3. \A n \in 1..Len(saving') : n = Len(saving) + 1 \/ n \in 1..Len(saving)
  BY <1>1, <1>2
<1>4. \A m, n \in 1..Len(saving') : saving'[m] = saving'[n] => m = n
  BY <1>1, <1>2, <1>3
<1>5. Len(saving) + 1 \in 1..Len(saving') /\ 1..Len(saving) \subseteq 1..Len(saving')
  BY <1>1, <1>2
<1>6. \A g : Waits(g)' <=> Waits(g) \/ g = flow
  BY <1>2, <1>3, <1>5 DEF Waits
<1> QED BY <1>2, <1>4, <1>6

LEMMA WrittenKeeps ==
    ASSUME SavingTrue, NEW flow, Written(flow)
    PROVE  /\ saving' \in Seq(Waiting) /\ Waits(flow)
           /\ \A m, n \in 1..Len(saving') : saving'[m] = saving'[n] => m = n
           /\ \A g : Waits(g)' <=> Waits(g) /\ g # flow
<1>1. /\ saving \in Seq(Waiting) /\ saving # <<>> /\ Head(saving) = flow /\ saving' = Tail(saving)
      /\ \A m, n \in 1..Len(saving) : saving[m] = saving[n] => m = n
  BY DEF SavingTrue, Written
<1>2. Len(saving) \in Nat /\ Len(saving) > 0 /\ saving[1] = flow
  BY <1>1, LenProperties, EmptySeq
<1>3. /\ saving' \in Seq(Waiting) /\ Len(saving') = Len(saving) - 1
      /\ \A n \in 1..Len(saving') : saving'[n] = saving[n + 1]
  BY <1>1, HeadTailProperties
<1>4. \A n \in 1..Len(saving') : n + 1 \in 1..Len(saving) /\ n + 1 # 1
  BY <1>2, <1>3
<1>5. \A m, n \in 1..Len(saving') : saving'[m] = saving'[n] => m = n
  <2> SUFFICES ASSUME NEW m \in 1..Len(saving'), NEW n \in 1..Len(saving'), saving'[m] = saving'[n]
               PROVE  m = n
    OBVIOUS
  <2>1. m + 1 = n + 1
    BY <1>1, <1>3, <1>4
  <2> QED BY <2>1
<1>6. \A n \in 1..Len(saving) : n = 1 \/ (n - 1 \in 1..Len(saving') /\ saving'[n - 1] = saving[n])
  BY <1>2, <1>3
<1>7. \A g : Waits(g)' => Waits(g) /\ g # flow
  <2> SUFFICES ASSUME NEW n \in 1..Len(saving')
               PROVE  Waits(saving'[n]) /\ saving'[n] # flow
    BY DEF Waits
  <2>1. saving'[n] = saving[n + 1] /\ n + 1 \in 1..Len(saving) /\ 1 \in 1..Len(saving) /\ n + 1 # 1
    BY <1>2, <1>3, <1>4
  <2> QED BY <1>1, <1>2, <2>1 DEF Waits
<1>8. \A g : Waits(g) /\ g # flow => Waits(g)'
  BY <1>2, <1>6 DEF Waits
<1>9. Waits(flow)
  BY <1>2 DEF Waits
<1> QED BY <1>3, <1>5, <1>7, <1>8, <1>9

LEMMA SavingAtMostThree == SavingTrue => Len(saving) <= 3
<1> SUFFICES ASSUME SavingTrue, Len(saving) > 3 PROVE FALSE
  BY LenProperties DEF SavingTrue
<1>1. saving \in Seq(Waiting) /\ Len(saving) \in Nat
  BY LenProperties DEF SavingTrue
<1>2. 1 \in 1..Len(saving) /\ 2 \in 1..Len(saving) /\ 3 \in 1..Len(saving) /\ 4 \in 1..Len(saving)
  BY <1>1
<1>3. /\ saving[1] \in Waiting /\ saving[2] \in Waiting
      /\ saving[3] \in Waiting /\ saving[4] \in Waiting
  BY <1>1, <1>2, ElementOfSeq
<1>4. /\ saving[1] # saving[2] /\ saving[1] # saving[3] /\ saving[1] # saving[4]
      /\ saving[2] # saving[3] /\ saving[2] # saving[4] /\ saving[3] # saving[4]
  BY <1>2 DEF SavingTrue
<1> QED BY <1>3, <1>4 DEF Waiting

\* The keys made ahead, when the recovery key or the password changes.
LEMMA RelockFacts ==
    ASSUME relock \in Relocks, NEW pwd \in Passwords, NEW rec \in Recovery,
           NEW keys \in Relocks
    PROVE  /\ WithRecovery(keys, rec) \in Relocks /\ WithPassword(pwd) \in Relocks
           /\ \A i \in Items : /\ WithRecovery(keys, rec)[i] = NoKeys <=> keys[i] = NoKeys
                               /\ WithPassword(pwd)[i] = NoKeys <=> relock[i] = NoKeys
           /\ \A i \in Items : /\ keys[i] # NoKeys => WithRecovery(keys, rec)[i].rec = rec
                               /\ WithRecovery(keys, rec)[i].pwd = keys[i].pwd
                               /\ WithRecovery(keys, rec)[i].used = keys[i].used
           /\ \A i \in Items : /\ WithPassword(pwd)[i].pwd \in {pwd, relock[i].pwd}
                               /\ WithPassword(pwd)[i].rec = relock[i].rec
                               /\ WithPassword(pwd)[i].used = relock[i].used
<1>1. 0 \notin Passwords /\ 0 \notin Recovery
  BY BoundAssumption DEF Passwords, Recovery
<1>2. ASSUME NEW k \in Prepared
      PROVE  /\ [k EXCEPT !.rec = rec] \in Prepared /\ [k EXCEPT !.pwd = pwd] \in Prepared
             /\ [k EXCEPT !.rec = rec] # NoKeys /\ [k EXCEPT !.pwd = pwd] # NoKeys /\ k # NoKeys
             /\ [k EXCEPT !.rec = rec].rec = rec /\ [k EXCEPT !.rec = rec].pwd = k.pwd
             /\ [k EXCEPT !.rec = rec].used = k.used
             /\ [k EXCEPT !.pwd = pwd].pwd = pwd /\ [k EXCEPT !.pwd = pwd].rec = k.rec
             /\ [k EXCEPT !.pwd = pwd].used = k.used
  BY <1>1 DEF Prepared, NoKeys
<1>3. \A i \in Items : /\ keys[i] = NoKeys \/ keys[i] \in Prepared
                       /\ relock[i] = NoKeys \/ relock[i] \in Prepared
  BY DEF Relocks
<1>4. \A i \in Items : WithRecovery(keys, rec)[i] =
                          IF keys[i] = NoKeys THEN NoKeys ELSE [keys[i] EXCEPT !.rec = rec]
  BY DEF WithRecovery
<1>5. \A i \in Items : WithPassword(pwd)[i] =
                          IF relock[i] # NoKeys /\ i \in Masters
                          THEN [relock[i] EXCEPT !.pwd = pwd] ELSE relock[i]
  BY DEF WithPassword, HasKeys
<1>6. ASSUME NEW i \in Items
      PROVE  LET new == WithRecovery(keys, rec)[i]
             IN  /\ new \in Prepared \cup {NoKeys} /\ (new = NoKeys <=> keys[i] = NoKeys)
                 /\ keys[i] # NoKeys => new.rec = rec
                 /\ new.pwd = keys[i].pwd /\ new.used = keys[i].used
  <2>1. CASE keys[i] = NoKeys
    BY <1>4, <2>1
  <2>2. CASE keys[i] \in Prepared
    <3>1. WithRecovery(keys, rec)[i] = [keys[i] EXCEPT !.rec = rec]
      BY <1>2, <1>4, <2>2
    <3> QED BY <1>2, <2>2, <3>1
  <2> QED BY <1>3, <2>1, <2>2
<1>7. ASSUME NEW i \in Items
      PROVE  LET new == WithPassword(pwd)[i]
             IN  /\ new \in Prepared \cup {NoKeys} /\ (new = NoKeys <=> relock[i] = NoKeys)
                 /\ new.pwd \in {pwd, relock[i].pwd}
                 /\ new.rec = relock[i].rec /\ new.used = relock[i].used
  <2>1. CASE relock[i] = NoKeys \/ i \notin Masters
    BY <1>3, <1>5, <2>1
  <2>2. CASE relock[i] \in Prepared /\ i \in Masters
    <3>1. WithPassword(pwd)[i] = [relock[i] EXCEPT !.pwd = pwd]
      BY <1>2, <1>5, <2>2
    <3> QED BY <1>2, <2>2, <3>1
  <2> QED BY <1>3, <2>1, <2>2
<1>8. WithRecovery(keys, rec) \in Relocks
  BY <1>6 DEF WithRecovery, Relocks
<1>9. WithPassword(pwd) \in Relocks
  BY <1>7 DEF WithPassword, Relocks
<1> QED BY <1>6, <1>7, <1>8, <1>9

\* An update of the vaults begins, or not, when a window opens.
LEMMA WindowFacts ==
    ASSUME relock \in Relocks, reseal \in Reseals, NEW ks \in Keystore, NEW key \in Passwords,
           NEW keys \in Relocks, NEW flags, cache \in [Items -> Passwords \cup {0}],
           \/ WindowOpens(ks, key, keys, flags)
           \/ \E by \in {"window", "dialog"} : BeginReseal(by, ks, key, keys, flags)
    PROVE  /\ relock' \in Relocks
           /\ \A i \in Items : /\ relock'[i] = NoKeys <=> keys[i] = NoKeys
                               /\ relock'[i].pwd = keys[i].pwd /\ relock'[i].used = keys[i].used
           /\ \/ UNCHANGED reseal /\ relock' = keys
              \/ /\ reseal' \in Reseals /\ reseal'.pc = "vaults" /\ reseal'.rec = ks.rec
                 /\ reseal'.item = NoItem /\ reseal'.todo = {i \in Items : HasVault(i)}
                 /\ reseal'.read = NoSlots
                 /\ \A i \in Items : keys[i] # NoKeys => relock'[i].rec = ks.rec
<1>1. ks.rec \in Recovery
  BY DEF Keystore
<1>2. CASE UNCHANGED reseal /\ relock' = keys
  BY <1>2
<1>3. ASSUME NEW by \in {"window", "dialog"}, BeginReseal(by, ks, key, keys, flags)
      PROVE  /\ relock' = WithRecovery(keys, ks.rec)
             /\ reseal' \in Reseals /\ reseal'.pc = "vaults" /\ reseal'.rec = ks.rec
             /\ reseal'.item = NoItem /\ reseal'.todo = {i \in Items : HasVault(i)}
             /\ reseal'.read = NoSlots
  <2> DEFINE todo == {i \in Items : HasVault(i)}
             known == [i \in Items |-> SessionCredential(i, key, flags)]
  <2>1. todo \in SUBSET Items /\ known \in [Items -> Passwords \cup {0}]
    BY DEF SessionCredential
  <2> HIDE DEF todo, known
  <2>2. reseal' = [NoReseal EXCEPT !.pc = "vaults", !.by = by, !.rec = ks.rec, !.todo = todo,
                                   !.keys = known]
    BY <1>3 DEF BeginReseal, todo, known
  <2>3. NoReseal \in Reseals
    BY DEF NoReseal, Reseals
  <2>4. reseal' \in Reseals
    BY <1>1, <2>1, <2>2, <2>3 DEF Reseals
  <2>5. /\ reseal'.pc = "vaults" /\ reseal'.rec = ks.rec /\ reseal'.item = NoItem
        /\ reseal'.todo = todo /\ reseal'.read = NoSlots
    BY <2>2 DEF NoReseal
  <2> QED BY <1>3, <2>4, <2>5 DEF BeginReseal, todo
<1>4. CASE \E by \in {"window", "dialog"} : BeginReseal(by, ks, key, keys, flags)
  BY <1>1, <1>3, <1>4, RelockFacts
<1> QED BY <1>2, <1>4 DEF WindowOpens

LEMMA NoFlows ==
    /\ NoChange \in Changes /\ NoChange.pc = "idle" /\ NoChange.item = NoItem
    /\ NoReseal \in Reseals /\ NoReseal.pc = "idle" /\ NoReseal.item = NoItem
    /\ NoActivate \in Activates /\ NoActivate.pc = "idle"
    /\ NoOp \in Ops /\ NoOp.kind = "none"
  BY DEF NoChange, Changes, NoReseal, Reseals, NoActivate, Activates, NoOp, Ops

-------------------------------------------------------------------------------
(* The types are kept by every step. *)

\* What each part is about stays as it was.
LEMMA SameTypes ==
    ASSUME TypeInv
    PROVE  /\ UNCHANGED <<stored, keystore, masterKey, cache>> => SessionTrue'
           /\ UNCHANGED <<vaults, relock, locked, flagged>> => ListsTrue'
           /\ UNCHANGED change => ChangeTrue'
           /\ UNCHANGED reseal => ResealTrue'
           /\ UNCHANGED activate => ActivateTrue'
           /\ UNCHANGED <<op, relock>> => OpTrue'
           /\ saving' = saving /\ change'.pc = change.pc /\ activate'.pc = activate.pc
                 /\ reseal'.pc = reseal.pc => SavingTrue'
           /\ UNCHANGED <<made, faults>> => BoundsTrue'
<1>1. SessionTrue /\ ListsTrue /\ ChangeTrue /\ ResealTrue /\ ActivateTrue /\ OpTrue /\ SavingTrue
      /\ BoundsTrue
  BY DEF TypeInv
<1>2. UNCHANGED <<stored, keystore, masterKey, cache>> => SessionTrue'
  BY <1>1 DEF SessionTrue
<1>3. UNCHANGED <<vaults, relock, locked, flagged>> => ListsTrue'
  BY <1>1 DEF ListsTrue
<1>4. UNCHANGED change => ChangeTrue'
  BY <1>1 DEF ChangeTrue
<1>5. (UNCHANGED reseal => ResealTrue') /\ (UNCHANGED activate => ActivateTrue')
  BY <1>1 DEF ResealTrue, ActivateTrue
<1>6. UNCHANGED <<op, relock>> => OpTrue'
  BY <1>1 DEF OpTrue, HasKeys
<1>7. saving' = saving /\ change'.pc = change.pc /\ activate'.pc = activate.pc
         /\ reseal'.pc = reseal.pc => SavingTrue'
  BY <1>1 DEF SavingTrue, Waits
<1>8. UNCHANGED <<made, faults>> => BoundsTrue'
  BY <1>1 DEF BoundsTrue
<1> QED BY <1>2, <1>3, <1>4, <1>5, <1>6, <1>7, <1>8

\* The keys at hand are passwords, and those of a lock make slots.
LEMMA KeysTypes ==
    ASSUME TypeInv, NEW i \in Items, NEW c \in [Items -> Passwords \cup {0}]
    PROVE  /\ KeyFor(i, c) \in Passwords \cup {0}
           /\ 0 \notin Passwords /\ 1 \in Passwords /\ keystore.pwd \in Passwords
           /\ keystore.rec \in Recovery
           /\ HasKeys(i) => relock[i].pwd \in Passwords /\ relock[i].rec \in Recovery
           /\ HasVault(i) => vaults[i] \in Slots /\ vaults[i].pwd \in Passwords
  BY BoundAssumption DEF TypeInv, SessionTrue, ListsTrue, KeyFor, Passwords, Keystore, Relocks,
     Prepared, HasKeys, HasVault, Slots

LEMMA StartTypes ==
    ASSUME TypeInv, NEW i \in Items, RememberMasterKey(i) \/ StartLock(i) \/ StartUnlock(i)
    PROVE  TypeInv'
<1>1. SessionTrue /\ ListsTrue /\ OpTrue
  BY DEF TypeInv
<1>2. CASE RememberMasterKey(i)
  <2>1. SessionTrue'
    BY <1>1, <1>2, KeysTypes DEF RememberMasterKey, SessionTrue
  <2> QED BY <1>2, <2>1, SameTypes DEF RememberMasterKey, TypeInv, lists, flows
<1>3. CASE StartLock(i)
  <2>1. ASSUME LockWithKey(i) PROVE OpTrue'
    <3>1. PICK typed \in {0, 1} :
             /\ IF typed = 0 THEN KeyFor(i, cache) # 0
                ELSE i \in Own /\ cache[i] = 0 /\ ~HasKeys(i)
             /\ op' = [NoOp EXCEPT !.kind = "lock", !.item = i, !.typed = typed,
                    !.slots = [pwd |-> IF typed = 0 THEN KeyFor(i, cache) ELSE typed,
                               rec |-> keystore.rec],
                    !.current = Current(i, KeyFor(i, cache))]
      BY <2>1 DEF LockWithKey
    <3>2. /\ [pwd |-> IF typed = 0 THEN KeyFor(i, cache) ELSE typed, rec |-> keystore.rec] \in Slots
          /\ typed \in Passwords \cup {0} /\ Current(i, KeyFor(i, cache)) \in BOOLEAN
      BY <1>1, <3>1, KeysTypes DEF SessionTrue, Slots, Current
    <3> QED BY <3>1, <3>2 DEF OpTrue, Ops, NoOp
  <2>2. ASSUME LockPrepared(i) PROVE OpTrue'
    <3>1. /\ HasKeys(i) /\ [pwd |-> relock[i].pwd, rec |-> relock[i].rec] \in Slots
          /\ op' = [NoOp EXCEPT !.kind = "lock", !.item = i, !.prepared = TRUE,
                       !.slots = [pwd |-> relock[i].pwd, rec |-> relock[i].rec]]
          /\ relock' = relock
      BY <1>1, <1>3, <2>2, KeysTypes DEF LockPrepared, StartLock, SessionTrue, Slots, lists
    <3> QED BY <3>1 DEF OpTrue, Ops, NoOp, HasKeys
  <2>3. OpTrue'
    BY <1>3, <2>1, <2>2 DEF StartLock
  <2> QED BY <1>3, <2>3, SameTypes DEF StartLock, TypeInv, lists, session, flows
<1>4. CASE StartUnlock(i)
  <2>1. PICK typed \in {0, vaults[i].pwd} :
           op' = [NoOp EXCEPT !.kind = "unlock", !.item = i, !.typed = typed]
    BY <1>4 DEF StartUnlock
  <2>2. typed \in Passwords \cup {0}
    BY <1>1, <1>4, <2>1, KeysTypes DEF StartUnlock, SessionTrue
  <2>3. OpTrue'
    BY <2>1, <2>2 DEF OpTrue, Ops, NoOp
  <2> QED BY <1>4, <2>3, SameTypes DEF StartUnlock, TypeInv, lists, session, flows
<1> QED BY <1>2, <1>3, <1>4

LEMMA OpTypes == ASSUME TypeInv, OpStep PROVE TypeInv'
<1>1. SessionTrue /\ ListsTrue /\ OpTrue
  BY DEF TypeInv
<1>2. op.kind # "none" => op.item \in Items
  BY <1>1 DEF OpTrue, NoOp
<1>3. CASE WriteVault
  <2> DEFINE i == op.item
  <2>1. /\ i \in Items /\ op' = [op EXCEPT !.written = TRUE]
        /\ relock' = IF op.prepared THEN [relock EXCEPT ![i].used = TRUE] ELSE relock
    BY <1>2, <1>3 DEF WriteVault
  <2>2. op.prepared => relock[i] \in Prepared
    BY <1>1, <1>3, <2>1 DEF OpTrue, ListsTrue, Relocks, HasKeys, WriteVault
  <2>3. op.prepared => [relock[i] EXCEPT !.used = TRUE] \in Prepared
    BY <2>2 DEF Prepared
  <2>4. relock' \in Relocks /\ (op.prepared => relock'[i] \in Prepared)
    BY <1>1, <2>1, <2>3 DEF ListsTrue, Relocks
  <2>5. ListsTrue'
    BY <1>1, <1>3, <2>4 DEF ListsTrue, WriteVault
  <2>6. op.prepared => relock'[i] # NoKeys
    BY <2>4, BoundAssumption DEF Prepared, NoKeys, Passwords
  <2>7. OpTrue'
    BY <1>1, <1>3, <2>1, <2>6 DEF OpTrue, HasKeys, Ops, NoOp, WriteVault
  <2> QED BY <1>3, <2>5, <2>7, SameTypes DEF WriteVault, TypeInv, session, flows
<1>4. CASE LockDone
  <2>1. op.item \in Items /\ op.slots \in Slots /\ op' = NoOp /\ op.typed \in Passwords \cup {0}
    BY <1>1, <1>2, <1>4 DEF LockDone, OpTrue, Ops
  <2>2. ListsTrue'
    BY <1>1, <1>4, <2>1 DEF LockDone, ListsTrue, Relocks
  <2>3. SessionTrue'
    BY <1>1, <1>4, <2>1 DEF LockDone, SessionTrue
  <2>4. OpTrue'
    BY <2>1, NoFlows DEF OpTrue
  <2> QED BY <1>4, <2>2, <2>3, <2>4, SameTypes DEF LockDone, TypeInv, flows
<1>5. CASE LockFails
  <2>1. ListsTrue'
    BY <1>1, <1>5 DEF LockFails, ListsTrue, Relocks
  <2>2. OpTrue'
    BY <1>5, NoFlows DEF LockFails, OpTrue
  <2> QED BY <1>5, <2>1, <2>2, SameTypes DEF LockFails, TypeInv, session, flows
<1>6. CASE UnlockDone
  <2> DEFINE c   == IF op.typed # 0 THEN [cache EXCEPT ![op.item] = op.typed] ELSE cache
             key == KeyFor(op.item, c)
  <2>1. op.item \in Items /\ op.typed \in Passwords \cup {0}
    BY <1>1, <1>2, <1>6 DEF UnlockDone, OpTrue, Ops
  <2>2. c \in [Items -> Passwords \cup {0}]
    BY <1>1, <2>1 DEF SessionTrue
  <2> HIDE DEF c
  <2>3. key \in Passwords \cup {0} /\ keystore.rec \in Recovery
    BY <2>1, <2>2, KeysTypes
  <2> HIDE DEF key
  <2>4. /\ cache' = c /\ vaults' = [vaults EXCEPT ![op.item] = NoSlots]
        /\ locked' = locked \ {op.item} /\ flagged' = flagged \ {op.item} /\ op' = NoOp
        /\ relock' = IF key = 0 \/ ~Current(op.item, key) THEN relock
                     ELSE [relock EXCEPT ![op.item] = [pwd |-> key, rec |-> keystore.rec,
                                                       used |-> FALSE]]
        /\ UNCHANGED <<stored, keystore, masterKey>>
    BY <1>6 DEF UnlockDone, c, key
  <2>5. key # 0 => [pwd |-> key, rec |-> keystore.rec, used |-> FALSE] \in Prepared
    BY <2>3 DEF Prepared
  <2>6. ListsTrue'
    BY <1>1, <2>4, <2>5 DEF ListsTrue, Relocks
  <2>7. SessionTrue'
    BY <1>1, <2>2, <2>4 DEF SessionTrue
  <2>8. OpTrue'
    BY <2>4, NoFlows DEF OpTrue
  <2> QED BY <1>6, <2>6, <2>7, <2>8, SameTypes DEF UnlockDone, TypeInv, flows
<1>7. CASE UnlockFails
  <2>1. OpTrue'
    BY <1>7, NoFlows DEF UnlockFails, OpTrue
  <2> QED BY <1>7, <2>1, SameTypes DEF UnlockFails, TypeInv, lists, session, flows
<1> QED BY <1>3, <1>4, <1>5, <1>6, <1>7 DEF OpStep

\* A failure is counted.
LEMMA FaultCounts ==
    ASSUME BoundsTrue, UNCHANGED made, (\E kind \in Faults : Fault(kind)) \/ NoFault
    PROVE  BoundsTrue'
<1>1. faults' \in 0..MaxFaults
  BY BoundAssumption DEF BoundsTrue, Fault, NoFault
<1> QED BY <1>1 DEF BoundsTrue

\* Keys made ahead may change beside a lock that holds them, not go.
LEMMA KeepsOp ==
    ASSUME OpTrue, UNCHANGED op, \A i \in Items : relock'[i] = NoKeys <=> relock[i] = NoKeys
    PROVE  OpTrue'
<1>1. op.kind = "lock" => op.item \in Items
  BY DEF OpTrue, NoOp
<1>2. op.kind = "lock" /\ op.prepared => HasKeys(op.item) /\ relock'[op.item] # NoKeys
  BY <1>1 DEF OpTrue, HasKeys
<1> QED BY <1>2 DEF OpTrue, HasKeys

LEMMA ResealTypes ==
    ASSUME TypeInv,
           \/ \E i \in Items : ResealCurrent(i) \/ ResealRead(i) \/ ResealMissed(i)
           \/ ResealWrite \/ ResealEnds \/ SavePending \/ PendingNotSaved
    PROVE  TypeInv'
<1>1. /\ SessionTrue /\ ListsTrue /\ ResealTrue /\ ChangeTrue /\ ActivateTrue /\ SavingTrue
      /\ BoundsTrue /\ reseal \in Reseals
  BY DEF TypeInv, ResealTrue
<1>2. ASSUME NEW i \in Items, ResealCurrent(i) PROVE TypeInv'
  <2>1. reseal' = [reseal EXCEPT !.todo = reseal.todo \ {i}]
    BY <1>2 DEF ResealCurrent
  <2>2. ResealTrue' /\ reseal'.pc = reseal.pc
    BY <1>1, <2>1 DEF ResealTrue, Reseals
  <2> QED BY <1>2, <2>2, SameTypes DEF ResealCurrent, TypeInv, lists, session
<1>3. ASSUME NEW i \in Items, ResealRead(i) PROVE TypeInv'
  <2>1. /\ reseal.pc = "vaults" /\ vaults[i] \in Slots
        /\ reseal' = [reseal EXCEPT !.item = i, !.todo = reseal.todo \ {i}, !.read = vaults[i]]
    BY <1>1, <1>3, KeysTypes DEF ResealRead, Reads, AtNext, ResealOpens, SessionTrue
  <2>2. ResealTrue' /\ reseal'.pc = reseal.pc
    BY <1>1, <2>1 DEF ResealTrue, Reseals
  <2> QED BY <1>3, <2>2, SameTypes DEF ResealRead, TypeInv, lists, session
<1>4. ASSUME NEW i \in Items, ResealMissed(i) PROVE TypeInv'
  <2>1. reseal' = [reseal EXCEPT !.todo = reseal.todo \ {i}, !.missed = reseal.missed \cup {i}]
    BY <1>4 DEF ResealMissed, Missed
  <2>2. ResealTrue' /\ reseal'.pc = reseal.pc
    BY <1>1, <2>1 DEF ResealTrue, Reseals
  <2>3. BoundsTrue'
    <3>1. UNCHANGED made /\ ((\E kind \in Faults : Fault(kind)) \/ NoFault)
      BY <1>4 DEF ResealMissed, Fault
    <3> QED BY <1>1, <3>1, FaultCounts
  <2> QED BY <1>4, <2>2, <2>3, SameTypes DEF ResealMissed, TypeInv, lists, session
<1>5. CASE ResealWrite
  <2>1. /\ reseal.item \in Items /\ reseal.read \in Slots /\ reseal.rec \in Recovery
        /\ reseal' = [reseal EXCEPT !.item = NoItem, !.read = NoSlots]
        /\ vaults' = [vaults EXCEPT ![reseal.item] = [reseal.read EXCEPT !.rec = reseal.rec]]
    BY <1>1, <1>5 DEF ResealWrite, AtWrote, ResealTrue, Reseals
  <2>2. [reseal.read EXCEPT !.rec = reseal.rec] \in Slots
    BY <2>1 DEF Slots
  <2>3. ListsTrue'
    BY <1>1, <1>5, <2>1, <2>2 DEF ListsTrue, ResealWrite
  <2>4. ResealTrue' /\ reseal'.pc = reseal.pc
    BY <1>1, <2>1 DEF ResealTrue, Reseals
  <2> QED BY <1>5, <2>3, <2>4, SameTypes DEF ResealWrite, TypeInv, session
<1>6. CASE ResealEnds
  <2> DEFINE to == [keystore EXCEPT !.pending = (reseal.missed # {})]
  <2>1. to \in Keystore
    BY <1>1 DEF SessionTrue, Keystore
  <2> HIDE DEF to
  <2>2. reseal.pc = "vaults" /\ ~Waits("reseal")
    BY <1>1, <1>6 DEF ResealEnds, AtEnd, SavingTrue
  <2>3. CASE reseal' = NoReseal /\ UNCHANGED saving
    <3>1. ResealTrue' /\ reseal'.pc # "save"
      BY <2>3, NoFlows DEF ResealTrue
    <3>2. SavingTrue'
      BY <1>1, <1>6, <2>2, <2>3, <3>1 DEF ResealEnds, SavingTrue, Waits
    <3> QED BY <1>6, <3>1, <3>2, SameTypes DEF ResealEnds, TypeInv, lists, session
  <2>4. CASE /\ reseal' = [NoReseal EXCEPT !.pc = "save", !.by = reseal.by, !.to = to]
             /\ Queue("reseal")
    <3>1. ResealTrue' /\ reseal'.pc = "save"
      <4>1. /\ reseal'.pc = "save" /\ reseal'.to = to /\ reseal'.item = NoItem
        BY <2>4 DEF NoReseal
      <4>2. reseal' \in Reseals
        BY <1>1, <2>1, <2>4, NoFlows DEF Reseals
      <4> QED BY <2>1, <4>1, <4>2 DEF ResealTrue
    <3>2. SavingTrue'
      <4>1. UNCHANGED <<change, activate>> /\ "reseal" \in Waiting
        BY <1>6 DEF ResealEnds, Waiting
      <4> QED BY <1>1, <2>2, <2>4, <3>1, <4>1, QueueKeeps DEF SavingTrue
    <3> QED BY <1>6, <3>1, <3>2, SameTypes DEF ResealEnds, TypeInv, lists, session
  <2> QED BY <1>6, <2>3, <2>4 DEF ResealEnds, to
<1>7. CASE SavePending \/ PendingNotSaved
  <2>1. /\ Written("reseal") /\ reseal' = NoReseal /\ UNCHANGED <<change, activate>>
    BY <1>7 DEF SavePending, PendingNotSaved
  <2>2. reseal.pc = "save" /\ reseal.to \in Keystore
    BY <1>1, <2>1, WrittenKeeps DEF SavingTrue, ResealTrue
  <2>3. ResealTrue'
    BY <2>1, NoFlows DEF ResealTrue
  <2>4. SavingTrue'
    BY <1>1, <2>1, NoFlows, WrittenKeeps DEF SavingTrue
  <2>5. SessionTrue'
    BY <1>1, <1>7, <2>2 DEF SavePending, PendingNotSaved, SessionTrue, session
  <2>6. BoundsTrue'
    <3>1. UNCHANGED made /\ ((\E kind \in Faults : Fault(kind)) \/ NoFault)
      BY <1>7 DEF SavePending, PendingNotSaved, Fault, NoFault
    <3> QED BY <1>1, <3>1, FaultCounts
  <2> QED BY <1>7, <2>3, <2>4, <2>5, <2>6, SameTypes
          DEF SavePending, PendingNotSaved, TypeInv, lists, session
<1> QED BY <1>2, <1>3, <1>4, <1>5, <1>6, <1>7

LEMMA ActivateTypes ==
    ASSUME TypeInv, Activate \/ SaveRecoveryKey \/ RecoveryKeyNotSaved PROVE TypeInv'
<1>1. /\ SessionTrue /\ ListsTrue /\ ResealTrue /\ ChangeTrue /\ ActivateTrue /\ SavingTrue
      /\ BoundsTrue /\ reseal \in Reseals /\ relock \in Relocks
  BY DEF TypeInv, ResealTrue, ListsTrue
<1>2. CASE Activate
  <2> DEFINE to == [keystore EXCEPT !.rec = made.rec + 1, !.pending = TRUE]
  <2>0. /\ made' = [made EXCEPT !.rec = made.rec + 1] /\ faults' = faults
        /\ made \in [pwd : Passwords, rec : Recovery] /\ made.rec + 1 \in Recovery
    BY <1>1, <1>2, BoundAssumption DEF Activate, BoundsTrue, Recovery
  <2>1. to \in Keystore /\ BoundsTrue'
    <3>1. to \in Keystore
      BY <1>1, <2>0 DEF SessionTrue, Keystore
    <3>2. made' \in [pwd : Passwords, rec : Recovery]
      BY <2>0
    <3> QED BY <1>1, <2>0, <3>1, <3>2 DEF BoundsTrue
  <2> HIDE DEF to
  <2>2. activate' = [pc |-> "save", to |-> to] /\ Queue("activate") /\ activate.pc = "idle"
    BY <1>2 DEF Activate, Idle, to
  <2>3. ActivateTrue' /\ activate'.pc = "save"
    BY <2>1, <2>2 DEF ActivateTrue, Activates
  <2>4. SavingTrue'
    <3>1. UNCHANGED <<change, reseal>> /\ "activate" \in Waiting /\ ~Waits("activate")
      BY <1>1, <1>2, <2>2 DEF Activate, Waiting, SavingTrue
    <3> QED BY <1>1, <2>2, <2>3, <3>1, QueueKeeps DEF SavingTrue
  <2> QED BY <1>2, <2>1, <2>3, <2>4, SameTypes DEF Activate, TypeInv, lists, session
<1>3. CASE SaveRecoveryKey \/ RecoveryKeyNotSaved
  <2>1. Written("activate") /\ activate' = NoActivate /\ UNCHANGED change
    BY <1>3 DEF SaveRecoveryKey, RecoveryKeyNotSaved
  <2>2. activate.pc = "save" /\ activate.to \in Keystore
    BY <1>1, <2>1, WrittenKeeps DEF SavingTrue, ActivateTrue
  <2>3. ActivateTrue'
    BY <2>1, NoFlows DEF ActivateTrue
  <2>4. SessionTrue' /\ BoundsTrue'
    <3>1. SessionTrue'
      BY <1>1, <1>3, <2>2 DEF SaveRecoveryKey, RecoveryKeyNotSaved, SessionTrue, session
    <3>2. UNCHANGED made /\ ((\E kind \in Faults : Fault(kind)) \/ NoFault)
      BY <1>3 DEF SaveRecoveryKey, RecoveryKeyNotSaved, Fault, NoFault
    <3> QED BY <1>1, <3>1, <3>2, FaultCounts
  <2>5. CASE UNCHANGED <<reseal, relock>>
    <3>1. SavingTrue'
      BY <1>1, <2>1, <2>5, NoFlows, WrittenKeeps DEF SavingTrue
    <3> QED BY <1>3, <2>3, <2>4, <2>5, <3>1, SameTypes
            DEF SaveRecoveryKey, RecoveryKeyNotSaved, TypeInv, lists, session
  <2>6. CASE SaveRecoveryKey /\ Unlocked /\ Idle(reseal)
             /\ BeginReseal("dialog", activate.to, masterKey, relock, flagged)
    <3>1. masterKey \in Passwords /\ cache \in [Items -> Passwords \cup {0}]
      BY <1>1, <2>6 DEF SessionTrue, Unlocked
    <3>2. /\ relock' \in Relocks /\ \A i \in Items : relock'[i] = NoKeys <=> relock[i] = NoKeys
          /\ UNCHANGED reseal \/ (reseal' \in Reseals /\ reseal'.pc = "vaults"
                                  /\ reseal'.rec = activate.to.rec /\ reseal'.item = NoItem)
      BY <1>1, <2>2, <2>6, <3>1, WindowFacts
    <3>3. ResealTrue' /\ (UNCHANGED reseal \/ reseal'.pc = "vaults")
      BY <1>1, <2>2, <3>2 DEF ResealTrue, Keystore
    <3>4. SavingTrue'
      BY <1>1, <2>1, <2>6, <3>3, NoFlows, WrittenKeeps DEF SavingTrue, Idle
    <3>5. ListsTrue'
      BY <1>1, <2>6, <3>2 DEF SaveRecoveryKey, ListsTrue
    <3>6. OpTrue'
      BY <2>6, <3>2, KeepsOp DEF SaveRecoveryKey, TypeInv
    <3> QED BY <2>3, <2>4, <2>6, <3>3, <3>4, <3>5, <3>6, SameTypes DEF SaveRecoveryKey, TypeInv
  <2> QED BY <1>3, <2>5, <2>6 DEF SaveRecoveryKey, RecoveryKeyNotSaved, lists
<1> QED BY <1>2, <1>3

\* A window that opens, with the keys made ahead as they were or with a new
\* password.
LEMMA WindowTypes ==
    ASSUME TypeInv, NEW ks \in Keystore, NEW key \in Passwords, NEW keys \in Relocks, NEW flags,
           \A i \in Items : keys[i] = NoKeys <=> relock[i] = NoKeys,
           WindowOpens(ks, key, keys, flags), UNCHANGED <<vaults, locked, op>>,
           flagged' \subseteq Items,
           UNCHANGED saving, UNCHANGED activate,
           change'.pc = change.pc \/ (change.pc # "save" /\ change'.pc # "save")
    PROVE  ListsTrue' /\ ResealTrue' /\ OpTrue' /\ SavingTrue'
<1>1. /\ SessionTrue /\ ListsTrue /\ ResealTrue /\ OpTrue /\ SavingTrue /\ reseal \in Reseals
      /\ relock \in Relocks /\ cache \in [Items -> Passwords \cup {0}]
  BY DEF TypeInv, ResealTrue, ListsTrue, SessionTrue
<1>2. /\ relock' \in Relocks /\ \A i \in Items : relock'[i] = NoKeys <=> relock[i] = NoKeys
      /\ UNCHANGED reseal \/ (reseal' \in Reseals /\ reseal'.pc = "vaults"
                              /\ reseal'.rec = ks.rec /\ reseal'.item = NoItem)
  BY <1>1, WindowFacts
<1>3. UNCHANGED reseal \/ reseal.pc = "idle"
  BY DEF WindowOpens, Idle
<1>4. ListsTrue'
  BY <1>1, <1>2 DEF ListsTrue
<1>5. ResealTrue'
  BY <1>1, <1>2 DEF ResealTrue, Keystore
<1>6. OpTrue'
  BY <1>1, <1>2, KeepsOp
<1>7. SavingTrue'
  BY <1>1, <1>2, <1>3 DEF SavingTrue, Waits
<1> QED BY <1>4, <1>5, <1>6, <1>7

LEMMA ChangeTypes ==
    ASSUME TypeInv,
           \/ ChangePassword \/ ResetWithRecoveryKey \/ Derived \/ SaveChange \/ ChangeNotSaved
           \/ \E i \in Items : RekeyRead(i) \/ RekeyMissed(i)
           \/ RekeyWrite
    PROVE  TypeInv'
<1>1. /\ SessionTrue /\ ListsTrue /\ ResealTrue /\ ChangeTrue /\ ActivateTrue /\ SavingTrue
      /\ BoundsTrue /\ change \in Changes
  BY DEF TypeInv, ChangeTrue
<1>2. ASSUME NEW by \in {"key", "recovery"}, NEW key \in Passwords \cup Recovery \cup {0},
             StartChange(by, key)
      PROVE  TypeInv'
  <2> DEFINE all == {i \in Masters : HasVault(i)}
  <2>0. /\ made' = [made EXCEPT !.pwd = made.pwd + 1] /\ faults' = faults
        /\ made \in [pwd : Passwords, rec : Recovery] /\ made.pwd + 1 \in Passwords
    BY <1>1, <1>2, BoundAssumption DEF StartChange, BoundsTrue, Passwords
  <2>1. /\ all \in SUBSET Masters /\ BoundsTrue' /\ keystore \in Keystore
    <3>1. made' \in [pwd : Passwords, rec : Recovery]
      BY <2>0
    <3> QED BY <1>1, <2>0, <3>1 DEF SessionTrue, BoundsTrue
  <2>2. /\ change' = [NoChange EXCEPT !.pc = "derive", !.base = keystore, !.new = made.pwd + 1,
                        !.by = by, !.key = key, !.all = all, !.todo = all]
        /\ change.pc = "idle"
    BY <1>2 DEF StartChange, Idle
  <2> HIDE DEF all
  <2>3. ChangeTrue' /\ change'.pc = "derive"
    <3>1. change' \in Changes
      BY <2>0, <2>1, <2>2, NoFlows DEF Changes
    <3>2. /\ change'.pc = "derive" /\ change'.base = keystore
          /\ change'.new = made.pwd + 1 /\ change'.item = NoItem
      BY <2>2 DEF NoChange
    <3> QED BY <2>0, <2>1, <3>1, <3>2 DEF ChangeTrue
  <2>4. SavingTrue'
    BY <1>1, <1>2, <2>2, <2>3 DEF StartChange, SavingTrue, Waits
  <2> QED BY <1>2, <2>1, <2>3, <2>4, SameTypes DEF StartChange, TypeInv, lists, session
<1>3. CASE ChangePassword \/ ResetWithRecoveryKey
  BY <1>1, <1>2, <1>3 DEF ChangePassword, ResetWithRecoveryKey, SessionTrue, Keystore
<1>4. CASE Derived
  <2>1. /\ change.pc = "derive" /\ change' = [change EXCEPT !.pc = "save"] /\ Queue("change")
        /\ UNCHANGED <<activate, reseal>> /\ "change" \in Waiting /\ ~Waits("change")
    BY <1>1, <1>4 DEF Derived, Waiting, SavingTrue
  <2>2. ChangeTrue' /\ change'.pc = "save"
    BY <1>1, <2>1 DEF ChangeTrue, Changes
  <2>3. SavingTrue'
    BY <1>1, <2>1, <2>2, QueueKeeps DEF SavingTrue
  <2> QED BY <1>4, <2>2, <2>3, SameTypes DEF Derived, TypeInv, lists, session
<1>5. CASE SaveChange \/ ChangeNotSaved
  <2>1. /\ Written("change") /\ UNCHANGED <<activate, reseal>>
        /\ change' = NoChange \/ change' = [change EXCEPT !.pc = "vaults"]
    BY <1>5 DEF SaveChange, ChangeNotSaved
  <2>2. change.pc = "save" /\ change.base \in Keystore /\ change.new \in Passwords
    BY <1>1, <2>1, WrittenKeeps DEF SavingTrue, ChangeTrue
  <2>3. ChangeTrue' /\ change'.pc # "save"
    BY <1>1, <2>1, <2>2, NoFlows DEF ChangeTrue, Changes
  <2>4. SavingTrue'
    BY <1>1, <2>1, <2>3, WrittenKeeps DEF SavingTrue
  <2>5. NewKeystore \in Keystore
    BY <2>2 DEF NewKeystore, Keystore
  <2>6. SessionTrue' /\ BoundsTrue'
    <3>1. SessionTrue'
      BY <1>1, <1>5, <2>5 DEF SaveChange, ChangeNotSaved, SessionTrue, session
    <3>2. UNCHANGED made /\ ((\E kind \in Faults : Fault(kind)) \/ NoFault)
      BY <1>5 DEF SaveChange, ChangeNotSaved, Fault, NoFault
    <3> QED BY <1>1, <3>1, <3>2, FaultCounts
  <2> QED BY <1>5, <2>3, <2>4, <2>6, SameTypes
          DEF SaveChange, ChangeNotSaved, TypeInv, lists, session
<1>6. ASSUME NEW i \in Items, RekeyRead(i) PROVE TypeInv'
  <2>1. /\ change.pc = "vaults" /\ vaults[i] \in Slots /\ i \in Masters
        /\ change' = [change EXCEPT !.item = i, !.todo = change.todo \ {i}, !.read = vaults[i]]
    BY <1>1, <1>6, KeysTypes DEF RekeyRead, Reads, AtNext, RekeyOpens, SessionTrue, Changes
  <2>2. ChangeTrue' /\ change'.pc = change.pc
    BY <1>1, <2>1 DEF ChangeTrue, Changes
  <2> QED BY <1>6, <2>2, SameTypes DEF RekeyRead, TypeInv, lists, session
<1>7. ASSUME NEW i \in Items, RekeyMissed(i) PROVE TypeInv'
  <2>1. /\ i \in Masters
        /\ change' = [change EXCEPT !.todo = change.todo \ {i}, !.missed = change.missed \cup {i}]
    BY <1>1, <1>7 DEF RekeyMissed, Reads, Missed, Changes
  <2>2. ChangeTrue' /\ change'.pc = change.pc
    BY <1>1, <2>1 DEF ChangeTrue, Changes
  <2>3. BoundsTrue'
    <3>1. UNCHANGED made /\ ((\E kind \in Faults : Fault(kind)) \/ NoFault)
      BY <1>7 DEF RekeyMissed, Fault
    <3> QED BY <1>1, <3>1, FaultCounts
  <2> QED BY <1>7, <2>2, <2>3, SameTypes DEF RekeyMissed, TypeInv, lists, session
<1>8. CASE RekeyWrite
  <2>1. /\ change.item \in Items /\ change.read \in Slots /\ change.new \in Passwords
        /\ change' = [change EXCEPT !.item = NoItem, !.read = NoSlots]
        /\ vaults' = [vaults EXCEPT ![change.item] = [change.read EXCEPT !.pwd = change.new]]
    BY <1>1, <1>8 DEF RekeyWrite, AtWrote, ChangeTrue, Changes, Masters
  <2>2. [change.read EXCEPT !.pwd = change.new] \in Slots
    BY <2>1 DEF Slots
  <2>3. ListsTrue'
    BY <1>1, <1>8, <2>1, <2>2 DEF ListsTrue, RekeyWrite
  <2>4. ChangeTrue' /\ change'.pc = change.pc
    BY <1>1, <2>1 DEF ChangeTrue, Changes
  <2> QED BY <1>8, <2>3, <2>4, SameTypes DEF RekeyWrite, TypeInv, session
<1> QED BY <1>3, <1>4, <1>5, <1>6, <1>7, <1>8

LEMMA SessionTypes ==
    ASSUME TypeInv, FinishChange \/ Unlock \/ Lock \/ Crash PROVE TypeInv'
<1>1. /\ SessionTrue /\ ListsTrue /\ ResealTrue /\ ChangeTrue /\ ActivateTrue /\ SavingTrue
      /\ OpTrue /\ BoundsTrue /\ change \in Changes /\ relock \in Relocks
      /\ keystore \in Keystore /\ keystore.pwd \in Passwords
  BY DEF TypeInv, ChangeTrue, ListsTrue, SessionTrue, Keystore
<1>2. CASE FinishChange
  <2> DEFINE missed  == {i \in change.missed : HasVault(i)}
             updated == {i \in change.all \ change.missed : HasVault(i)}
  <2>1. change.pc = "vaults" /\ change.base \in Keystore /\ change.new \in Passwords
    BY <1>1, <1>2 DEF FinishChange, AtEnd, ChangeTrue
  <2>2. NewKeystore \in Keystore /\ 1 \in Recovery
    BY <2>1, BoundAssumption DEF NewKeystore, Keystore, Recovery
  <2>3. missed \subseteq Items /\ flagged' = (flagged \ updated) \cup missed
    BY <1>1, <1>2 DEF FinishChange, Changes, Masters
  <2>4. PICK flags : WindowOpens(NewKeystore, change.new, WithPassword(change.new), flags)
    BY <1>2 DEF FinishChange
  <2>5. flagged' \subseteq Items
    BY <1>1, <2>3 DEF ListsTrue
  <2>6. /\ WithPassword(change.new) \in Relocks
        /\ \A i \in Items : WithPassword(change.new)[i] = NoKeys <=> relock[i] = NoKeys
    <3>1. \A pwd \in Passwords : \A rec \in Recovery : \A keys \in Relocks :
             /\ WithPassword(pwd) \in Relocks
             /\ \A i \in Items : WithPassword(pwd)[i] = NoKeys <=> relock[i] = NoKeys
      BY <1>1, RelockFacts
    <3> QED BY <1>1, <2>1, <2>2, <3>1
  <2>7. change' = NoChange /\ UNCHANGED <<vaults, locked, op, saving, activate>>
    BY <1>2 DEF FinishChange
  <2>8. ListsTrue' /\ ResealTrue' /\ OpTrue' /\ SavingTrue'
    BY <2>1, <2>2, <2>4, <2>5, <2>6, <2>7, NoFlows, WindowTypes
  <2>9. ChangeTrue'
    BY <2>7, NoFlows DEF ChangeTrue
  <2>10. SessionTrue'
    BY <1>1, <1>2, <2>1, <2>2 DEF FinishChange, SessionTrue
  <2> QED BY <1>2, <2>8, <2>9, <2>10, SameTypes DEF FinishChange, TypeInv
<1>3. CASE Unlock
  <2>1. ListsTrue' /\ ResealTrue' /\ OpTrue' /\ SavingTrue'
    BY <1>1, <1>3, WindowTypes DEF Unlock, ListsTrue
  <2>2. SessionTrue'
    BY <1>1, <1>3 DEF Unlock, SessionTrue
  <2> QED BY <1>3, <2>1, <2>2, SameTypes DEF Unlock, TypeInv
<1>4. CASE Lock
  <2>1. SessionTrue'
    BY <1>1, <1>4 DEF Lock, SessionTrue
  <2>2. change' = change \/ change' = [change EXCEPT !.wiped = TRUE]
    BY <1>4 DEF Lock
  <2>3. ChangeTrue' /\ change'.pc = change.pc
    BY <1>1, <2>2 DEF ChangeTrue, Changes
  <2> QED BY <1>4, <2>1, <2>3, SameTypes DEF Lock, TypeInv, lists
<1>5. CASE Crash
  <2>1. SessionTrue' /\ BoundsTrue'
    <3>1. SessionTrue'
      BY <1>1, <1>5 DEF Crash, SessionTrue
    <3>2. UNCHANGED made /\ ((\E kind \in Faults : Fault(kind)) \/ NoFault)
      BY <1>5 DEF Crash, Fault
    <3> QED BY <1>1, <3>1, <3>2, FaultCounts
  <2>2. ChangeTrue' /\ ResealTrue' /\ ActivateTrue' /\ OpTrue'
    BY <1>5, NoFlows DEF Crash, ChangeTrue, ResealTrue, ActivateTrue, OpTrue
  <2>3. SavingTrue'
    <3>1. saving' = <<>> /\ change' = NoChange /\ activate' = NoActivate /\ reseal' = NoReseal
      BY <1>5 DEF Crash
    <3>2. <<>> \in Seq(Waiting) /\ Len(<<>>) = 0
      BY EmptySeq
    <3> QED BY <3>1, <3>2, NoFlows DEF SavingTrue, Waits
  <2>4. ListsTrue'
    <3>1. op.kind # "none" => op.item \in Items
      BY <1>1 DEF OpTrue, NoOp
    <3>2. op.kind = "lock" => op.slots \in Slots
      BY <1>1 DEF OpTrue
    <3>3. UNCHANGED <<relock, flagged>> /\ Interrupted
      BY <1>5 DEF Crash
    <3>4. vaults' \in [Items -> Slots \cup {NoSlots}] /\ locked' \subseteq Items
      BY <1>1, <3>1, <3>2, <3>3 DEF Interrupted, ListsTrue
    <3> QED BY <1>1, <3>3, <3>4 DEF ListsTrue
  <2> QED BY <2>1, <2>2, <2>3, <2>4 DEF TypeInv
<1> QED BY <1>2, <1>3, <1>4, <1>5

LEMMA TypeInit == Init => TypeInv
<1> SUFFICES ASSUME Init PROVE TypeInv
  OBVIOUS
<1>1. 1 \in Passwords /\ 1 \in Recovery
  BY BoundAssumption DEF Passwords, Recovery
<1>2. SessionTrue /\ ListsTrue
  BY <1>1 DEF Init, SessionTrue, ListsTrue, Keystore, Slots, Relocks
<1>3. ChangeTrue /\ ResealTrue /\ ActivateTrue /\ OpTrue
  BY NoFlows DEF Init, ChangeTrue, ResealTrue, ActivateTrue, OpTrue
<1>4. SavingTrue
  <2>1. <<>> \in Seq(Waiting) /\ Len(<<>>) = 0
    BY EmptySeq
  <2> QED BY <2>1, NoFlows DEF Init, SavingTrue, Waits
<1>5. BoundsTrue
  BY <1>1, BoundAssumption DEF Init, BoundsTrue
<1> QED BY <1>2, <1>3, <1>4, <1>5 DEF TypeInv

LEMMA TypeNext == TypeInv /\ [Next]_vars => TypeInv'
<1> SUFFICES ASSUME TypeInv, [Next]_vars PROVE TypeInv'
  OBVIOUS
<1>1. CASE UNCHANGED vars
  BY <1>1, SameTypes DEF vars, TypeInv
<1>2. CASE Next
  BY <1>2, StartTypes, OpTypes, ResealTypes, ActivateTypes, ChangeTypes, SessionTypes
     DEF Next, ItemStep, ChangeStep, RecoveryStep
<1> QED BY <1>1, <1>2

\* Flows are where their local variables say, and slots and keys hold
\* generations that exist, whatever flows meet and fail.
THEOREM TypesHold == Spec => []TypeOK
<1>1. Init => TypeInv
  BY TypeInit
<1>2. TypeInv /\ [Next]_vars => TypeInv'
  BY TypeNext
<1>3. TypeInv => TypeOK
  BY SavingAtMostThree
     DEF TypeInv, SessionTrue, ListsTrue, ChangeTrue, ResealTrue, ActivateTrue, OpTrue,
         SavingTrue, BoundsTrue, TypeOK, Changes, Reseals, Activates, Ops, Waiting, Relocks
<1> QED BY <1>1, <1>2, <1>3, PTL DEF Spec


-------------------------------------------------------------------------------
(* What the steps of the flows do. *)

LEMMA WrittenFlows ==
    ASSUME TypeInv
    PROVE  /\ Written("change") => change.pc = "save"
           /\ Written("activate") => activate.pc = "save" /\ activate.to \in Keystore
           /\ Written("reseal") => reseal.pc = "save" /\ reseal.to \in Keystore
  BY WrittenKeeps DEF TypeInv, SavingTrue, ActivateTrue, ResealTrue

LEMMA RekeyDoes ==
    ASSUME TypeInv
    PROVE  /\ \A i \in Items : RekeyRead(i) =>
                 /\ change.pc = "vaults" /\ change.item = NoItem /\ i \in change.todo
                 /\ change'.item = i /\ change'.read = vaults[i] /\ HasVault(i)
                 /\ change'.todo = change.todo \ {i} /\ change'.missed = change.missed
           /\ \A i \in Items : RekeyMissed(i) =>
                 /\ change.pc = "vaults" /\ change'.item = change.item
                 /\ change'.read = change.read
                 /\ change'.todo = change.todo \ {i} /\ change'.missed = change.missed \cup {i}
           /\ RekeyWrite =>
                 /\ change.pc = "vaults" /\ change.item \in Masters /\ change.read \in Slots
                 /\ change'.item = NoItem /\ change'.read = NoSlots
                 /\ change'.todo = change.todo /\ change'.missed = change.missed
                 /\ vaults' = [vaults EXCEPT ![change.item] =
                                  [pwd |-> change.new, rec |-> change.read.rec]]
<1>1. change \in Changes /\ (change.item # NoItem => change.pc = "vaults" /\ change.read \in Slots)
  BY DEF TypeInv, ChangeTrue
<1>2. ASSUME NEW i \in Items, RekeyRead(i)
      PROVE  /\ change.pc = "vaults" /\ change.item = NoItem /\ i \in change.todo
             /\ change'.item = i /\ change'.read = vaults[i] /\ HasVault(i)
             /\ change'.todo = change.todo \ {i} /\ change'.missed = change.missed
  BY <1>1, <1>2 DEF RekeyRead, Reads, AtNext, RekeyOpens, Changes
<1>3. ASSUME NEW i \in Items, RekeyMissed(i)
      PROVE  /\ change.pc = "vaults" /\ change'.item = change.item /\ change'.read = change.read
             /\ change'.todo = change.todo \ {i} /\ change'.missed = change.missed \cup {i}
  BY <1>1, <1>3 DEF RekeyMissed, Reads, Missed, Changes
<1>4. ASSUME RekeyWrite
      PROVE  /\ change.pc = "vaults" /\ change.item \in Masters /\ change.read \in Slots
             /\ change'.item = NoItem /\ change'.read = NoSlots
             /\ change'.todo = change.todo /\ change'.missed = change.missed
             /\ vaults' = [vaults EXCEPT ![change.item] =
                              [pwd |-> change.new, rec |-> change.read.rec]]
  <2>1. change.pc = "vaults" /\ change.item \in Masters /\ change.read \in Slots
    BY <1>1, <1>4 DEF RekeyWrite, Changes
  <2>2. [change.read EXCEPT !.pwd = change.new] = [pwd |-> change.new, rec |-> change.read.rec]
    BY <2>1 DEF Slots
  <2>3. /\ change'.item = NoItem /\ change'.read = NoSlots
        /\ change'.todo = change.todo /\ change'.missed = change.missed
    BY <1>1, <1>4 DEF RekeyWrite, AtWrote, Changes
  <2> QED BY <1>4, <2>1, <2>2, <2>3 DEF RekeyWrite
<1> QED BY <1>2, <1>3, <1>4

\* What a change keeps while it is at the vaults.
LEMMA RekeyKeeps ==
    ASSUME TypeInv, (\E i \in Items : RekeyRead(i) \/ RekeyMissed(i)) \/ RekeyWrite
    PROVE  /\ change.pc = "vaults" /\ change'.pc = "vaults" /\ change'.base = change.base
           /\ change'.new = change.new /\ change'.all = change.all /\ NewKeystore' = NewKeystore
           /\ change'.wiped = change.wiped
           /\ UNCHANGED <<stored, relock, locked, flagged, session, reseal, activate, op, saving,
                          made>>
<1>1. change \in Changes /\ (change.item # NoItem => change.pc = "vaults")
  BY DEF TypeInv, ChangeTrue
<1>2. /\ change.pc = "vaults" /\ change'.pc = "vaults" /\ change'.base = change.base
      /\ change'.new = change.new /\ change'.all = change.all /\ change'.wiped = change.wiped
  <2>1. CASE \E i \in Items : RekeyRead(i)
    BY <1>1, <2>1 DEF RekeyRead, Reads, AtNext, Changes
  <2>2. CASE \E i \in Items : RekeyMissed(i)
    BY <1>1, <2>2 DEF RekeyMissed, Reads, Missed, Changes
  <2>3. CASE RekeyWrite
    BY <1>1, <2>3 DEF RekeyWrite, AtWrote, Changes
  <2> QED BY <2>1, <2>2, <2>3
<1>3. UNCHANGED <<stored, relock, locked, flagged, session, reseal, activate, op, saving, made>>
  BY DEF RekeyRead, RekeyMissed, RekeyWrite, lists
<1> QED BY <1>2, <1>3 DEF NewKeystore

LEMMA ResealDoes ==
    ASSUME TypeInv
    PROVE  /\ \A i \in Items : ResealCurrent(i) =>
                 /\ vaults[i].rec = reseal.rec /\ i \in reseal.todo
                 /\ reseal'.item = reseal.item /\ reseal'.read = reseal.read
                 /\ reseal'.todo = reseal.todo \ {i} /\ reseal'.missed = reseal.missed
           /\ \A i \in Items : ResealRead(i) =>
                 /\ reseal.item = NoItem /\ HasVault(i)
                 /\ reseal'.item = i /\ reseal'.read = vaults[i]
                 /\ reseal'.todo = reseal.todo \ {i} /\ reseal'.missed = reseal.missed
           /\ \A i \in Items : ResealMissed(i) =>
                 /\ reseal'.item = reseal.item /\ reseal'.read = reseal.read
                 /\ reseal'.todo = reseal.todo \ {i} /\ reseal'.missed = reseal.missed \cup {i}
           /\ ResealWrite =>
                 /\ reseal.item \in Items /\ reseal.read \in Slots
                 /\ reseal'.item = NoItem /\ reseal'.read = NoSlots
                 /\ reseal'.todo = reseal.todo /\ reseal'.missed = reseal.missed
                 /\ vaults' = [vaults EXCEPT ![reseal.item] =
                                  [pwd |-> reseal.read.pwd, rec |-> reseal.rec]]
<1>1. reseal \in Reseals /\ (reseal.item # NoItem => reseal.pc = "vaults" /\ reseal.read \in Slots)
  BY DEF TypeInv, ResealTrue
<1>2. ASSUME NEW i \in Items, ResealCurrent(i)
      PROVE  /\ vaults[i].rec = reseal.rec /\ i \in reseal.todo
             /\ reseal'.item = reseal.item /\ reseal'.read = reseal.read
             /\ reseal'.todo = reseal.todo \ {i} /\ reseal'.missed = reseal.missed
  BY <1>1, <1>2 DEF ResealCurrent, Reads, Reseals
<1>3. ASSUME NEW i \in Items, ResealRead(i)
      PROVE  /\ reseal.item = NoItem /\ HasVault(i)
             /\ reseal'.item = i /\ reseal'.read = vaults[i]
             /\ reseal'.todo = reseal.todo \ {i} /\ reseal'.missed = reseal.missed
  BY <1>1, <1>3 DEF ResealRead, ResealOpens, Reads, AtNext, Reseals
<1>4. ASSUME NEW i \in Items, ResealMissed(i)
      PROVE  /\ reseal'.item = reseal.item /\ reseal'.read = reseal.read
             /\ reseal'.todo = reseal.todo \ {i} /\ reseal'.missed = reseal.missed \cup {i}
  BY <1>1, <1>4 DEF ResealMissed, Missed, Reseals
<1>5. ASSUME ResealWrite
      PROVE  /\ reseal.item \in Items /\ reseal.read \in Slots
             /\ reseal'.item = NoItem /\ reseal'.read = NoSlots
             /\ reseal'.todo = reseal.todo /\ reseal'.missed = reseal.missed
             /\ vaults' = [vaults EXCEPT ![reseal.item] =
                              [pwd |-> reseal.read.pwd, rec |-> reseal.rec]]
  <2>1. reseal.item \in Items /\ reseal.read \in Slots
    BY <1>1, <1>5 DEF ResealWrite, Reseals
  <2>2. [reseal.read EXCEPT !.rec = reseal.rec] = [pwd |-> reseal.read.pwd, rec |-> reseal.rec]
    BY <2>1 DEF Slots
  <2>3. /\ reseal'.item = NoItem /\ reseal'.read = NoSlots
        /\ reseal'.todo = reseal.todo /\ reseal'.missed = reseal.missed
    BY <1>1, <1>5 DEF ResealWrite, AtWrote, Reseals
  <2> QED BY <1>5, <2>1, <2>2, <2>3 DEF ResealWrite
<1> QED BY <1>2, <1>3, <1>4, <1>5

LEMMA ResealKeeps ==
    ASSUME TypeInv,
           (\E i \in Items : ResealCurrent(i) \/ ResealRead(i) \/ ResealMissed(i)) \/ ResealWrite
    PROVE  /\ reseal.pc = "vaults" /\ reseal'.pc = "vaults" /\ reseal'.rec = reseal.rec
           /\ UNCHANGED <<stored, relock, locked, flagged, session, change, activate, op, saving,
                          made>>
<1>1. reseal \in Reseals /\ (reseal.item # NoItem => reseal.pc = "vaults")
  BY DEF TypeInv, ResealTrue
<1>2. reseal.pc = "vaults" /\ reseal'.pc = "vaults" /\ reseal'.rec = reseal.rec
  <2>1. CASE \E i \in Items : ResealCurrent(i)
    BY <1>1, <2>1 DEF ResealCurrent, Reads, Reseals
  <2>2. CASE \E i \in Items : ResealRead(i)
    BY <1>1, <2>2 DEF ResealRead, Reads, AtNext, Reseals
  <2>3. CASE \E i \in Items : ResealMissed(i)
    BY <1>1, <2>3 DEF ResealMissed, Reads, Missed, Reseals
  <2>4. CASE ResealWrite
    BY <1>1, <2>4 DEF ResealWrite, AtWrote, Reseals
  <2> QED BY <2>1, <2>2, <2>3, <2>4
<1>3. UNCHANGED <<stored, relock, locked, flagged, session, change, activate, op, saving, made>>
  BY DEF ResealCurrent, ResealRead, ResealMissed, ResealWrite, lists
<1> QED BY <1>2, <1>3

\* How an update of the vaults ends, and what waits then.
LEMMA ResealEndDoes ==
    ASSUME TypeInv, ResealEnds
    PROVE  /\ reseal.pc = "vaults" /\ reseal.todo = {} /\ reseal.item = NoItem
           /\ reseal'.pc \in {"idle", "save"} /\ reseal'.item = NoItem /\ reseal'.read = NoSlots
           /\ reseal'.rec = 0
           /\ reseal'.pc = "save" =>
                 /\ reseal'.to.pwd = keystore.pwd /\ reseal'.to.rec = keystore.rec
                 /\ reseal'.to.pending = (reseal.missed # {}) /\ keystore.rec = reseal.rec
<1> DEFINE to == [keystore EXCEPT !.pending = (reseal.missed # {})]
<1>1. keystore \in Keystore
  BY DEF TypeInv, SessionTrue
<1>2. /\ to.pwd = keystore.pwd /\ to.rec = keystore.rec /\ to.pending = (reseal.missed # {})
  BY <1>1 DEF Keystore
<1> HIDE DEF to
<1>3. /\ reseal.pc = "vaults" /\ reseal.todo = {} /\ reseal.item = NoItem
      /\ \/ reseal' = NoReseal
         \/ /\ reseal' = [NoReseal EXCEPT !.pc = "save", !.by = reseal.by, !.to = to]
            /\ keystore.rec = reseal.rec
  BY DEF ResealEnds, AtEnd, to
<1>4. CASE reseal' = NoReseal
  BY <1>3, <1>4 DEF NoReseal
<1>5. CASE /\ reseal' = [NoReseal EXCEPT !.pc = "save", !.by = reseal.by, !.to = to]
           /\ keystore.rec = reseal.rec
  <2>1. /\ reseal'.pc = "save" /\ reseal'.item = NoItem /\ reseal'.read = NoSlots
        /\ reseal'.rec = 0 /\ reseal'.to = to
    BY <1>5 DEF NoReseal
  <2> QED BY <1>2, <1>3, <1>5, <2>1
<1> QED BY <1>3, <1>4, <1>5

LEMMA ActivateDoes ==
    ASSUME TypeInv, Activate
    PROVE  /\ Unlocked /\ activate.pc = "idle" /\ change.pc = "idle" /\ op = NoOp
           /\ activate'.pc = "save" /\ activate'.to.pwd = keystore.pwd
           /\ activate'.to.rec = made.rec + 1 /\ activate'.to.pending = TRUE
           /\ made'.pwd = made.pwd /\ made'.rec = made.rec + 1
           /\ UNCHANGED <<stored, lists, session, change, reseal, op>>
<1>1. keystore \in Keystore /\ made \in [pwd : Passwords, rec : Recovery]
  BY DEF TypeInv, SessionTrue, BoundsTrue
<1> QED BY <1>1 DEF Activate, Idle, Keystore

LEMMA StartChangeDoes ==
    ASSUME TypeInv, ChangePassword \/ ResetWithRecoveryKey
    PROVE  /\ change.pc = "idle" /\ activate.pc = "idle" /\ op = NoOp /\ BehindOnly("reseal-change")
           /\ change'.pc = "derive" /\ change'.base = keystore /\ change'.new = made.pwd + 1
           /\ change'.all = {i \in Masters : HasVault(i)} /\ change'.todo = change'.all
           /\ change'.missed = {} /\ change'.item = NoItem /\ change'.read = NoSlots
           /\ ~change'.wiped /\ made'.pwd = made.pwd + 1 /\ made'.rec = made.rec
           /\ UNCHANGED <<stored, lists, session, reseal, activate, op>>
<1>1. made \in [pwd : Passwords, rec : Recovery]
  BY DEF TypeInv, BoundsTrue
<1>2. PICK by, key : StartChange(by, key)
  BY DEF ChangePassword, ResetWithRecoveryKey
<1> DEFINE all == {i \in Masters : HasVault(i)}
<1>3. /\ change' = [NoChange EXCEPT !.pc = "derive", !.base = keystore, !.new = made.pwd + 1,
                       !.by = by, !.key = key, !.all = all, !.todo = all]
      /\ made' = [made EXCEPT !.pwd = made.pwd + 1]
  BY <1>2 DEF StartChange
<1> HIDE DEF all
<1>4. /\ change'.pc = "derive" /\ change'.base = keystore /\ change'.new = made.pwd + 1
      /\ change'.all = all /\ change'.todo = all
      /\ change'.missed = {} /\ change'.item = NoItem /\ change'.read = NoSlots /\ ~change'.wiped
  BY <1>3 DEF NoChange
<1> QED BY <1>1, <1>2, <1>3, <1>4 DEF StartChange, Idle, all

\* The steps of a change between its start and the vaults.
LEMMA ChangeDoes ==
    ASSUME TypeInv, Derived \/ SaveChange \/ ChangeNotSaved
    PROVE  /\ UNCHANGED <<lists, session, reseal, activate, op, made>>
           /\ \/ /\ change.pc = "derive" /\ change'.pc = "save" /\ UNCHANGED stored
                 /\ \A f \in {"base", "new", "wiped", "all", "todo", "missed", "item", "read"} :
                       change'[f] = change[f]
              \/ /\ change.pc = "save" /\ change'.pc = "vaults" /\ stored' = NewKeystore
                 /\ \A f \in {"base", "new", "wiped", "all", "todo", "missed", "item", "read"} :
                       change'[f] = change[f]
              \/ /\ change.pc = "save" /\ change' = NoChange
                 /\ stored' \in {stored, NewKeystore} /\ (change.wiped \/ UNCHANGED stored)
<1>1. change \in Changes
  BY DEF TypeInv, ChangeTrue
<1>2. SaveChange \/ ChangeNotSaved => change.pc = "save"
  BY WrittenFlows DEF SaveChange, ChangeNotSaved
<1>3. CASE Derived
  BY <1>1, <1>3 DEF Derived, Changes
<1>4. CASE SaveChange
  BY <1>1, <1>2, <1>4 DEF SaveChange, Changes
<1>5. CASE ChangeNotSaved
  BY <1>1, <1>2, <1>5 DEF ChangeNotSaved
<1> QED BY <1>3, <1>4, <1>5

\* The app is not locked during a change, unless that is allowed.
LEMMA LockDoes ==
    ASSUME TypeInv, Lock
    PROVE  /\ Unlocked /\ Alone(change, "change-lock") /\ Alone(activate, "activate-lock")
           /\ masterKey' = 0 /\ cache' = [i \in Items |-> 0] /\ change'.pc = change.pc
           /\ change.pc = "idle" => change' = change
           /\ \A f \in {"base", "new", "all", "todo", "missed", "item", "read"} :
                 change'[f] = change[f]
           /\ UNCHANGED <<stored, lists, keystore, reseal, activate, op, made>>
<1>1. change \in Changes
  BY DEF TypeInv, ChangeTrue
<1>2. change' = change \/ change' = [change EXCEPT !.wiped = TRUE]
  BY DEF Lock
<1>3. change'.pc = change.pc
  BY <1>1, <1>2 DEF Changes
<1>4. \A f \in {"base", "new", "all", "todo", "missed", "item", "read"} : change'[f] = change[f]
  BY <1>1, <1>2 DEF Changes
<1>5. change.pc = "idle" => change' = change
  BY DEF Lock
<1> QED BY <1>3, <1>4, <1>5 DEF Lock

\* The steps in which a window may open or an update begins.
LEMMA WindowSteps ==
    ASSUME TypeInv, FinishChange \/ Unlock \/ SaveRecoveryKey
    PROVE  /\ UNCHANGED <<vaults, locked, op, cache>> /\ relock' \in Relocks
           /\ \A i \in Items :
                 /\ relock'[i].used = relock[i].used
                 /\ relock'[i] = NoKeys <=> relock[i] = NoKeys
                 /\ \/ relock'[i].pwd = relock[i].pwd
                    \/ FinishChange /\ relock'[i].pwd = change.new
           /\ \/ UNCHANGED reseal /\ \A i \in Items : relock'[i].rec = relock[i].rec
              \/ /\ reseal.pc = "idle" /\ reseal'.pc = "vaults" /\ reseal'.rec = keystore'.rec
                 /\ reseal'.item = NoItem /\ reseal'.read = NoSlots
                 /\ reseal'.todo = {i \in Items : HasVault(i)}
                 /\ \A i \in Items : relock[i] # NoKeys => relock'[i].rec = keystore'.rec
<1>1. /\ relock \in Relocks /\ reseal \in Reseals /\ cache \in [Items -> Passwords \cup {0}]
      /\ keystore \in Keystore /\ keystore.pwd \in Passwords
  BY DEF TypeInv, ListsTrue, ResealTrue, SessionTrue, Keystore
<1>2. CASE FinishChange
  <2>1. change.new \in Passwords /\ NewKeystore \in Keystore /\ 1 \in Recovery
    BY <1>2, BoundAssumption
       DEF FinishChange, AtEnd, TypeInv, ChangeTrue, NewKeystore, Keystore, Recovery
  <2> DEFINE keys == WithPassword(change.new)
  <2>2. PICK flags : WindowOpens(NewKeystore, change.new, keys, flags)
    BY <1>2 DEF FinishChange
  <2>3. /\ keys \in Relocks
        /\ \A i \in Items : /\ keys[i] = NoKeys <=> relock[i] = NoKeys
                            /\ keys[i].pwd \in {change.new, relock[i].pwd}
                            /\ keys[i].rec = relock[i].rec /\ keys[i].used = relock[i].used
    <3>1. \A pwd \in Passwords : \A rec \in Recovery :
             /\ WithPassword(pwd) \in Relocks
             /\ \A i \in Items : /\ WithPassword(pwd)[i] = NoKeys <=> relock[i] = NoKeys
                                 /\ WithPassword(pwd)[i].pwd \in {pwd, relock[i].pwd}
                                 /\ WithPassword(pwd)[i].rec = relock[i].rec
                                 /\ WithPassword(pwd)[i].used = relock[i].used
      BY <1>1, RelockFacts
    <3> QED BY <2>1, <3>1
  <2> HIDE DEF keys
  <2>4. /\ relock' \in Relocks
        /\ \A i \in Items : /\ relock'[i] = NoKeys <=> keys[i] = NoKeys
                            /\ relock'[i].pwd = keys[i].pwd /\ relock'[i].used = keys[i].used
        /\ \/ UNCHANGED reseal /\ relock' = keys
           \/ /\ reseal'.pc = "vaults" /\ reseal'.rec = NewKeystore.rec
              /\ reseal'.item = NoItem /\ reseal'.todo = {i \in Items : HasVault(i)}
              /\ reseal'.read = NoSlots
              /\ \A i \in Items : keys[i] # NoKeys => relock'[i].rec = NewKeystore.rec
    BY <1>1, <2>1, <2>2, <2>3, WindowFacts
  <2>5. keystore' = NewKeystore /\ UNCHANGED <<vaults, locked, op, cache>>
    BY <1>2 DEF FinishChange
  <2>7. \A i \in Items :
           /\ relock'[i].used = relock[i].used
           /\ relock'[i] = NoKeys <=> relock[i] = NoKeys
           /\ \/ relock'[i].pwd = relock[i].pwd
              \/ FinishChange /\ relock'[i].pwd = change.new
    BY <1>2, <2>3, <2>4
  <2>8. CASE UNCHANGED reseal /\ relock' = keys
    BY <1>2, <2>3, <2>4, <2>5, <2>7, <2>8
  <2>9. CASE ~(UNCHANGED reseal /\ relock' = keys)
    <3>1. \A i \in Items : relock[i] # NoKeys => relock'[i].rec = NewKeystore.rec
      BY <2>3, <2>4, <2>9
    <3>2. reseal.pc = "idle"
      BY <2>2, <2>9 DEF WindowOpens, Idle
    <3> QED BY <2>4, <2>5, <2>7, <2>9, <3>1, <3>2
  <2> QED BY <2>8, <2>9
<1>3. CASE Unlock \/ SaveRecoveryKey
  <2>1. PICK ks, key, flags :
           /\ ks \in Keystore /\ key \in Passwords
           /\ \/ WindowOpens(ks, key, relock, flags) \/ UNCHANGED <<reseal, relock>>
              \/ \E by \in {"window", "dialog"} : BeginReseal(by, ks, key, relock, flags)
           /\ keystore' = ks /\ (UNCHANGED <<reseal, relock>> \/ reseal.pc = "idle")
    <3>1. CASE Unlock
      BY <1>1, <3>1 DEF Unlock, WindowOpens, Idle
    <3>2. CASE SaveRecoveryKey
      <4>1. activate.to \in Keystore /\ keystore' = activate.to
        BY <3>2, WrittenFlows DEF SaveRecoveryKey
      <4>2. CASE Unlocked /\ Idle(reseal)
        <5>1. masterKey \in Passwords
          BY <4>2 DEF Unlocked, TypeInv, SessionTrue
        <5> QED BY <3>2, <4>1, <4>2, <5>1 DEF SaveRecoveryKey, Idle
      <4>3. CASE ~(Unlocked /\ Idle(reseal))
        BY <1>1, <3>2, <4>1, <4>3 DEF SaveRecoveryKey
      <4> QED BY <4>2, <4>3
    <3> QED BY <1>3, <3>1, <3>2
  <2>2. \/ UNCHANGED <<reseal, relock>>
        \/ /\ relock' \in Relocks
           /\ \A i \in Items : /\ relock'[i] = NoKeys <=> relock[i] = NoKeys
                               /\ relock'[i].pwd = relock[i].pwd
                               /\ relock'[i].used = relock[i].used
           /\ reseal'.pc = "vaults" /\ reseal'.rec = ks.rec
           /\ reseal'.item = NoItem /\ reseal'.todo = {i \in Items : HasVault(i)}
           /\ reseal'.read = NoSlots
           /\ \A i \in Items : relock[i] # NoKeys => relock'[i].rec = ks.rec
    BY <1>1, <2>1, WindowFacts
  <2>3. UNCHANGED <<vaults, locked, op, cache>>
    BY <1>3 DEF Unlock, SaveRecoveryKey
  <2>4. CASE UNCHANGED <<reseal, relock>>
    BY <1>1, <2>3, <2>4
  <2>5. CASE ~UNCHANGED <<reseal, relock>>
    <3>1. reseal.pc = "idle" /\ keystore' = ks
      BY <2>1, <2>2, <2>5
    <3> QED BY <2>2, <2>3, <2>5, <3>1
  <2> QED BY <2>4, <2>5
<1> QED BY <1>2, <1>3

-------------------------------------------------------------------------------
(* Keys made ahead are there for one vault. *)

LEMMA UsedKeeps ==
    ASSUME UsedTrue, UNCHANGED op, \A i \in Items : relock'[i].used = relock[i].used
    PROVE  UsedTrue'
  BY DEF UsedTrue

LEMMA UsedNext == ASSUME NoCrash, TypeInv, UsedTrue, [Next]_vars PROVE UsedTrue'
<1>1. relock \in Relocks /\ (op.kind # "none" => op.item \in Items)
  BY DEF TypeInv, ListsTrue, OpTrue, NoOp
<1>2. \A i \in Items : op.kind # "lock" \/ ~op.written => ~relock[i].used
  BY DEF UsedTrue
<1>3. NoOp.kind = "none" /\ ~NoKeys.used
  BY DEF NoOp, NoKeys
<1>4. CASE UNCHANGED <<relock, op>>
  BY <1>4, UsedKeeps
<1>5. CASE \E i \in Items : StartLock(i) \/ StartUnlock(i)
  <2>1. op = NoOp /\ relock' = relock
    BY <1>5 DEF StartLock, StartUnlock, OpMayStart, lists
  <2> QED BY <1>2, <1>3, <2>1 DEF UsedTrue
<1>6. CASE WriteVault
  <2>1. \A i \in Items : ~relock[i].used
    BY <1>2, <1>6 DEF WriteVault
  <2>2. /\ op' = [op EXCEPT !.written = TRUE] /\ op.kind = "lock" /\ op \in Ops
        /\ relock' = IF op.prepared THEN [relock EXCEPT ![op.item].used = TRUE] ELSE relock
    BY <1>6 DEF WriteVault, TypeInv, OpTrue
  <2>3. op'.kind = "lock" /\ op'.item = op.item /\ op'.prepared = op.prepared /\ op'.written
    BY <2>2 DEF Ops
  <2>4. \A i \in Items : relock'[i].used => i = op.item /\ op.prepared
    BY <1>1, <2>1, <2>2 DEF Relocks
  <2> QED BY <2>3, <2>4 DEF UsedTrue
<1>7. CASE LockDone
  <2>1. relock' = [relock EXCEPT ![op.item] = NoKeys]
    BY <1>7 DEF LockDone
  <2>2. \A i \in Items : ~relock'[i].used
    BY <1>1, <1>3, <2>1 DEF UsedTrue, Relocks
  <2> QED BY <2>2 DEF UsedTrue
<1>8. CASE LockFails
  <2>1. relock' = IF op.prepared /\ op.written THEN [relock EXCEPT ![op.item] = NoKeys]
                  ELSE relock
    BY <1>8 DEF LockFails
  <2>2. \A i \in Items : ~relock'[i].used
    BY <1>1, <1>3, <2>1 DEF UsedTrue, Relocks
  <2> QED BY <2>2 DEF UsedTrue
<1>9. CASE UnlockDone
  <2>1. \A i \in Items : ~relock[i].used
    BY <1>2, <1>9 DEF UnlockDone
  <2>2. \E key : relock' \in {relock, [relock EXCEPT ![op.item] =
                                  [pwd |-> key, rec |-> keystore.rec, used |-> FALSE]]}
    BY <1>9 DEF UnlockDone
  <2>3. \A i \in Items : ~relock'[i].used
    BY <1>1, <2>1, <2>2 DEF Relocks
  <2> QED BY <2>3 DEF UsedTrue
<1>10. CASE UnlockFails
  <2>1. relock' = relock /\ \A i \in Items : ~relock[i].used
    BY <1>2, <1>10 DEF UnlockFails, lists
  <2> QED BY <2>1 DEF UsedTrue
<1>11. CASE FinishChange \/ Unlock \/ SaveRecoveryKey
  BY <1>11, WindowSteps, UsedKeeps
<1>12. CASE \E i \in Items : RememberMasterKey(i)
  BY <1>4, <1>12 DEF RememberMasterKey, lists
<1>13. CASE \/ ChangePassword \/ ResetWithRecoveryKey \/ Derived \/ SaveChange \/ ChangeNotSaved
            \/ \E i \in Items : RekeyRead(i) \/ RekeyMissed(i)
            \/ RekeyWrite
  BY <1>4, <1>13, StartChangeDoes, ChangeDoes, RekeyKeeps DEF lists
<1>14. CASE \/ Activate \/ RecoveryKeyNotSaved
            \/ \E i \in Items : ResealCurrent(i) \/ ResealRead(i) \/ ResealMissed(i)
            \/ ResealWrite \/ ResealEnds \/ SavePending \/ PendingNotSaved
  <2>1. CASE Activate
    BY <1>4, <2>1, ActivateDoes DEF lists
  <2>2. CASE (\E i \in Items : ResealCurrent(i) \/ ResealRead(i) \/ ResealMissed(i)) \/ ResealWrite
    BY <1>4, <2>2, ResealKeeps
  <2>3. CASE RecoveryKeyNotSaved \/ ResealEnds \/ SavePending \/ PendingNotSaved
    BY <1>4, <2>3 DEF RecoveryKeyNotSaved, ResealEnds, SavePending, PendingNotSaved, lists
  <2> QED BY <1>14, <2>1, <2>2, <2>3
<1>15. CASE Lock
  BY <1>4, <1>15, LockDoes DEF lists
<1>16. ~Crash
  BY DEF Crash, Fault, NoCrash
<1>17. CASE UNCHANGED vars
  BY <1>4, <1>17 DEF vars
<1> QED BY <1>5, <1>6, <1>7, <1>8, <1>9, <1>10, <1>11, <1>12, <1>13, <1>14, <1>15, <1>16, <1>17
        DEF Next, ItemStep, OpStep, ChangeStep, RecoveryStep

\* None of the keys made ahead that a lock has written a vault with is left when
\* the lock is over, done or failed, whatever else happens to the keys meanwhile.
\* A crash in a lock does leave them: recovery knows nothing of them.
THEOREM OneVaultOnly == ASSUME NoCrash PROVE Spec => []OneVault
<1>1. Init => TypeInv /\ UsedTrue
  BY TypeInit DEF Init, UsedTrue, NoKeys
<1>2. TypeInv /\ UsedTrue /\ [Next]_vars => (TypeInv /\ UsedTrue)'
  BY TypeNext, UsedNext
<1>3. UsedTrue => OneVault
  BY DEF UsedTrue, OneVault
<1> QED BY <1>1, <1>2, <1>3, PTL DEF Spec

-------------------------------------------------------------------------------
(* The keystore in memory and the one on the disk. *)

LEMMA AgreeNext == ASSUME ChangeAlone, TypeInv, AgreeInv, [Next]_vars PROVE AgreeInv'
<1>1. /\ change.pc # "vaults" => keystore = stored /\ masterKey \in {0, stored.pwd}
      /\ change.pc # "idle" => reseal.pc = "idle" /\ activate.pc = "idle"
      /\ change.pc \in {"derive", "save"} => change.base = stored
      /\ change.pc = "vaults" => stored = NewKeystore
      /\ activate.pc = "save" => activate.to.pwd = stored.pwd
      /\ reseal.pc = "save" => reseal.to.pwd = stored.pwd
      /\ change.pc \in {"idle", "derive", "save", "vaults"}
      /\ ~change.wiped
  BY DEF AgreeInv, KeystoreAgrees, Idle, TypeInv, ChangeTrue, Changes
<1>2. change.pc # "idle" => change.base \in Keystore /\ change.new \in Passwords
  BY DEF TypeInv, ChangeTrue
<1>3. /\ NewKeystore.pwd = change.new \/ change.pc = "idle"
  BY <1>2 DEF NewKeystore, Keystore
<1>4. NoChange.pc = "idle" /\ NoReseal.pc = "idle" /\ NoActivate.pc = "idle"
      /\ ~NoChange.wiped
  BY NoFlows DEF NoChange
<1>5. ASSUME UNCHANGED <<stored, keystore, masterKey, change, reseal, activate>> PROVE AgreeInv'
  BY <1>5 DEF AgreeInv, KeystoreAgrees, Idle, NewKeystore
<1>6. CASE ItemStep \/ UNCHANGED vars
  BY <1>5, <1>6
     DEF ItemStep, OpStep, RememberMasterKey, StartLock, StartUnlock, WriteVault, LockDone,
         LockFails, UnlockDone, UnlockFails, session, flows, vars
<1>7. CASE ChangePassword \/ ResetWithRecoveryKey
  <2>1. BehindOnly("reseal-change") => reseal.pc = "idle"
    BY DEF BehindOnly, Idle, ChangeAlone
  <2> QED BY <1>1, <1>7, <2>1, StartChangeDoes DEF AgreeInv, KeystoreAgrees, Idle, session
<1>8. CASE Derived \/ SaveChange \/ ChangeNotSaved
  <2>1. UNCHANGED <<keystore, masterKey, reseal, activate>>
    BY <1>8, ChangeDoes DEF session
  <2>2. CASE /\ change.pc = "derive" /\ change'.pc = "save" /\ UNCHANGED stored
             /\ change'.base = change.base /\ ~change'.wiped
    BY <1>1, <2>1, <2>2 DEF AgreeInv, KeystoreAgrees, Idle
  <2>3. CASE /\ change.pc = "save" /\ change'.pc = "vaults" /\ stored' = NewKeystore
             /\ change'.base = change.base /\ change'.new = change.new /\ ~change'.wiped
    <3>1. NewKeystore' = NewKeystore
      BY <2>3 DEF NewKeystore
    <3> QED BY <1>1, <2>1, <2>3, <3>1 DEF AgreeInv, KeystoreAgrees, Idle
  <2>4. CASE change.pc = "save" /\ change' = NoChange /\ UNCHANGED stored
    BY <1>1, <1>4, <2>1, <2>4 DEF AgreeInv, KeystoreAgrees, Idle
  <2> QED BY <1>1, <1>8, <2>2, <2>3, <2>4, ChangeDoes
<1>9. CASE (\E i \in Items : RekeyRead(i) \/ RekeyMissed(i)) \/ RekeyWrite
  <2>1. /\ change.pc = "vaults" /\ change'.pc = "vaults" /\ NewKeystore' = NewKeystore
        /\ change'.wiped = change.wiped /\ UNCHANGED <<stored, reseal, activate>>
    BY <1>9, RekeyKeeps
  <2> QED BY <1>1, <2>1 DEF AgreeInv, KeystoreAgrees, Idle
<1>10. CASE FinishChange
  <2>1. change.pc = "vaults" /\ change' = NoChange /\ keystore' = NewKeystore
        /\ masterKey' = change.new /\ UNCHANGED <<stored, activate>>
    BY <1>10 DEF FinishChange, AtEnd
  <2>2. reseal'.pc # "save"
    BY <1>1, <1>10, <2>1, WindowSteps
  <2> QED BY <1>1, <1>3, <1>4, <2>1, <2>2 DEF AgreeInv, KeystoreAgrees, Idle
<1>11. CASE Activate
  <2>1. /\ change.pc = "idle" /\ activate'.to.pwd = keystore.pwd
        /\ UNCHANGED <<stored, keystore, masterKey, change, reseal>>
    BY <1>11, ActivateDoes DEF session
  <2> QED BY <1>1, <2>1 DEF AgreeInv, KeystoreAgrees, Idle
<1>12. CASE SaveRecoveryKey
  <2>1. /\ activate.pc = "save" /\ stored' = activate.to /\ keystore' = activate.to
        /\ activate' = NoActivate /\ UNCHANGED <<masterKey, change>>
    BY <1>12, WrittenFlows DEF SaveRecoveryKey
  <2>2. change.pc = "idle" /\ activate.to.pwd = stored.pwd
    BY <1>1, <2>1
  <2>3. UNCHANGED reseal \/ reseal'.pc = "vaults"
    BY <1>12, WindowSteps
  <2> QED BY <1>1, <1>4, <2>1, <2>2, <2>3 DEF AgreeInv, KeystoreAgrees, Idle
<1>13. CASE (\E i \in Items : ResealCurrent(i) \/ ResealRead(i) \/ ResealMissed(i)) \/ ResealWrite
  <2>1. /\ reseal.pc = "vaults" /\ reseal'.pc = "vaults"
        /\ UNCHANGED <<stored, keystore, masterKey, change, activate>>
    BY <1>13, ResealKeeps DEF session
  <2> QED BY <1>1, <2>1 DEF AgreeInv, KeystoreAgrees, Idle
<1>14. CASE ResealEnds
  <2>1. /\ reseal.pc = "vaults" /\ (reseal'.pc = "save" => reseal'.to.pwd = keystore.pwd)
        /\ UNCHANGED <<stored, keystore, masterKey, change, activate>>
    BY <1>14, ResealEndDoes DEF ResealEnds, session
  <2> QED BY <1>1, <2>1 DEF AgreeInv, KeystoreAgrees, Idle
<1>15. CASE SavePending
  <2>1. /\ reseal.pc = "save" /\ stored' = reseal.to /\ keystore' = reseal.to
        /\ reseal' = NoReseal /\ UNCHANGED <<masterKey, change, activate>>
    BY <1>15, WrittenFlows DEF SavePending
  <2>2. change.pc = "idle" /\ reseal.to.pwd = stored.pwd
    BY <1>1, <2>1
  <2> QED BY <1>1, <1>4, <2>1, <2>2 DEF AgreeInv, KeystoreAgrees, Idle
<1>16. CASE PendingNotSaved \/ RecoveryKeyNotSaved
  <2>1. /\ UNCHANGED <<stored, keystore, masterKey, change>>
        /\ reseal' \in {reseal, NoReseal} /\ activate' \in {activate, NoActivate}
    BY <1>16 DEF PendingNotSaved, RecoveryKeyNotSaved, session
  <2> QED BY <1>1, <1>4, <2>1 DEF AgreeInv, KeystoreAgrees, Idle, NewKeystore
<1>17. CASE Unlock
  <2>1. /\ change.pc = "idle" /\ masterKey' = keystore.pwd
        /\ UNCHANGED <<stored, keystore, change, activate>>
    BY <1>17 DEF Unlock, Idle
  <2>2. UNCHANGED reseal \/ reseal'.pc = "vaults"
    BY <1>17, WindowSteps
  <2> QED BY <1>1, <2>1, <2>2 DEF AgreeInv, KeystoreAgrees, Idle
<1>18. CASE Lock
  <2>1. /\ Alone(change, "change-lock") /\ masterKey' = 0 /\ change'.pc = change.pc
        /\ UNCHANGED <<stored, keystore, reseal, activate>>
    BY <1>18, LockDoes
  <2>2. change.pc = "idle" /\ change' = change
    BY <1>18, <2>1, LockDoes DEF Alone, Idle, ChangeAlone
  <2> QED BY <1>1, <2>1, <2>2 DEF AgreeInv, KeystoreAgrees, Idle
<1>19. CASE Crash
  BY <1>4, <1>19 DEF Crash, AgreeInv, KeystoreAgrees, Idle
<1> QED BY <1>6, <1>7, <1>8, <1>9, <1>10, <1>11, <1>12, <1>13, <1>14, <1>15, <1>16, <1>17, <1>18,
           <1>19
        DEF Next, ChangeStep, RecoveryStep

\* While no change is at the vaults, the app goes by the keystore that is on the
\* disk, through crashes and failed saves: if no update of the vaults runs beside
\* a change and the app is not locked during one.  Without that, a change puts
\* back a keystore that is not the one saved.
THEOREM KeystoresAgree == ASSUME ChangeAlone PROVE Spec => []KeystoreAgrees
<1>1. Init => TypeInv /\ AgreeInv
  <2>1. ~NoChange.wiped
    BY DEF NoChange
  <2> QED BY <2>1, TypeInit, NoFlows DEF Init, AgreeInv, KeystoreAgrees, Idle
<1>2. TypeInv /\ AgreeInv /\ [Next]_vars => (TypeInv /\ AgreeInv)'
  BY TypeNext, AgreeNext
<1>3. AgreeInv => KeystoreAgrees
  BY DEF AgreeInv
<1> QED BY <1>1, <1>2, <1>3, PTL DEF Spec

-------------------------------------------------------------------------------
(* Nothing that was replaced comes back. *)

LEMMA FlowsThenChange == FlowsAlone => ChangeAlone
  BY DEF FlowsAlone, ChangeAlone

\* Generations are numbers, where there is one.
LEMMA Generations ==
    ASSUME TypeInv
    PROVE  /\ stored.pwd \in Nat /\ stored.rec \in Nat /\ keystore.pwd \in Nat
           /\ keystore.rec \in Nat /\ made.pwd \in Nat /\ made.rec \in Nat /\ masterKey \in Nat
           /\ change.new \in Nat /\ change.read.pwd \in Nat /\ change.read.rec \in Nat
           /\ reseal.rec \in Nat /\ reseal.read.pwd \in Nat /\ reseal.read.rec \in Nat
           /\ op.slots.pwd \in Nat /\ op.slots.rec \in Nat /\ op.typed \in Nat
           /\ change.base.pwd \in Nat /\ change.base.rec \in Nat
           /\ activate.to.pwd \in Nat /\ activate.to.rec \in Nat
           /\ reseal.to.pwd \in Nat /\ reseal.to.rec \in Nat
           /\ \A i \in Items : /\ vaults[i].pwd \in Nat /\ vaults[i].rec \in Nat
                               /\ relock[i].pwd \in Nat /\ relock[i].rec \in Nat
                               /\ cache[i] \in Nat
<1>1. Passwords \cup {0} \subseteq Nat /\ Recovery \cup {0} \subseteq Nat
  BY DEF Passwords, Recovery
<1>2. /\ \A s \in Slots \cup {NoSlots} : s.pwd \in Nat /\ s.rec \in Nat
      /\ \A k \in Prepared \cup {NoKeys} : k.pwd \in Nat /\ k.rec \in Nat
      /\ \A ks \in Keystore \cup {NoKeystore} : ks.pwd \in Nat /\ ks.rec \in Nat
  BY <1>1 DEF Slots, NoSlots, Prepared, NoKeys, Keystore, NoKeystore
<1>3. /\ stored \in Keystore /\ keystore \in Keystore /\ masterKey \in Passwords \cup {0}
      /\ made \in [pwd : Passwords, rec : Recovery]
  BY DEF TypeInv, SessionTrue, BoundsTrue
<1>4. /\ change.new \in Passwords \cup {0} /\ change.read \in Slots \cup {NoSlots}
      /\ change.base \in Keystore \cup {NoKeystore}
  BY DEF TypeInv, ChangeTrue, Changes
<1>5. /\ reseal.rec \in Recovery \cup {0} /\ reseal.read \in Slots \cup {NoSlots}
      /\ reseal.to \in Keystore \cup {NoKeystore} /\ activate.to \in Keystore \cup {NoKeystore}
  BY DEF TypeInv, ResealTrue, Reseals, ActivateTrue, Activates
<1>6. op.slots \in Slots \cup {NoSlots} /\ op.typed \in Passwords \cup {0}
  BY DEF TypeInv, OpTrue, Ops
<1>7. \A i \in Items : /\ vaults[i] \in Slots \cup {NoSlots} /\ relock[i] \in Prepared \cup {NoKeys}
                       /\ cache[i] \in Passwords \cup {0}
  BY DEF TypeInv, ListsTrue, Relocks, SessionTrue
<1>8. made.pwd \in Nat /\ made.rec \in Nat
  BY <1>1, <1>3
<1> QED BY <1>1, <1>2, <1>3, <1>4, <1>5, <1>6, <1>7, <1>8

\* The steps that write the keystore, and what they write.
LEMMA StoredSteps ==
    ASSUME TypeInv, [Next]_vars
    PROVE  \/ UNCHANGED stored
           \/ change.pc = "save" /\ stored' = NewKeystore
           \/ activate.pc = "save" /\ stored' = activate.to
           \/ reseal.pc = "save" /\ stored' = reseal.to
<1>1. CASE ItemStep \/ Unlock \/ Lock \/ Crash \/ ChangePassword \/ ResetWithRecoveryKey
           \/ Activate \/ UNCHANGED vars
  BY <1>1
     DEF ItemStep, OpStep, RememberMasterKey, StartLock, StartUnlock, WriteVault, LockDone,
         LockFails, UnlockDone, UnlockFails, Unlock, Lock, Crash, ChangePassword,
         ResetWithRecoveryKey, StartChange, Activate, vars
<1>2. CASE ChangeStep
  <2>1. CASE Derived \/ SaveChange \/ ChangeNotSaved
    BY <2>1, ChangeDoes
  <2>2. CASE (\E i \in Items : RekeyRead(i) \/ RekeyMissed(i)) \/ RekeyWrite
    BY <2>2, RekeyKeeps
  <2>3. CASE FinishChange
    BY <2>3 DEF FinishChange
  <2> QED BY <1>2, <2>1, <2>2, <2>3 DEF ChangeStep
<1>3. CASE RecoveryStep
  <2>1. CASE SaveRecoveryKey \/ SavePending
    BY <2>1, WrittenFlows DEF SaveRecoveryKey, SavePending
  <2>2. CASE (\E i \in Items : ResealCurrent(i) \/ ResealRead(i) \/ ResealMissed(i)) \/ ResealWrite
    BY <2>2, ResealKeeps
  <2>3. CASE RecoveryKeyNotSaved \/ ResealEnds \/ PendingNotSaved
    BY <2>3 DEF RecoveryKeyNotSaved, ResealEnds, PendingNotSaved
  <2> QED BY <1>3, <2>1, <2>2, <2>3 DEF RecoveryStep
<1> QED BY <1>1, <1>2, <1>3 DEF Next

LEMMA StoredGrows ==
    ASSUME TypeInv, AgreeInv, NewerInv, [Next]_vars
    PROVE  stored.pwd <= stored'.pwd /\ stored.rec <= stored'.rec
<1>1. /\ stored.pwd \in Nat /\ stored.rec \in Nat /\ change.new \in Nat
      /\ activate.to.rec \in Nat
  BY Generations
<1>2. CASE UNCHANGED stored
  BY <1>1, <1>2
<1>3. CASE change.pc = "save" /\ stored' = NewKeystore
  <2>1. change.base = stored /\ stored \in Keystore /\ stored.pwd < change.new
    BY <1>3 DEF AgreeInv, TypeInv, SessionTrue, NewerInv
  <2>2. stored'.pwd = change.new /\ stored'.rec = stored.rec
    BY <1>3, <2>1 DEF NewKeystore, Keystore
  <2> QED BY <1>1, <2>1, <2>2
<1>4. CASE activate.pc = "save" /\ stored' = activate.to
  BY <1>1, <1>4 DEF AgreeInv, NewerInv
<1>5. CASE reseal.pc = "save" /\ stored' = reseal.to
  BY <1>1, <1>5 DEF AgreeInv, NewerInv
<1> QED BY <1>2, <1>3, <1>4, <1>5, StoredSteps

LEMMA NewerNext == ASSUME FlowsAlone, TypeInv, AgreeInv, NewerInv, [Next]_vars PROVE NewerInv'
<1>1. /\ change.pc # "vaults" => keystore = stored /\ masterKey \in {0, stored.pwd}
      /\ change.pc # "idle" => reseal.pc = "idle" /\ activate.pc = "idle"
      /\ change.pc \in {"derive", "save"} => change.base = stored
      /\ change.pc = "vaults" => stored = NewKeystore
      /\ ~change.wiped
      /\ change.pc \in {"idle", "derive", "save", "vaults"}
  BY DEF AgreeInv, KeystoreAgrees, Idle, TypeInv, ChangeTrue, Changes
<1>2. /\ stored.pwd <= made.pwd /\ stored.rec <= made.rec
      /\ change.pc \in {"derive", "save"} => stored.pwd < change.new
      /\ change.pc # "idle" => change.new <= made.pwd
      /\ activate.pc = "save" =>
            /\ Unlocked /\ reseal.pc = "idle"
            /\ stored.rec < activate.to.rec /\ activate.to.rec <= made.rec
      /\ reseal.pc = "save" => reseal.to.rec = stored.rec
  BY DEF NewerInv, Idle
<1>3. /\ stored.pwd \in Nat /\ stored.rec \in Nat /\ change.new \in Nat
      /\ activate.to.rec \in Nat /\ made.pwd \in Nat /\ made.rec \in Nat
  BY Generations
<1>4. NoChange.pc = "idle" /\ NoReseal.pc = "idle" /\ NoActivate.pc = "idle"
  BY NoFlows
<1>5. ASSUME UNCHANGED <<stored, masterKey, change, reseal, activate, made>> PROVE NewerInv'
  BY <1>5 DEF NewerInv, Idle, Unlocked
<1>6. CASE ItemStep \/ UNCHANGED vars
  BY <1>5, <1>6
     DEF ItemStep, OpStep, RememberMasterKey, StartLock, StartUnlock, WriteVault, LockDone,
         LockFails, UnlockDone, UnlockFails, session, flows, vars
<1>7. CASE ChangePassword \/ ResetWithRecoveryKey
  <2>1. /\ change.pc = "idle" /\ activate.pc = "idle" /\ change'.new = made.pwd + 1
        /\ made'.pwd = made.pwd + 1 /\ made'.rec = made.rec
        /\ UNCHANGED <<stored, reseal, activate>>
    BY <1>7, StartChangeDoes
  <2> QED BY <1>2, <1>3, <2>1 DEF NewerInv
<1>8. CASE Derived \/ SaveChange \/ ChangeNotSaved
  <2>1. UNCHANGED <<reseal, activate, made, masterKey>>
    BY <1>8, ChangeDoes DEF session
  <2>2. CASE /\ change.pc = "derive" /\ change'.pc = "save" /\ UNCHANGED stored
             /\ change'.new = change.new
    BY <1>1, <1>2, <2>1, <2>2 DEF NewerInv
  <2>3. CASE /\ change.pc = "save" /\ change'.pc = "vaults" /\ stored' = NewKeystore
             /\ change'.new = change.new
    <3>1. stored'.pwd = change.new /\ stored'.rec = stored.rec
      BY <1>1, <2>3 DEF NewKeystore, Keystore, TypeInv, SessionTrue
    <3> QED BY <1>1, <1>2, <1>3, <2>1, <2>3, <3>1 DEF NewerInv
  <2>4. CASE change.pc = "save" /\ change' = NoChange /\ UNCHANGED stored
    BY <1>1, <1>2, <1>4, <2>1, <2>4 DEF NewerInv
  <2> QED BY <1>1, <1>8, <2>2, <2>3, <2>4, ChangeDoes
<1>9. CASE (\E i \in Items : RekeyRead(i) \/ RekeyMissed(i)) \/ RekeyWrite
  <2>1. /\ change.pc = "vaults" /\ change'.pc = "vaults" /\ change'.new = change.new
        /\ UNCHANGED <<stored, reseal, activate, made>>
    BY <1>9, RekeyKeeps
  <2> QED BY <1>1, <1>2, <2>1 DEF NewerInv
<1>10. CASE FinishChange
  <2>1. change.pc = "vaults" /\ change' = NoChange /\ UNCHANGED <<stored, activate, made>>
    BY <1>10 DEF FinishChange, AtEnd
  <2>2. reseal'.pc # "save"
    BY <1>1, <1>10, <2>1, WindowSteps
  <2> QED BY <1>1, <1>2, <1>4, <2>1, <2>2 DEF NewerInv
<1>11. CASE Activate
  <2>1. /\ Unlocked /\ change.pc = "idle" /\ activate'.to.rec = made.rec + 1
        /\ made'.pwd = made.pwd /\ made'.rec = made.rec + 1
        /\ UNCHANGED <<stored, masterKey, change, reseal>>
    BY <1>11, ActivateDoes DEF session
  <2>2. reseal.pc = "idle"
    BY <1>11 DEF Activate, BehindOnly, Idle, FlowsAlone
  <2> QED BY <1>2, <1>3, <2>1, <2>2 DEF NewerInv, Idle, Unlocked
<1>12. CASE SaveRecoveryKey
  <2>1. /\ activate.pc = "save" /\ stored' = activate.to /\ activate' = NoActivate
        /\ UNCHANGED <<change, made>>
    BY <1>12, WrittenFlows DEF SaveRecoveryKey
  <2>2. change.pc = "idle" /\ stored'.pwd = stored.pwd
    BY <1>1, <2>1 DEF AgreeInv
  <2>3. reseal'.pc # "save"
    BY <1>2, <1>12, <2>1, WindowSteps
  <2> QED BY <1>2, <1>3, <1>4, <2>1, <2>2, <2>3 DEF NewerInv
<1>13. CASE (\E i \in Items : ResealCurrent(i) \/ ResealRead(i) \/ ResealMissed(i)) \/ ResealWrite
  <2>1. /\ reseal.pc = "vaults" /\ reseal'.pc = "vaults"
        /\ UNCHANGED <<stored, masterKey, change, activate, made>>
    BY <1>13, ResealKeeps DEF session
  <2> QED BY <1>2, <2>1 DEF NewerInv
<1>14. CASE ResealEnds
  <2>1. /\ reseal.pc = "vaults" /\ (reseal'.pc = "save" => reseal'.to.rec = keystore.rec)
        /\ UNCHANGED <<stored, masterKey, change, activate, made>>
    BY <1>14, ResealEndDoes DEF ResealEnds, session
  <2> QED BY <1>1, <1>2, <2>1 DEF NewerInv
<1>15. CASE SavePending
  <2>1. /\ reseal.pc = "save" /\ stored' = reseal.to /\ reseal' = NoReseal
        /\ UNCHANGED <<masterKey, change, activate, made>>
    BY <1>15, WrittenFlows DEF SavePending
  <2>2. change.pc = "idle" /\ stored'.pwd = stored.pwd /\ stored'.rec = stored.rec
    BY <1>1, <1>2, <2>1 DEF AgreeInv
  <2> QED BY <1>2, <1>4, <2>1, <2>2 DEF NewerInv
<1>16. CASE PendingNotSaved \/ RecoveryKeyNotSaved
  <2>1. /\ UNCHANGED <<stored, masterKey, change, made>>
        /\ reseal' \in {reseal, NoReseal} /\ activate' \in {activate, NoActivate}
    BY <1>16 DEF PendingNotSaved, RecoveryKeyNotSaved, session
  <2> QED BY <1>2, <1>4, <2>1 DEF NewerInv, Idle, Unlocked
<1>17. CASE Unlock
  <2>1. ~Unlocked /\ change.pc = "idle" /\ UNCHANGED <<stored, change, activate, made>>
    BY <1>17 DEF Unlock, Idle
  <2>2. UNCHANGED reseal \/ reseal'.pc = "vaults"
    BY <1>17, WindowSteps
  <2> QED BY <1>2, <2>1, <2>2 DEF NewerInv
<1>18. CASE Lock
  <2>1. /\ Alone(change, "change-lock") /\ Alone(activate, "activate-lock")
        /\ (change.pc = "idle" => change' = change)
        /\ UNCHANGED <<stored, reseal, activate, made>>
    BY <1>18, LockDoes
  <2>2. change.pc = "idle" /\ activate.pc = "idle"
    BY <2>1 DEF Alone, Idle, FlowsAlone
  <2> QED BY <1>2, <2>1, <2>2 DEF NewerInv
<1>19. CASE Crash
  BY <1>2, <1>4, <1>19 DEF Crash, NewerInv
<1> QED BY <1>6, <1>7, <1>8, <1>9, <1>10, <1>11, <1>12, <1>13, <1>14, <1>15, <1>16, <1>17, <1>18,
           <1>19
        DEF Next, ChangeStep, RecoveryStep

LEMMA FlowsInit == Init => TypeInv /\ AgreeInv /\ NewerInv
<1> SUFFICES ASSUME Init PROVE TypeInv /\ AgreeInv /\ NewerInv
  OBVIOUS
<1>1. ~NoChange.wiped
  BY DEF NoChange
<1>2. AgreeInv
  BY <1>1, NoFlows DEF Init, AgreeInv, KeystoreAgrees, Idle
<1>3. NewerInv
  BY NoFlows DEF Init, NewerInv
<1> QED BY <1>2, <1>3, TypeInit

\* What is saved never brings back a master password or recovery key that was
\* replaced, whichever saves wait in the queue, fail or are lost in a crash: if no
\* update of the vaults runs beside a change or an activation and the app is not
\* locked during one.
THEOREM ReplacedForGood == ASSUME FlowsAlone PROVE Spec => NeverBack
<1> DEFINE I == TypeInv /\ AgreeInv /\ NewerInv
<1>1. Init => I
  BY FlowsInit
<1>2. I /\ [Next]_vars => I'
  BY FlowsThenChange, TypeNext, AgreeNext, NewerNext
<1>3. I /\ [Next]_vars => [stored'.pwd >= stored.pwd /\ stored'.rec >= stored.rec]_vars
  <2> SUFFICES ASSUME I, [Next]_vars PROVE stored'.pwd >= stored.pwd /\ stored'.rec >= stored.rec
    OBVIOUS
  <2>1. stored.pwd <= stored'.pwd /\ stored.rec <= stored'.rec
    BY StoredGrows
  <2>2. TypeInv'
    BY TypeNext
  <2>3. stored.pwd \in Nat /\ stored.rec \in Nat /\ stored'.pwd \in Nat /\ stored'.rec \in Nat
    BY <2>2, Generations DEF TypeInv, SessionTrue, Keystore, Passwords, Recovery
  <2> QED BY <2>1, <2>3
<1> QED BY <1>1, <1>2, <1>3, PTL DEF Spec, NeverBack

-------------------------------------------------------------------------------
(* Slots are never ahead of the keystore that is saved. *)

\* Old slots and keys stay known to a keystore that only grows.
LEMMA StillKnown ==
    ASSUME TypeInv, SlotsInv, TypeInv', stored.pwd <= stored'.pwd, stored.rec <= stored'.rec
    PROVE  /\ \A i \in Items : /\ KnownTo(stored', vaults[i]) /\ KnownTo(stored', relock[i])
                               /\ cache[i] <= stored'.pwd
           /\ KnownTo(stored', keystore) /\ masterKey <= stored'.pwd
           /\ KnownTo(stored', op.slots) /\ op.typed <= stored'.pwd
           /\ KnownTo(stored', change.read)
           /\ KnownTo(stored', reseal.read) /\ reseal.rec <= stored'.rec
           /\ KnownTo(stored', stored) /\ stored'.pwd \in Passwords /\ stored'.rec \in Recovery
           /\ KnownTo(stored', NoSlots) /\ KnownTo(stored', NoKeys)
           /\ 0 <= stored'.pwd /\ 1 <= stored'.pwd /\ 0 <= stored'.rec
<1>1. stored'.pwd \in Passwords /\ stored'.rec \in Recovery
  BY DEF TypeInv, SessionTrue, Keystore
<1>2. stored'.pwd \in Nat /\ stored'.rec \in Nat /\ 1 <= stored'.pwd
  BY <1>1 DEF Passwords, Recovery
<1>3. ASSUME NEW x, x.pwd \in Nat, x.rec \in Nat, KnownTo(stored, x)
      PROVE  KnownTo(stored', x)
  BY <1>2, <1>3, Generations DEF KnownTo
<1>4. \A n \in Nat : (n <= stored.pwd => n <= stored'.pwd) /\ (n <= stored.rec => n <= stored'.rec)
  BY <1>2, Generations
<1>5. KnownTo(stored', stored)
  BY DEF KnownTo
<1>6. KnownTo(stored', NoSlots) /\ KnownTo(stored', NoKeys)
  BY <1>2 DEF KnownTo, NoSlots, NoKeys
<1>7. \A i \in Items : /\ KnownTo(stored', vaults[i]) /\ KnownTo(stored', relock[i])
                       /\ cache[i] <= stored'.pwd
  BY <1>3, <1>4, Generations DEF SlotsInv
<1>8. /\ KnownTo(stored', keystore) /\ masterKey <= stored'.pwd
      /\ KnownTo(stored', op.slots) /\ op.typed <= stored'.pwd
      /\ KnownTo(stored', change.read)
      /\ KnownTo(stored', reseal.read) /\ reseal.rec <= stored'.rec
  BY <1>3, <1>4, Generations DEF SlotsInv
<1> QED BY <1>1, <1>2, <1>5, <1>6, <1>7, <1>8

LEMMA SlotsOps == ASSUME TypeInv, SlotsInv, TypeInv', ItemStep PROVE SlotsInv'
<1>1. UNCHANGED <<stored, keystore, masterKey, change, reseal>>
  BY DEF ItemStep, OpStep, RememberMasterKey, StartLock, StartUnlock, WriteVault, LockDone,
         LockFails, UnlockDone, UnlockFails, session, flows
<1>2. stored.pwd <= stored'.pwd /\ stored.rec <= stored'.rec
  BY <1>1, Generations
<1>3. /\ \A i \in Items : /\ KnownTo(stored', vaults[i]) /\ KnownTo(stored', relock[i])
                          /\ cache[i] <= stored'.pwd
      /\ KnownTo(stored', keystore) /\ masterKey <= stored'.pwd
      /\ KnownTo(stored', op.slots) /\ op.typed <= stored'.pwd
      /\ KnownTo(stored', NoSlots) /\ KnownTo(stored', NoKeys)
      /\ 0 <= stored'.pwd /\ 1 <= stored'.pwd
  BY <1>2, StillKnown
<1>4. KnownTo(stored', keystore') /\ masterKey' <= stored'.pwd /\ KnownTo(stored', change'.read)
      /\ KnownTo(stored', reseal'.read) /\ reseal'.rec <= stored'.rec
  BY <1>1, <1>2, StillKnown
<1>5. ASSUME \A i \in Items : KnownTo(stored', vaults'[i]) /\ KnownTo(stored', relock'[i])
                              /\ cache'[i] <= stored'.pwd,
             KnownTo(stored', op'.slots), op'.typed <= stored'.pwd
      PROVE  SlotsInv'
  BY <1>1, <1>4, <1>5 DEF SlotsInv
<1>6. /\ vaults \in [Items -> Slots \cup {NoSlots}] /\ relock \in Relocks
      /\ cache \in [Items -> Passwords \cup {0}] /\ op \in Ops
      /\ (op.kind # "none" => op.item \in Items)
  BY DEF TypeInv, ListsTrue, SessionTrue, OpTrue, NoOp
<1>7. NoOp.slots = NoSlots /\ NoOp.typed = 0
  BY DEF NoOp
<1>8. ASSUME NEW i \in Items, RememberMasterKey(i) PROVE SlotsInv'
  <2>1. cache' = [cache EXCEPT ![i] = keystore.pwd] /\ UNCHANGED <<vaults, relock, op>>
    BY <1>8 DEF RememberMasterKey, lists
  <2>2. keystore.pwd <= stored'.pwd
    BY <1>3 DEF KnownTo
  <2>3. \A j \in Items : cache'[j] <= stored'.pwd
    BY <1>3, <1>6, <2>1, <2>2
  <2> QED BY <1>3, <1>5, <2>1, <2>3
<1>9. ASSUME NEW i \in Items, StartLock(i) PROVE SlotsInv'
  <2>1. UNCHANGED <<vaults, relock, cache>>
    BY <1>9 DEF StartLock, lists, session
  <2>2. KeyFor(i, cache) <= stored'.pwd /\ keystore.rec <= stored'.rec
    BY <1>3 DEF KeyFor, KnownTo
  <2>3. ASSUME LockWithKey(i) PROVE KnownTo(stored', op'.slots) /\ op'.typed <= stored'.pwd
    <3>1. PICK typed \in {0, 1} :
             op' = [NoOp EXCEPT !.kind = "lock", !.item = i, !.typed = typed,
                    !.slots = [pwd |-> IF typed = 0 THEN KeyFor(i, cache) ELSE typed,
                               rec |-> keystore.rec],
                    !.current = Current(i, KeyFor(i, cache))]
      BY <2>3 DEF LockWithKey
    <3>2. /\ op'.slots = [pwd |-> IF typed = 0 THEN KeyFor(i, cache) ELSE typed,
                          rec |-> keystore.rec]
          /\ op'.typed = typed
      BY <3>1 DEF NoOp
    <3> QED BY <1>3, <2>2, <3>2 DEF KnownTo
  <2>4. ASSUME LockPrepared(i) PROVE KnownTo(stored', op'.slots) /\ op'.typed <= stored'.pwd
    <3>1. /\ op'.slots = [pwd |-> relock[i].pwd, rec |-> relock[i].rec] /\ op'.typed = 0
      BY <2>4 DEF LockPrepared, NoOp
    <3> QED BY <1>3, <3>1 DEF KnownTo
  <2>5. KnownTo(stored', op'.slots) /\ op'.typed <= stored'.pwd
    BY <1>9, <2>3, <2>4 DEF StartLock
  <2> QED BY <1>3, <1>5, <2>1, <2>5
<1>10. ASSUME NEW i \in Items, StartUnlock(i) PROVE SlotsInv'
  <2>1. PICK typed \in {0, vaults[i].pwd} :
           op' = [NoOp EXCEPT !.kind = "unlock", !.item = i, !.typed = typed]
    BY <1>10 DEF StartUnlock
  <2>2. op'.slots = NoSlots /\ op'.typed = typed
    BY <2>1 DEF NoOp
  <2>3. typed <= stored'.pwd
    BY <1>3, <2>1 DEF KnownTo
  <2> QED BY <1>3, <1>5, <1>10, <2>2, <2>3 DEF StartUnlock, lists, session
<1>11. CASE WriteVault
  <2>1. op'.slots = op.slots /\ op'.typed = op.typed /\ UNCHANGED <<vaults, cache>>
    BY <1>6, <1>11 DEF WriteVault, Ops, session
  <2>2. relock' = IF op.prepared THEN [relock EXCEPT ![op.item].used = TRUE] ELSE relock
    BY <1>11 DEF WriteVault
  <2>3. \A i \in Items : relock[i] \in Prepared \cup {NoKeys}
    BY <1>6 DEF Relocks
  <2>4. \A i \in Items : relock'[i].pwd = relock[i].pwd /\ relock'[i].rec = relock[i].rec
    BY <1>6, <2>2, <2>3 DEF Relocks, Prepared, NoKeys
  <2>5. \A i \in Items : KnownTo(stored', relock'[i])
    BY <1>3, <2>4 DEF KnownTo
  <2> QED BY <1>3, <1>5, <2>1, <2>5
<1>12. CASE LockDone
  <2>1. /\ vaults' = [vaults EXCEPT ![op.item] = op.slots]
        /\ relock' = [relock EXCEPT ![op.item] = NoKeys] /\ op' = NoOp
        /\ cache' = IF op.typed # 0 THEN [cache EXCEPT ![op.item] = op.typed] ELSE cache
    BY <1>12 DEF LockDone
  <2>2. \A i \in Items : KnownTo(stored', vaults'[i]) /\ KnownTo(stored', relock'[i])
                         /\ cache'[i] <= stored'.pwd
    BY <1>3, <1>6, <2>1 DEF Relocks
  <2> QED BY <1>3, <1>5, <1>7, <2>1, <2>2
<1>13. CASE LockFails
  <2>1. /\ relock' \in {relock, [relock EXCEPT ![op.item] = NoKeys]} /\ op' = NoOp
        /\ UNCHANGED <<vaults, cache>>
    BY <1>13 DEF LockFails, session
  <2>2. \A i \in Items : KnownTo(stored', relock'[i])
    BY <1>3, <1>6, <2>1 DEF Relocks
  <2> QED BY <1>3, <1>5, <1>7, <2>1, <2>2
<1>14. CASE UnlockDone
  <2> DEFINE c   == IF op.typed # 0 THEN [cache EXCEPT ![op.item] = op.typed] ELSE cache
             key == KeyFor(op.item, c)
  <2>1. /\ cache' = c /\ op' = NoOp /\ op.item \in Items
        /\ relock' = IF key = 0 \/ ~Current(op.item, key) THEN relock
                     ELSE [relock EXCEPT ![op.item] = [pwd |-> key, rec |-> keystore.rec,
                                                       used |-> FALSE]]
        /\ vaults' = [vaults EXCEPT ![op.item] = NoSlots]
    BY <1>6, <1>14 DEF UnlockDone
  <2>2. \A i \in Items : c[i] <= stored'.pwd
    BY <1>3, <1>6
  <2> HIDE DEF c
  <2>3. key <= stored'.pwd /\ keystore.rec <= stored'.rec
    BY <1>3, <2>1, <2>2 DEF KeyFor, KnownTo
  <2> HIDE DEF key
  <2>4. KnownTo(stored', [pwd |-> key, rec |-> keystore.rec, used |-> FALSE])
    BY <2>3 DEF KnownTo
  <2>5. \A i \in Items : KnownTo(stored', vaults'[i]) /\ KnownTo(stored', relock'[i])
    BY <1>3, <1>6, <2>1, <2>4 DEF Relocks
  <2> QED BY <1>3, <1>5, <1>7, <2>1, <2>2, <2>5
<1>15. CASE UnlockFails
  BY <1>3, <1>5, <1>7, <1>15 DEF UnlockFails, lists, session
<1> QED BY <1>8, <1>9, <1>10, <1>11, <1>12, <1>13, <1>14, <1>15 DEF ItemStep, OpStep

LEMMA SlotsNext ==
    ASSUME FlowsAlone, TypeInv, AgreeInv, NewerInv, SlotsInv, [Next]_vars PROVE SlotsInv'
<1>1. TypeInv' /\ stored.pwd <= stored'.pwd /\ stored.rec <= stored'.rec
  BY TypeNext, StoredGrows
<1>2. /\ \A i \in Items : /\ KnownTo(stored', vaults[i]) /\ KnownTo(stored', relock[i])
                          /\ cache[i] <= stored'.pwd
      /\ KnownTo(stored', keystore) /\ masterKey <= stored'.pwd
      /\ KnownTo(stored', op.slots) /\ op.typed <= stored'.pwd
      /\ KnownTo(stored', change.read)
      /\ KnownTo(stored', reseal.read) /\ reseal.rec <= stored'.rec
      /\ KnownTo(stored', stored) /\ KnownTo(stored', NoSlots) /\ KnownTo(stored', NoKeys)
      /\ 0 <= stored'.pwd /\ 1 <= stored'.pwd /\ 0 <= stored'.rec
  BY <1>1, StillKnown
<1>3. KnownTo(stored', stored')
  BY <1>1, Generations DEF KnownTo, TypeInv, SessionTrue, Keystore, Passwords, Recovery
<1>4. NoOp.slots = NoSlots /\ NoOp.typed = 0 /\ NoChange.read = NoSlots /\ NoReseal.read = NoSlots
      /\ NoReseal.rec = 0
  BY DEF NoOp, NoChange, NoReseal
<1>5. ASSUME UNCHANGED <<vaults, relock, cache>> \/
                (\A i \in Items : KnownTo(stored', vaults'[i]) /\ KnownTo(stored', relock'[i])
                                  /\ cache'[i] <= stored'.pwd),
             KnownTo(stored', keystore'), masterKey' <= stored'.pwd,
             UNCHANGED op \/ op' = NoOp,
             KnownTo(stored', change'.read),
             KnownTo(stored', reseal'.read), reseal'.rec <= stored'.rec
      PROVE  SlotsInv'
  BY <1>2, <1>4, <1>5 DEF SlotsInv
<1>6. /\ vaults \in [Items -> Slots \cup {NoSlots}] /\ relock \in Relocks
  BY DEF TypeInv, ListsTrue
<1>7. /\ change.pc # "idle" => reseal.pc = "idle" /\ activate.pc = "idle"
      /\ change.pc = "vaults" => stored = NewKeystore
      /\ change.pc # "vaults" => keystore = stored /\ masterKey \in {0, stored.pwd}
      /\ change.pc # "idle" => change.base \in Keystore
  BY DEF AgreeInv, KeystoreAgrees, Idle, TypeInv, ChangeTrue
<1>8. CASE ItemStep
  BY <1>1, <1>8, SlotsOps
<1>9. CASE UNCHANGED vars
  BY <1>2, <1>5, <1>9 DEF vars
<1>10. CASE ChangePassword \/ ResetWithRecoveryKey
  BY <1>2, <1>5, <1>10, StartChangeDoes DEF lists, session
<1>11. CASE Derived \/ SaveChange \/ ChangeNotSaved
  <2>1. UNCHANGED <<vaults, relock, cache, keystore, masterKey, op, reseal>>
    BY <1>11, ChangeDoes DEF lists, session
  <2>2. change'.read = change.read \/ change'.read = NoSlots
    BY <1>4, <1>11, ChangeDoes
  <2> QED BY <1>2, <1>5, <2>1, <2>2
<1>12. CASE (\E i \in Items : RekeyRead(i) \/ RekeyMissed(i)) \/ RekeyWrite
  <2>1. change.pc = "vaults" /\ UNCHANGED <<stored, relock, cache, keystore, masterKey, op, reseal>>
    BY <1>12, RekeyKeeps DEF session
  <2>2. CASE \E i \in Items : RekeyRead(i) \/ RekeyMissed(i)
    <3>1. UNCHANGED vaults /\ KnownTo(stored', change'.read)
      BY <1>2, <2>2, RekeyDoes DEF RekeyRead, RekeyMissed, lists
    <3> QED BY <1>2, <1>5, <2>1, <3>1
  <2>3. CASE RekeyWrite
    <3>1. /\ change'.read = NoSlots
          /\ vaults' = [vaults EXCEPT ![change.item] =
                           [pwd |-> change.new, rec |-> change.read.rec]]
      BY <2>3, RekeyDoes
    <3>2. stored.pwd = change.new
      BY <1>7, <2>1 DEF NewKeystore, Keystore
    <3>3. KnownTo(stored', [pwd |-> change.new, rec |-> change.read.rec])
      BY <1>2, <3>2 DEF KnownTo
    <3>4. \A i \in Items : KnownTo(stored', vaults'[i])
      BY <1>2, <1>6, <3>1, <3>3
    <3> QED BY <1>2, <1>5, <2>1, <3>1, <3>4
  <2> QED BY <1>12, <2>2, <2>3
<1>13. CASE FinishChange
  <2>1. change.pc = "vaults" /\ change' = NoChange /\ keystore' = NewKeystore
        /\ masterKey' = change.new /\ UNCHANGED <<stored, vaults, cache, op>>
    BY <1>13 DEF FinishChange, AtEnd
  <2>2. keystore' = stored /\ masterKey' = stored.pwd
    BY <1>7, <2>1 DEF NewKeystore, Keystore
  <2>3. \A i \in Items : relock'[i] = NoKeys \/ KnownTo(stored', relock'[i])
    BY <1>2, <1>13, <2>1, <2>2, WindowSteps DEF KnownTo
  <2>4. KnownTo(stored', reseal'.read) /\ reseal'.rec <= stored'.rec
    BY <1>2, <1>13, <2>2, WindowSteps DEF KnownTo
  <2>5. masterKey' <= stored'.pwd
    BY <1>2, <2>2 DEF KnownTo
  <2> QED BY <1>2, <1>4, <1>5, <2>1, <2>2, <2>3, <2>4, <2>5
<1>14. CASE Unlock \/ SaveRecoveryKey
  <2>1. /\ KnownTo(stored', keystore') /\ masterKey' <= stored'.pwd
        /\ UNCHANGED <<vaults, cache, op, change>>
    BY <1>2, <1>3, <1>14 DEF Unlock, SaveRecoveryKey, KnownTo
  <2>2. \A i \in Items : relock'[i].pwd = relock[i].pwd
    <3>1. change.pc # "vaults"
      BY <1>7, <1>14, WrittenFlows DEF Unlock, SaveRecoveryKey, Idle
    <3>2. ~FinishChange
      BY <3>1 DEF FinishChange, AtEnd
    <3> QED BY <1>14, <3>2, WindowSteps
  <2>3. \A i \in Items : relock'[i] = NoKeys \/ KnownTo(stored', relock'[i])
    BY <1>2, <1>14, <2>1, <2>2, WindowSteps DEF KnownTo
  <2>4. KnownTo(stored', reseal'.read) /\ reseal'.rec <= stored'.rec
    BY <1>2, <1>14, <2>1, WindowSteps DEF KnownTo
  <2> QED BY <1>2, <1>4, <1>5, <2>1, <2>3, <2>4
<1>15. CASE (\E i \in Items : ResealCurrent(i) \/ ResealRead(i) \/ ResealMissed(i)) \/ ResealWrite
  <2>1. /\ reseal'.rec = reseal.rec
        /\ UNCHANGED <<stored, relock, cache, keystore, masterKey, op, change>>
    BY <1>15, ResealKeeps DEF session
  <2>2. CASE \E i \in Items : ResealCurrent(i) \/ ResealRead(i) \/ ResealMissed(i)
    <3>1. UNCHANGED vaults /\ KnownTo(stored', reseal'.read)
      BY <1>2, <2>2, ResealDoes DEF ResealCurrent, ResealRead, ResealMissed, lists
    <3> QED BY <1>2, <1>5, <2>1, <3>1
  <2>3. CASE ResealWrite
    <3>1. /\ reseal'.read = NoSlots
          /\ vaults' = [vaults EXCEPT ![reseal.item] =
                           [pwd |-> reseal.read.pwd, rec |-> reseal.rec]]
      BY <2>3, ResealDoes
    <3>2. KnownTo(stored', [pwd |-> reseal.read.pwd, rec |-> reseal.rec])
      BY <1>2 DEF KnownTo
    <3>3. \A i \in Items : KnownTo(stored', vaults'[i])
      BY <1>2, <1>6, <3>1, <3>2
    <3> QED BY <1>2, <1>5, <2>1, <3>1, <3>3
  <2> QED BY <1>15, <2>2, <2>3
<1>16. CASE Activate
  BY <1>2, <1>5, <1>16, ActivateDoes DEF lists, session
<1>17. CASE ResealEnds \/ PendingNotSaved \/ RecoveryKeyNotSaved
  <2>1. UNCHANGED <<vaults, relock, cache, keystore, masterKey, op, change>>
    BY <1>17 DEF ResealEnds, PendingNotSaved, RecoveryKeyNotSaved, lists, session
  <2>2. reseal' = reseal \/ (reseal'.read = NoSlots /\ reseal'.rec = 0)
    BY <1>4, <1>17, ResealEndDoes DEF PendingNotSaved, RecoveryKeyNotSaved
  <2> QED BY <1>2, <1>5, <2>1, <2>2
<1>18. CASE SavePending
  BY <1>2, <1>3, <1>4, <1>5, <1>18 DEF SavePending, lists
<1>19. CASE Lock
  <2>1. /\ masterKey' = 0 /\ cache' = [i \in Items |-> 0] /\ change'.read = change.read
        /\ UNCHANGED <<stored, vaults, relock, keystore, reseal, op>>
    BY <1>19, LockDoes DEF lists
  <2> QED BY <1>2, <1>5, <2>1
<1>20. CASE Crash
  <2>1. /\ keystore' = stored /\ masterKey' = 0 /\ cache' = [i \in Items |-> 0]
        /\ change' = NoChange /\ reseal' = NoReseal /\ op' = NoOp /\ UNCHANGED relock
        /\ Interrupted
    BY <1>20 DEF Crash
  <2>2. \A i \in Items : KnownTo(stored', vaults'[i])
    BY <1>2, <1>6, <2>1 DEF Interrupted
  <2> QED BY <1>2, <1>4, <1>5, <2>1, <2>2
<1> QED BY <1>8, <1>9, <1>10, <1>11, <1>12, <1>13, <1>14, <1>15, <1>16, <1>17, <1>18, <1>19, <1>20
        DEF Next, ChangeStep, RecoveryStep

LEMMA SlotsInit == Init => SlotsInv
<1> SUFFICES ASSUME Init PROVE SlotsInv
  OBVIOUS
<1>1. stored = [pwd |-> 1, rec |-> 1, pending |-> FALSE] /\ keystore = stored /\ masterKey = 1
      /\ op = NoOp /\ change = NoChange /\ reseal = NoReseal
  BY DEF Init
<1>2. \A i \in Items : /\ vaults[i] = NoSlots \/ vaults[i] = [pwd |-> 1, rec |-> 1]
                       /\ relock[i] = NoKeys /\ cache[i] = 0
  BY DEF Init
<1> QED BY <1>1, <1>2 DEF SlotsInv, KnownTo, NoSlots, NoKeys, NoOp, NoChange, NoReseal

\* No vault gets a slot for a master password or recovery key before the keystore
\* with it is saved, whatever flow, made key or retry writes the slot, and through
\* crashes: if no update of the vaults runs beside a change or an activation and
\* the app is not locked during one.
THEOREM SavedBeforeUsed == ASSUME FlowsAlone PROVE Spec => []SavedFirst
<1> DEFINE I == TypeInv /\ AgreeInv /\ NewerInv /\ SlotsInv
<1>1. Init => I
  BY FlowsInit, SlotsInit
<1>2. I /\ [Next]_vars => I'
  BY FlowsThenChange, TypeNext, AgreeNext, NewerNext, SlotsNext
<1>3. I => SavedFirst
  BY DEF SlotsInv, KnownTo, SavedFirst
<1> QED BY <1>1, <1>2, <1>3, PTL DEF Spec

-------------------------------------------------------------------------------
(* Vaults, and what flows and operations know of them. *)

LEMMA OpsThenFlows == OpsAlone => FlowsAlone /\ ChangeAlone
  BY DEF OpsAlone, FlowsAlone, ChangeAlone

\* The slots of a vault are not those of none.
LEMMA VaultSlots ==
    ASSUME TypeInv
    PROVE  /\ vaults \in [Items -> Slots \cup {NoSlots}] /\ NoSlots \notin Slots
           /\ \A i \in Items : HasVault(i) <=> vaults[i] \in Slots
           /\ op.kind = "lock" => op.slots \in Slots
           /\ op.kind # "none" => op.item \in Items
           /\ op \in Ops /\ NoOp.kind = "none"
           /\ change.item # NoItem => change.pc = "vaults"
           /\ reseal.item # NoItem => reseal.pc = "vaults"
           /\ change.item \in Items \cup {NoItem} /\ reseal.item \in Items \cup {NoItem}
           /\ NoItem \notin Items /\ NoChange.item = NoItem /\ NoReseal.item = NoItem
<1>1. 0 \notin Passwords
  BY DEF Passwords
<1>2. NoSlots \notin Slots
  BY <1>1 DEF NoSlots, Slots
<1>3. /\ vaults \in [Items -> Slots \cup {NoSlots}]
      /\ \A i \in Items : HasVault(i) <=> vaults[i] \in Slots
  BY <1>2 DEF TypeInv, ListsTrue, HasVault
<1>4. /\ op.kind = "lock" => op.slots \in Slots
      /\ op.kind # "none" => op.item \in Items
      /\ op \in Ops /\ NoOp.kind = "none"
  BY DEF TypeInv, OpTrue, NoOp
<1>5. /\ change.item # NoItem => change.pc = "vaults"
      /\ change.item \in Items \cup {NoItem}
  BY DEF TypeInv, ChangeTrue, Changes, Masters
<1>6. /\ reseal.item # NoItem => reseal.pc = "vaults"
      /\ reseal.item \in Items \cup {NoItem}
  BY DEF TypeInv, ResealTrue, Reseals
<1> QED BY <1>2, <1>3, <1>4, <1>5, <1>6, NoFlows, ItemAssumption

\* What the steps of a lock or unlock keep, and where the flows are meanwhile.
LEMMA OpsMeet ==
    ASSUME OpsAlone, TypeInv, VaultsInv, ItemStep
    PROVE  /\ change.pc = "idle" /\ activate.pc = "idle" /\ change.item = NoItem
           /\ UNCHANGED <<stored, keystore, masterKey, change, activate, reseal, saving, made,
                          faults>>
<1>1. UNCHANGED <<stored, keystore, masterKey, change, activate, reseal, saving, made, faults>>
  BY DEF ItemStep, OpStep, RememberMasterKey, StartLock, StartUnlock, WriteVault, LockDone,
         LockFails, UnlockDone, UnlockFails, session, flows
<1>2. CASE \E i \in Items : RememberMasterKey(i) \/ StartLock(i) \/ StartUnlock(i)
  <2>1. change.pc = "idle" /\ activate.pc = "idle"
    BY <1>2 DEF RememberMasterKey, StartLock, StartUnlock, OpMayStart, Alone, Idle, OpsAlone
  <2> QED BY <1>1, <2>1, VaultSlots
<1>3. CASE OpStep
  <2>1. op.kind # "none"
    BY <1>3 DEF OpStep, WriteVault, LockDone, LockFails, UnlockDone, UnlockFails
  <2>2. op # NoOp
    BY <2>1, NoFlows
  <2>3. change.pc = "idle" /\ activate.pc = "idle"
    BY <2>2 DEF VaultsInv
  <2> QED BY <1>1, <2>3, VaultSlots
<1> QED BY <1>2, <1>3 DEF ItemStep

LEMMA VaultsOps == ASSUME OpsAlone, TypeInv, VaultsInv, ItemStep PROVE VaultsInv'
<1>1. /\ change.pc = "idle" /\ activate.pc = "idle" /\ change.item = NoItem
      /\ UNCHANGED <<change, activate, reseal>>
  BY OpsMeet
<1>2. /\ vaults \in [Items -> Slots \cup {NoSlots}] /\ NoSlots \notin Slots
      /\ \A i \in Items : HasVault(i) <=> vaults[i] \in Slots
      /\ op.kind = "lock" => op.slots \in Slots
      /\ op.kind # "none" => op.item \in Items
      /\ op \in Ops /\ NoOp.kind = "none"
      /\ reseal.item \in Items \cup {NoItem} /\ NoItem \notin Items
  BY VaultSlots
<1>3. /\ \A i \in Items : (HasVault(i) <=> i \in locked)
      /\ op.kind = "lock" => op.item \notin locked
      /\ reseal.item # NoItem => reseal.item \in locked /\ reseal.read = vaults[reseal.item]
  BY DEF VaultsInv
<1>4. ASSUME \A i \in Items : (vaults'[i] # NoSlots <=> i \in locked'),
             op'.kind = "lock" => op'.item \notin locked',
             reseal.item # NoItem => reseal.item \in locked' /\ reseal.read = vaults'[reseal.item]
      PROVE  VaultsInv'
  BY <1>1, <1>4 DEF VaultsInv, HasVault
<1>5. ASSUME NEW i \in Items, RememberMasterKey(i) PROVE VaultsInv'
  BY <1>3, <1>4, <1>5 DEF RememberMasterKey, lists, HasVault
<1>6. ASSUME NEW i \in Items, StartLock(i) PROVE VaultsInv'
  <2>1. UNCHANGED <<vaults, locked>> /\ i \notin locked
    BY <1>6 DEF StartLock, lists
  <2>2. op'.item = i
    BY <1>6 DEF StartLock, LockWithKey, LockPrepared, NoOp
  <2> QED BY <1>3, <1>4, <2>1, <2>2 DEF HasVault
<1>7. ASSUME NEW i \in Items, StartUnlock(i) PROVE VaultsInv'
  <2>1. UNCHANGED <<vaults, locked>>
    BY <1>7 DEF StartUnlock, lists
  <2>2. op'.kind = "unlock"
    BY <1>7 DEF StartUnlock, NoOp
  <2> QED BY <1>3, <1>4, <2>1, <2>2 DEF HasVault
<1>8. CASE WriteVault
  <2>1. UNCHANGED <<vaults, locked>> /\ op.kind = "lock" /\ op'.item = op.item
    BY <1>2, <1>8 DEF WriteVault, Ops
  <2> QED BY <1>3, <1>4, <2>1 DEF HasVault
<1>9. CASE LockDone
  <2>1. /\ op.kind = "lock" /\ op' = NoOp /\ vaults' = [vaults EXCEPT ![op.item] = op.slots]
        /\ locked' = locked \cup {op.item} /\ op.slots \in Slots /\ op.item \in Items
    BY <1>2, <1>9 DEF LockDone
  <2>2. \A i \in Items : (vaults'[i] # NoSlots <=> i \in locked')
    BY <1>2, <1>3, <2>1 DEF HasVault
  <2>3. reseal.item # op.item \/ reseal.item = NoItem
    BY <1>3, <2>1
  <2> QED BY <1>2, <1>3, <1>4, <2>1, <2>2, <2>3
<1>10. CASE LockFails \/ UnlockFails
  <2>1. UNCHANGED <<vaults, locked>> /\ op' = NoOp
    BY <1>10 DEF LockFails, UnlockFails, lists
  <2> QED BY <1>2, <1>3, <1>4, <2>1 DEF HasVault
<1>11. CASE UnlockDone
  <2>1. /\ op.kind = "unlock" /\ op' = NoOp /\ vaults' = [vaults EXCEPT ![op.item] = NoSlots]
        /\ locked' = locked \ {op.item} /\ op.item \in Items /\ reseal.item # op.item
    BY <1>2, <1>11 DEF UnlockDone, NotRewritten
  <2>2. \A i \in Items : (vaults'[i] # NoSlots <=> i \in locked')
    BY <1>2, <1>3, <2>1 DEF HasVault
  <2> QED BY <1>2, <1>3, <1>4, <2>1, <2>2
<1> QED BY <1>5, <1>6, <1>7, <1>8, <1>9, <1>10, <1>11 DEF ItemStep, OpStep

LEMMA VaultsNext == ASSUME OpsAlone, TypeInv, AgreeInv, VaultsInv, [Next]_vars PROVE VaultsInv'
<1>1. /\ vaults \in [Items -> Slots \cup {NoSlots}] /\ NoSlots \notin Slots
      /\ \A i \in Items : HasVault(i) <=> vaults[i] \in Slots
      /\ op.kind = "lock" => op.slots \in Slots
      /\ op.kind # "none" => op.item \in Items
      /\ NoOp.kind = "none"
      /\ change.item # NoItem => change.pc = "vaults"
      /\ reseal.item # NoItem => reseal.pc = "vaults"
      /\ change.item \in Items \cup {NoItem} /\ reseal.item \in Items \cup {NoItem}
      /\ NoItem \notin Items /\ NoChange.item = NoItem /\ NoReseal.item = NoItem
      /\ NoChange.pc = "idle" /\ NoActivate.pc = "idle"
  BY VaultSlots, NoFlows
<1>2. /\ \A i \in Items : (HasVault(i) <=> i \in locked)
      /\ op.kind = "lock" => op.item \notin locked
      /\ (change.pc # "idle" \/ activate.pc # "idle") => op = NoOp
      /\ change.item # NoItem => change.item \in locked /\ change.read = vaults[change.item]
      /\ reseal.item # NoItem => reseal.item \in locked /\ reseal.read = vaults[reseal.item]
      /\ change.pc # "idle" => reseal.pc = "idle" /\ activate.pc = "idle"
  BY DEF VaultsInv, AgreeInv, Idle
<1>3. ASSUME UNCHANGED <<vaults, locked, op>>,
             (change'.pc # "idle" \/ activate'.pc # "idle") => op = NoOp,
             change'.item = NoItem \/ (change'.item = change.item /\ change'.read = change.read),
             reseal'.item = NoItem \/ (reseal'.item = reseal.item /\ reseal'.read = reseal.read)
      PROVE  VaultsInv'
  BY <1>2, <1>3 DEF VaultsInv, HasVault
<1>4. CASE ItemStep
  BY <1>4, VaultsOps
<1>5. CASE UNCHANGED vars
  BY <1>2, <1>3, <1>5 DEF vars
<1>6. CASE ChangePassword \/ ResetWithRecoveryKey
  BY <1>3, <1>6, StartChangeDoes DEF lists
<1>7. CASE Derived \/ SaveChange \/ ChangeNotSaved
  <2>1. /\ UNCHANGED <<vaults, locked, op, activate, reseal>> /\ change.pc # "idle"
        /\ change'.item = NoItem \/ (change'.item = change.item /\ change'.read = change.read)
    BY <1>1, <1>7, ChangeDoes DEF lists
  <2> QED BY <1>2, <1>3, <2>1
<1>8. ASSUME NEW i \in Items, RekeyRead(i) PROVE VaultsInv'
  <2>1. /\ change.pc = "vaults" /\ change'.item = i /\ change'.read = vaults[i] /\ HasVault(i)
        /\ UNCHANGED <<vaults, locked, op, activate, reseal>>
    BY <1>8, RekeyDoes DEF RekeyRead, lists
  <2> QED BY <1>2, <2>1 DEF VaultsInv, HasVault
<1>9. ASSUME NEW i \in Items, RekeyMissed(i) PROVE VaultsInv'
  <2>1. /\ change.pc = "vaults" /\ change'.item = change.item /\ change'.read = change.read
        /\ UNCHANGED <<vaults, locked, op, activate, reseal>>
    BY <1>9, RekeyDoes DEF RekeyMissed, lists
  <2> QED BY <1>2, <1>3, <2>1
<1>10. CASE RekeyWrite
  <2>1. /\ change.pc = "vaults" /\ change'.pc = "vaults" /\ change.item \in Items
        /\ change'.item = NoItem /\ UNCHANGED <<locked, op, activate, reseal>>
        /\ vaults' = [vaults EXCEPT ![change.item] = [pwd |-> change.new, rec |-> change.read.rec]]
    BY <1>10, RekeyDoes, RekeyKeeps DEF Masters
  <2>2. [pwd |-> change.new, rec |-> change.read.rec] # NoSlots
    <3>1. change.new \in Passwords
      BY <2>1 DEF TypeInv, ChangeTrue
    <3> QED BY <3>1 DEF NoSlots, Passwords
  <2>3. change.item \in locked
    BY <1>1, <1>2, <2>1
  <2>4. \A i \in Items : (vaults'[i] # NoSlots <=> i \in locked)
    BY <1>1, <1>2, <2>1, <2>2, <2>3 DEF HasVault
  <2>5. reseal.item = NoItem
    BY <1>1, <1>2, <2>1
  <2> QED BY <1>2, <2>1, <2>4, <2>5 DEF VaultsInv, HasVault
<1>11. CASE FinishChange
  <2>1. /\ change.pc = "vaults" /\ change' = NoChange
        /\ UNCHANGED <<vaults, locked, op, activate>>
        /\ reseal' = reseal \/ reseal'.item = NoItem
    BY <1>11, WindowSteps DEF FinishChange, AtEnd
  <2> QED BY <1>1, <1>2, <1>3, <2>1
<1>12. CASE Unlock \/ SaveRecoveryKey
  <2>1. /\ activate' \in {activate, NoActivate} /\ change' = change
        /\ UNCHANGED <<vaults, locked, op>> /\ (reseal' = reseal \/ reseal'.item = NoItem)
    BY <1>12, WindowSteps DEF Unlock, SaveRecoveryKey
  <2> QED BY <1>1, <1>2, <1>3, <2>1
<1>13. CASE Activate
  <2>1. op = NoOp /\ UNCHANGED <<vaults, locked, op, change, reseal>>
    BY <1>13, ActivateDoes DEF lists
  <2> QED BY <1>3, <2>1
<1>14. CASE RecoveryKeyNotSaved \/ PendingNotSaved \/ SavePending
  <2>1. /\ activate' \in {activate, NoActivate} /\ change' = change
        /\ UNCHANGED <<vaults, locked, op>> /\ reseal' \in {reseal, NoReseal}
    BY <1>14 DEF RecoveryKeyNotSaved, PendingNotSaved, SavePending, lists
  <2> QED BY <1>1, <1>2, <1>3, <2>1
<1>15. ASSUME NEW i \in Items, ResealRead(i) PROVE VaultsInv'
  <2>1. /\ reseal'.item = i /\ reseal'.read = vaults[i] /\ HasVault(i)
        /\ UNCHANGED <<vaults, locked, op, activate, change>>
    BY <1>15, ResealDoes DEF ResealRead, lists
  <2> QED BY <1>2, <2>1 DEF VaultsInv, HasVault
<1>16. ASSUME NEW i \in Items, ResealCurrent(i) \/ ResealMissed(i) PROVE VaultsInv'
  <2>1. /\ reseal'.item = reseal.item /\ reseal'.read = reseal.read
        /\ UNCHANGED <<vaults, locked, op, activate, change>>
    BY <1>16, ResealDoes DEF ResealCurrent, ResealMissed, lists
  <2> QED BY <1>2, <1>3, <2>1
<1>17. CASE ResealWrite
  <2>1. /\ reseal.pc = "vaults" /\ reseal.item \in Items
        /\ reseal'.item = NoItem /\ UNCHANGED <<locked, op, activate, change>>
        /\ vaults' = [vaults EXCEPT ![reseal.item] = [pwd |-> reseal.read.pwd, rec |-> reseal.rec]]
    BY <1>17, ResealDoes, ResealKeeps
  <2>2. [pwd |-> reseal.read.pwd, rec |-> reseal.rec] # NoSlots
    <3>1. reseal.rec \in Recovery
      BY <2>1 DEF TypeInv, ResealTrue
    <3> QED BY <3>1 DEF NoSlots, Recovery
  <2>3. reseal.item \in locked
    BY <1>1, <1>2, <2>1
  <2>4. \A i \in Items : (vaults'[i] # NoSlots <=> i \in locked)
    BY <1>1, <1>2, <2>1, <2>2, <2>3 DEF HasVault
  <2>5. change.item = NoItem
    BY <1>1, <1>2, <2>1
  <2> QED BY <1>2, <2>1, <2>4, <2>5 DEF VaultsInv, HasVault
<1>18. CASE ResealEnds
  <2>1. reseal'.item = NoItem /\ UNCHANGED <<vaults, locked, op, activate, change>>
    BY <1>18, ResealEndDoes DEF ResealEnds, lists
  <2> QED BY <1>2, <1>3, <2>1
<1>19. CASE Lock
  <2>1. /\ change'.pc = change.pc /\ change'.item = change.item /\ change'.read = change.read
        /\ UNCHANGED <<vaults, locked, op, activate, reseal>>
    BY <1>19, LockDoes DEF lists
  <2> QED BY <1>2, <1>3, <2>1
<1>20. CASE Crash
  <2>1. /\ change' = NoChange /\ reseal' = NoReseal /\ activate' = NoActivate /\ op' = NoOp
        /\ Interrupted
    BY <1>20 DEF Crash
  <2>2. \A i \in Items : (vaults'[i] # NoSlots <=> i \in locked')
    <3>1. CASE UNCHANGED <<vaults, locked>>
      BY <1>2, <3>1 DEF HasVault
    <3>2. CASE /\ op.kind = "lock" /\ vaults' = [vaults EXCEPT ![op.item] = op.slots]
               /\ locked' = locked \cup {op.item}
      BY <1>1, <1>2, <3>2 DEF HasVault
    <3>3. CASE /\ op.kind = "unlock" /\ vaults' = [vaults EXCEPT ![op.item] = NoSlots]
               /\ locked' = locked \ {op.item}
      BY <1>1, <1>2, <3>3 DEF HasVault
    <3> QED BY <2>1, <3>1, <3>2, <3>3 DEF Interrupted
  <2> QED BY <1>1, <2>1, <2>2 DEF VaultsInv, HasVault
<1> QED BY <1>4, <1>5, <1>6, <1>7, <1>8, <1>9, <1>10, <1>11, <1>12, <1>13, <1>14, <1>15, <1>16,
           <1>17, <1>18, <1>19, <1>20
        DEF Next, ChangeStep, RecoveryStep

LEMMA VaultsInit == Init => VaultsInv
<1> SUFFICES ASSUME Init PROVE VaultsInv
  OBVIOUS
<1>1. \A i \in Items : (HasVault(i) <=> i \in locked)
  BY DEF Init, HasVault, NoSlots
<1> QED BY <1>1, NoFlows DEF Init, VaultsInv

-------------------------------------------------------------------------------
(* The new password opens what the old one did. *)

LEMMA PasswordOps ==
    ASSUME OpsAlone, TypeInv, AgreeInv, VaultsInv, PasswordInv, ItemStep
    PROVE  PasswordInv'
<1>1. /\ change.pc = "idle" /\ UNCHANGED <<stored, keystore, masterKey, change>>
  BY OpsMeet
<1>2. /\ vaults \in [Items -> Slots \cup {NoSlots}]
      /\ op.kind # "none" => op.item \in Items
      /\ op \in Ops /\ NoOp.kind = "none" /\ Masters \subseteq Items
  BY VaultSlots DEF Masters
<1>3. keystore = stored
  BY <1>1 DEF AgreeInv, KeystoreAgrees
<1>4. /\ \A i \in Masters \ flagged : vaults[i] # NoSlots => vaults[i].pwd = stored.pwd
      /\ op.kind = "lock" /\ op.item \in Masters /\ ~op.prepared /\ op.current
            => op.slots.pwd = keystore.pwd
  BY <1>1 DEF PasswordInv, NewPasswordOpens, HasVault
<1>5. ASSUME \A i \in Masters \ flagged' : vaults'[i] # NoSlots => vaults'[i].pwd = stored.pwd,
             op'.kind = "lock" /\ op'.item \in Masters /\ ~op'.prepared /\ op'.current
                => op'.slots.pwd = keystore.pwd
      PROVE  PasswordInv'
  BY <1>1, <1>5 DEF PasswordInv, NewPasswordOpens, HasVault
<1>6. ASSUME NEW i \in Items, RememberMasterKey(i) \/ StartUnlock(i) PROVE PasswordInv'
  <2>1. UNCHANGED <<vaults, flagged>> /\ (op' = op \/ op'.kind = "unlock")
    BY <1>6 DEF RememberMasterKey, StartUnlock, lists, NoOp
  <2> QED BY <1>4, <1>5, <2>1
<1>7. ASSUME NEW i \in Items, StartLock(i) PROVE PasswordInv'
  <2>1. UNCHANGED <<vaults, flagged>>
    BY <1>7 DEF StartLock, lists
  <2>2. ASSUME LockWithKey(i), i \in Masters, op'.current
        PROVE  op'.slots.pwd = keystore.pwd
    <3>1. PICK typed \in {0, 1} :
             /\ IF typed = 0 THEN KeyFor(i, cache) # 0
                ELSE i \in Own /\ cache[i] = 0 /\ ~HasKeys(i)
             /\ op' = [NoOp EXCEPT !.kind = "lock", !.item = i, !.typed = typed,
                    !.slots = [pwd |-> IF typed = 0 THEN KeyFor(i, cache) ELSE typed,
                               rec |-> keystore.rec],
                    !.current = Current(i, KeyFor(i, cache))]
      BY <2>2 DEF LockWithKey
    <3>2. typed = 0
      BY <2>2, <3>1 DEF Masters
    <3>3. op'.slots.pwd = KeyFor(i, cache) /\ op'.current = Current(i, KeyFor(i, cache))
      BY <3>1, <3>2 DEF NoOp
    <3> QED BY <2>2, <3>3 DEF Current
  <2>3. op'.item = i /\ (LockWithKey(i) \/ op'.prepared)
    BY <1>7 DEF StartLock, LockWithKey, LockPrepared, NoOp
  <2> QED BY <1>4, <1>5, <2>1, <2>2, <2>3
<1>8. CASE WriteVault
  <2>1. /\ UNCHANGED <<vaults, flagged>> /\ op.kind = "lock" /\ op'.item = op.item
        /\ op'.prepared = op.prepared /\ op'.current = op.current /\ op'.slots = op.slots
    BY <1>2, <1>8 DEF WriteVault, Ops
  <2> QED BY <1>4, <1>5, <2>1
<1>9. CASE LockDone
  <2> DEFINE current == IF op.prepared THEN Current(op.item, op.slots.pwd) ELSE op.current
  <2>1. /\ op.kind = "lock" /\ op' = NoOp /\ vaults' = [vaults EXCEPT ![op.item] = op.slots]
        /\ flagged' = IF current THEN flagged \ {op.item} ELSE flagged \cup {op.item}
    BY <1>9 DEF LockDone
  <2>2. op.item \in Masters /\ current => op.slots.pwd = stored.pwd
    BY <1>3, <1>4, <2>1 DEF Current
  <2> HIDE DEF current
  <2>3. \A i \in Masters \ flagged' : vaults'[i] # NoSlots => vaults'[i].pwd = stored.pwd
    BY <1>2, <1>4, <2>1, <2>2
  <2> QED BY <1>2, <1>5, <2>1, <2>3
<1>10. CASE LockFails \/ UnlockFails
  <2>1. UNCHANGED <<vaults, flagged>> /\ op' = NoOp
    BY <1>10 DEF LockFails, UnlockFails, lists
  <2> QED BY <1>2, <1>4, <1>5, <2>1
<1>11. CASE UnlockDone
  <2>1. /\ op.kind = "unlock" /\ op' = NoOp /\ vaults' = [vaults EXCEPT ![op.item] = NoSlots]
        /\ flagged' = flagged \ {op.item} /\ op.item \in Items
    BY <1>2, <1>11 DEF UnlockDone
  <2>2. \A i \in Masters \ flagged' : vaults'[i] # NoSlots => vaults'[i].pwd = stored.pwd
    BY <1>2, <1>4, <2>1
  <2> QED BY <1>2, <1>5, <2>1, <2>2
<1> QED BY <1>6, <1>7, <1>8, <1>9, <1>10, <1>11 DEF ItemStep, OpStep

LEMMA PasswordNext ==
    ASSUME OpsAlone, NoCrash, TypeInv, AgreeInv, VaultsInv, PasswordInv, [Next]_vars
    PROVE  PasswordInv'
<1>1. /\ change.pc # "vaults" => keystore = stored
      /\ change.pc # "idle" => reseal.pc = "idle" /\ activate.pc = "idle" /\ op = NoOp
      /\ activate.pc # "idle" => op = NoOp
      /\ change.pc = "vaults" => stored = NewKeystore
      /\ activate.pc = "save" => activate.to.pwd = stored.pwd
      /\ reseal.pc = "save" => reseal.to.pwd = stored.pwd
      /\ ~change.wiped
      /\ change.item # NoItem => change.read = vaults[change.item]
      /\ reseal.item # NoItem => reseal.read = vaults[reseal.item]
  BY DEF AgreeInv, KeystoreAgrees, VaultsInv, Idle
<1>2. /\ change.pc # "vaults" =>
            \A i \in Masters \ flagged : vaults[i] # NoSlots => vaults[i].pwd = stored.pwd
      /\ op.kind = "lock" /\ op.item \in Masters /\ ~op.prepared /\ op.current
            => op.slots.pwd = keystore.pwd
      /\ change.pc # "idle" => change.all = {i \in Masters : vaults[i] # NoSlots}
      /\ change.pc \in {"derive", "save"} => change.todo = change.all
      /\ change.pc = "vaults" =>
            \A i \in change.all : i \in change.todo \/ i \in change.missed \/ i = change.item
                                  \/ vaults[i].pwd = stored.pwd
  BY DEF PasswordInv, NewPasswordOpens, HasVault, Opens
<1>3. /\ vaults \in [Items -> Slots \cup {NoSlots}] /\ NoSlots \notin Slots
      /\ \A i \in Items : HasVault(i) <=> vaults[i] \in Slots
      /\ NoOp.kind = "none" /\ NoItem \notin Items
      /\ NoChange.pc = "idle"
  BY VaultSlots, NoFlows
<1>4. Masters \subseteq Items /\ (change.pc # "idle" => change.base \in Keystore)
  BY DEF Masters, TypeInv, ChangeTrue
\* What stays the same while no change is at the vaults.
<1>5. ASSUME change.pc = "idle", change'.pc = "idle", stored'.pwd = stored.pwd,
             op = NoOp \/ keystore'.pwd = keystore.pwd, UNCHANGED <<op, flagged>>,
             \A i \in Masters : /\ vaults'[i] # NoSlots => vaults[i] # NoSlots
                                /\ vaults'[i].pwd = vaults[i].pwd
      PROVE  PasswordInv'
  BY <1>2, <1>3, <1>5 DEF PasswordInv, NewPasswordOpens, HasVault
<1>6. CASE ItemStep
  BY <1>6, PasswordOps
<1>7. CASE UNCHANGED vars
  BY <1>7 DEF vars, PasswordInv, NewPasswordOpens, HasVault, Opens
<1>8. CASE ChangePassword \/ ResetWithRecoveryKey
  <2>1. /\ change.pc = "idle" /\ op = NoOp /\ change'.pc = "derive"
        /\ change'.all = {i \in Masters : HasVault(i)} /\ change'.todo = change'.all
        /\ UNCHANGED <<stored, vaults, flagged, keystore, op>>
    BY <1>8, StartChangeDoes DEF lists, session
  <2> QED BY <1>2, <2>1 DEF PasswordInv, NewPasswordOpens, HasVault
<1>9. CASE Derived \/ SaveChange \/ ChangeNotSaved
  <2>1. UNCHANGED <<vaults, flagged, keystore, op>> /\ change.pc \in {"derive", "save"} /\ op = NoOp
    BY <1>1, <1>9, ChangeDoes DEF lists, session
  <2>2. CASE /\ change.pc = "derive" /\ change'.pc = "save" /\ UNCHANGED stored
             /\ change'.all = change.all /\ change'.todo = change.todo
    BY <1>2, <1>3, <2>1, <2>2 DEF PasswordInv, NewPasswordOpens, HasVault
  <2>3. CASE /\ change.pc = "save" /\ change'.pc = "vaults"
             /\ change'.all = change.all /\ change'.todo = change.todo
    BY <1>2, <1>3, <2>1, <2>3 DEF PasswordInv, NewPasswordOpens, HasVault
  <2>4. CASE change.pc = "save" /\ change' = NoChange /\ UNCHANGED stored
    BY <1>2, <1>3, <2>1, <2>4 DEF PasswordInv, NewPasswordOpens, HasVault
  <2> QED BY <1>1, <1>9, <2>2, <2>3, <2>4, ChangeDoes
<1>10. CASE (\E i \in Items : RekeyRead(i) \/ RekeyMissed(i)) \/ RekeyWrite
  <2>1. /\ change.pc = "vaults" /\ change'.pc = "vaults" /\ change'.all = change.all
        /\ change'.new = change.new /\ op = NoOp
        /\ UNCHANGED <<stored, flagged, keystore, op>>
    BY <1>1, <1>10, RekeyKeeps DEF session
  <2>2. ASSUME \A i \in Masters : vaults'[i] # NoSlots <=> vaults[i] # NoSlots,
               \A i \in change.all : i \in change'.todo \/ i \in change'.missed
                                     \/ i = change'.item \/ vaults'[i].pwd = stored.pwd
        PROVE  PasswordInv'
    <3>1. {i \in Masters : vaults'[i] # NoSlots} = {i \in Masters : vaults[i] # NoSlots}
      BY <2>2
    <3>2. change'.all = {i \in Masters : vaults'[i] # NoSlots}
      BY <1>2, <2>1, <3>1
    <3> QED BY <1>3, <2>1, <2>2, <3>2 DEF PasswordInv, NewPasswordOpens, HasVault, Opens
  <2>3. ASSUME NEW i \in Items, RekeyRead(i) PROVE PasswordInv'
    <3>1. /\ change.item = NoItem /\ change'.item = i /\ change'.todo = change.todo \ {i}
          /\ change'.missed = change.missed /\ UNCHANGED vaults
      BY <2>3, RekeyDoes DEF RekeyRead, lists
    <3>2. change.all \subseteq Items
      BY <1>2, <1>4, <2>1
    <3> QED BY <1>2, <1>3, <2>1, <2>2, <3>1, <3>2
  <2>4. ASSUME NEW i \in Items, RekeyMissed(i) PROVE PasswordInv'
    <3>1. /\ change'.item = change.item /\ change'.todo = change.todo \ {i}
          /\ change'.missed = change.missed \cup {i} /\ UNCHANGED vaults
      BY <2>4, RekeyDoes DEF RekeyMissed, lists
    <3> QED BY <1>2, <2>1, <2>2, <3>1
  <2>5. CASE RekeyWrite
    <3>1. /\ change.item \in Masters /\ change'.todo = change.todo
          /\ change'.missed = change.missed /\ change.read \in Slots
          /\ vaults' = [vaults EXCEPT ![change.item] =
                           [pwd |-> change.new, rec |-> change.read.rec]]
      BY <2>5, RekeyDoes
    <3>2. change.new = stored.pwd /\ change.new \in Passwords
      BY <1>1, <1>4, <2>1 DEF NewKeystore, Keystore, TypeInv, ChangeTrue
    <3>3. [pwd |-> change.new, rec |-> change.read.rec] # NoSlots
      BY <3>2 DEF NoSlots, Passwords
    <3>4. vaults[change.item] # NoSlots
      BY <1>1, <1>3, <1>4, <3>1
    <3>5. \A i \in Masters : /\ i # change.item => vaults'[i] = vaults[i]
                             /\ i = change.item => vaults'[i].pwd = stored.pwd
                                                   /\ vaults'[i] # NoSlots
      BY <1>3, <1>4, <3>1, <3>2, <3>3
    <3>6. \A i \in Masters : vaults'[i] # NoSlots <=> vaults[i] # NoSlots
      BY <3>4, <3>5
    <3>7. change.all \subseteq Masters
      BY <1>2, <2>1
    <3> QED BY <1>2, <2>1, <2>2, <3>1, <3>5, <3>6, <3>7
  <2> QED BY <1>10, <2>3, <2>4, <2>5
<1>11. CASE FinishChange
  <2> DEFINE missed  == {i \in change.missed : HasVault(i)}
             updated == {i \in change.all \ change.missed : HasVault(i)}
  <2>1. /\ change.pc = "vaults" /\ change.todo = {} /\ change.item = NoItem
        /\ change' = NoChange /\ flagged' = (flagged \ updated) \cup missed
        /\ op = NoOp /\ UNCHANGED <<stored, vaults, op>>
    BY <1>1, <1>11 DEF FinishChange, AtEnd
  <2>2. ASSUME NEW i \in Masters \ flagged', vaults[i] # NoSlots PROVE vaults[i].pwd = stored.pwd
    <3>1. i \in change.all /\ i # NoItem
      BY <1>2, <1>3, <1>4, <2>1, <2>2
    <3>2. i \notin change.missed
      BY <2>1, <2>2 DEF HasVault
    <3> QED BY <1>2, <2>1, <3>1, <3>2
  <2> QED BY <1>3, <2>1, <2>2 DEF PasswordInv, NewPasswordOpens, HasVault
<1>12. CASE Unlock
  <2>1. change.pc = "idle" /\ UNCHANGED <<stored, keystore, vaults, flagged, op, change>>
    BY <1>12 DEF Unlock, Idle
  <2> QED BY <1>5, <2>1
<1>13. CASE SaveRecoveryKey
  <2>1. /\ activate.pc = "save" /\ stored' = activate.to
        /\ UNCHANGED <<vaults, flagged, op, change>>
    BY <1>13, WrittenFlows DEF SaveRecoveryKey
  <2>2. change.pc = "idle" /\ op = NoOp /\ stored'.pwd = stored.pwd
    BY <1>1, <2>1
  <2> QED BY <1>5, <2>1, <2>2
<1>14. CASE Activate
  <2>1. change.pc = "idle" /\ UNCHANGED <<stored, keystore, vaults, flagged, op, change>>
    BY <1>14, ActivateDoes DEF lists, session
  <2> QED BY <1>5, <2>1
<1>15. CASE ResealEnds \/ PendingNotSaved \/ RecoveryKeyNotSaved
  <2>1. UNCHANGED <<stored, keystore, vaults, flagged, op, change>>
    BY <1>15 DEF ResealEnds, PendingNotSaved, RecoveryKeyNotSaved, lists, session
  <2>2. change.pc = "idle"
    BY <1>1, <1>15, WrittenFlows DEF ResealEnds, AtEnd, PendingNotSaved, RecoveryKeyNotSaved
  <2> QED BY <1>5, <2>1, <2>2
<1>16. CASE SavePending
  <2>1. /\ reseal.pc = "save" /\ stored' = reseal.to /\ keystore' = reseal.to
        /\ UNCHANGED <<vaults, flagged, op, change>>
    BY <1>16, WrittenFlows DEF SavePending, lists
  <2>2. change.pc = "idle" /\ stored'.pwd = stored.pwd /\ keystore'.pwd = keystore.pwd
    BY <1>1, <2>1
  <2> QED BY <1>5, <2>1, <2>2
<1>17. CASE \E i \in Items : ResealCurrent(i) \/ ResealRead(i) \/ ResealMissed(i)
  <2>1. reseal.pc = "vaults" /\ UNCHANGED <<stored, keystore, flagged, op, change, vaults>>
    BY <1>17, ResealKeeps DEF session, ResealCurrent, ResealRead, ResealMissed, lists
  <2>2. change.pc = "idle"
    BY <1>1, <2>1
  <2> QED BY <1>5, <2>1, <2>2
<1>18. CASE ResealWrite
  <2>1. /\ reseal.pc = "vaults" /\ UNCHANGED <<stored, keystore, flagged, op, change>>
        /\ reseal.item \in Items /\ reseal.read \in Slots
        /\ vaults' = [vaults EXCEPT ![reseal.item] =
                         [pwd |-> reseal.read.pwd, rec |-> reseal.rec]]
    BY <1>18, ResealKeeps, ResealDoes DEF session
  <2>2. change.pc = "idle" /\ vaults[reseal.item] = reseal.read
    BY <1>1, <1>3, <2>1
  <2>3. \A i \in Masters : /\ vaults'[i] # NoSlots => vaults[i] # NoSlots
                           /\ vaults'[i].pwd = vaults[i].pwd
    BY <1>3, <1>4, <2>1, <2>2
  <2> QED BY <1>5, <2>1, <2>2, <2>3
<1>19. CASE Lock
  <2>1. /\ UNCHANGED <<stored, keystore, vaults, flagged, op>>
        /\ Alone(change, "change-lock") /\ (change.pc = "idle" => change' = change)
    BY <1>19, LockDoes DEF lists
  <2>2. change.pc = "idle"
    BY <2>1 DEF Alone, Idle, OpsAlone
  <2> QED BY <1>5, <2>1, <2>2
<1>20. ~Crash
  BY DEF Crash, Fault, NoCrash
<1> QED BY <1>6, <1>7, <1>8, <1>9, <1>10, <1>11, <1>12, <1>13, <1>14, <1>15, <1>16, <1>17, <1>18,
           <1>19, <1>20
        DEF Next, ChangeStep, RecoveryStep

LEMMA PasswordInit == Init => PasswordInv
<1> SUFFICES ASSUME Init PROVE PasswordInv
  OBVIOUS
<1>1. \A i \in Items : HasVault(i) => vaults[i].pwd = stored.pwd
  BY DEF Init, HasVault, NoSlots
<1> QED BY <1>1, NoFlows DEF Init, PasswordInv, NewPasswordOpens, Masters

\* Once a change of the master password is over, done, failed or given up, the
\* one that is saved opens every item of the master password that is not flagged,
\* locked before, during or after it: if items are locked and unlocked beside an
\* update of the vaults only, nothing else meets, and the app does not crash.
THEOREM PasswordOpens == ASSUME OpsAlone, NoCrash PROVE Spec => []NewPasswordOpens
<1> DEFINE I == TypeInv /\ AgreeInv /\ VaultsInv /\ PasswordInv
<1>1. Init => I
  BY FlowsInit, VaultsInit, PasswordInit
<1>2. I /\ [Next]_vars => I'
  BY OpsThenFlows, TypeNext, AgreeNext, VaultsNext, PasswordNext
<1>3. I => NewPasswordOpens
  BY DEF PasswordInv
<1> QED BY <1>1, <1>2, <1>3, PTL DEF Spec

-------------------------------------------------------------------------------
(* The new recovery key opens what the old one did. *)

LEMMA RecoveryOps ==
    ASSUME OpsAlone, TypeInv, AgreeInv, VaultsInv, RecoveryInv, ItemStep
    PROVE  RecoveryInv'
<1>1. /\ change.pc = "idle" /\ activate.pc = "idle"
      /\ UNCHANGED <<stored, keystore, masterKey, change, activate, reseal>>
  BY OpsMeet
<1>2. /\ vaults \in [Items -> Slots \cup {NoSlots}] /\ NoSlots \notin Slots
      /\ relock \in [Items -> Prepared \cup {NoKeys}]
      /\ op.kind # "none" => op.item \in Items
      /\ op.kind = "lock" => op.slots \in Slots
      /\ op \in Ops /\ NoOp.kind = "none"
  BY VaultSlots DEF TypeInv, ListsTrue, Relocks
<1>3. keystore = stored
  BY <1>1 DEF AgreeInv, KeystoreAgrees
\* While the flag is clear or vaults are updated, keys are those of now.
<1> DEFINE clear == ~stored.pending \/ reseal.pc # "idle"
<1>4. /\ clear => \A i \in Items : relock[i] # NoKeys => relock[i].rec = stored.rec
      /\ clear /\ op.kind = "lock" => op.slots.rec = stored.rec
      /\ ~stored.pending => \A i \in Items : vaults[i] # NoSlots => vaults[i].rec = stored.rec
      /\ reseal.pc = "vaults" =>
            /\ reseal.rec = stored.rec
            /\ \A i \in Items : vaults[i] # NoSlots =>
                  i \in reseal.todo \/ i \in reseal.missed \/ i = reseal.item
                  \/ vaults[i].rec = stored.rec
      /\ reseal.pc = "save" /\ ~reseal.to.pending =>
            \A i \in Items : vaults[i] # NoSlots => vaults[i].rec = stored.rec
  BY DEF RecoveryInv, NewRecoveryOpens, HasVault, HasKeys, Recent
<1>5. ASSUME clear => \A i \in Items : relock'[i] # NoKeys => relock'[i].rec = stored.rec,
             clear /\ op'.kind = "lock" => op'.slots.rec = stored.rec,
             clear => \A i \in Items : \/ vaults'[i] = vaults[i] \/ vaults'[i] = NoSlots
                                       \/ vaults'[i].rec = stored.rec
      PROVE  RecoveryInv'
  <2>1. UNCHANGED <<stored, reseal, activate>> /\ activate.pc = "idle"
    BY <1>1
  <2>2. ~stored.pending => \A i \in Items : vaults'[i] # NoSlots => vaults'[i].rec = stored.rec
    BY <1>4, <1>5
  <2>3. reseal.pc = "vaults" =>
            \A i \in Items : vaults'[i] # NoSlots =>
                  i \in reseal.todo \/ i \in reseal.missed \/ i = reseal.item
                  \/ vaults'[i].rec = stored.rec
    BY <1>4, <1>5
  <2>4. reseal.pc = "save" /\ ~reseal.to.pending =>
            \A i \in Items : vaults'[i] # NoSlots => vaults'[i].rec = stored.rec
    BY <1>4, <1>5
  <2> QED BY <1>4, <1>5, <2>1, <2>2, <2>3, <2>4
          DEF RecoveryInv, NewRecoveryOpens, HasVault, HasKeys, Recent
<1> HIDE DEF clear
<1>6. ASSUME NEW i \in Items, RememberMasterKey(i) \/ StartUnlock(i) PROVE RecoveryInv'
  <2>1. UNCHANGED <<vaults, relock>> /\ (op' = op \/ op'.kind = "unlock")
    BY <1>6 DEF RememberMasterKey, StartUnlock, lists, NoOp
  <2> QED BY <1>4, <1>5, <2>1
<1>7. ASSUME NEW i \in Items, StartLock(i) PROVE RecoveryInv'
  <2>1. UNCHANGED <<vaults, relock>>
    BY <1>7 DEF StartLock, lists
  <2>2. op'.slots.rec = keystore.rec \/ (HasKeys(i) /\ op'.slots.rec = relock[i].rec)
    <3>1. LockWithKey(i) => op'.slots.rec = keystore.rec
      BY DEF LockWithKey, NoOp
    <3>2. LockPrepared(i) => HasKeys(i) /\ op'.slots.rec = relock[i].rec
      BY DEF LockPrepared, NoOp
    <3> QED BY <1>7, <3>1, <3>2 DEF StartLock
  <2> QED BY <1>3, <1>4, <1>5, <2>1, <2>2 DEF HasKeys
<1>8. CASE WriteVault
  <2>1. UNCHANGED vaults /\ op'.slots = op.slots /\ op'.kind = op.kind
    BY <1>2, <1>8 DEF WriteVault, Ops
  <2>2. /\ relock' = IF op.prepared THEN [relock EXCEPT ![op.item].used = TRUE] ELSE relock
        /\ op.item \in Items /\ (op.prepared => HasKeys(op.item))
    BY <1>2, <1>8 DEF WriteVault, TypeInv, OpTrue
  <2>3. ASSUME NEW i \in Items, relock'[i] # NoKeys
        PROVE  relock[i] # NoKeys /\ relock'[i].rec = relock[i].rec
    <3>1. relock[i] \in Prepared \cup {NoKeys}
      BY <1>2
    <3> QED BY <1>2, <2>2, <2>3, <3>1 DEF HasKeys, Prepared, NoKeys
  <2> QED BY <1>4, <1>5, <2>1, <2>3
<1>9. CASE LockDone
  <2>1. /\ op.kind = "lock" /\ op' = NoOp /\ vaults' = [vaults EXCEPT ![op.item] = op.slots]
        /\ relock' = [relock EXCEPT ![op.item] = NoKeys]
    BY <1>9 DEF LockDone
  <2> QED BY <1>2, <1>4, <1>5, <2>1
<1>10. CASE LockFails \/ UnlockFails
  <2>1. UNCHANGED vaults /\ op' = NoOp /\ relock' \in {relock, [relock EXCEPT ![op.item] = NoKeys]}
    BY <1>10 DEF LockFails, UnlockFails, lists
  <2> QED BY <1>2, <1>4, <1>5, <2>1
<1>11. CASE UnlockDone
  <2>1. /\ op.kind = "unlock" /\ op' = NoOp /\ vaults' = [vaults EXCEPT ![op.item] = NoSlots]
        /\ \E key : relock' \in {relock, [relock EXCEPT ![op.item] =
                                    [pwd |-> key, rec |-> keystore.rec, used |-> FALSE]]}
    BY <1>11 DEF UnlockDone
  <2>2. \A i \in Items : relock'[i] = relock[i] \/ relock'[i].rec = stored.rec
    BY <1>2, <1>3, <2>1
  <2> QED BY <1>2, <1>4, <1>5, <2>1, <2>2
<1> QED BY <1>6, <1>7, <1>8, <1>9, <1>10, <1>11 DEF ItemStep, OpStep

\* An update begins with every vault before it, when no item is being locked.
LEMMA RecoveryWindow ==
    ASSUME OpsAlone, TypeInv, AgreeInv, NewerInv, VaultsInv, RecoveryInv,
           FinishChange \/ Unlock \/ SaveRecoveryKey
    PROVE  RecoveryInv'
<1>1. /\ change.pc # "vaults" => keystore = stored
      /\ change.pc # "idle" => reseal.pc = "idle" /\ activate.pc = "idle" /\ op = NoOp
      /\ activate.pc # "idle" => op = NoOp
      /\ change.pc = "vaults" => stored = NewKeystore
      /\ activate.pc = "save" => Unlocked /\ Idle(reseal) /\ activate.to.pending
  BY DEF AgreeInv, KeystoreAgrees, VaultsInv, Idle, NewerInv, RecoveryInv
<1>2. NoOp.kind = "none" /\ NoActivate.pc = "idle"
  BY NoFlows
\* Nothing is updated, or everything is still to be.
<1>3. /\ UNCHANGED <<vaults, op>>
      /\ \/ UNCHANGED reseal /\ \A i \in Items : relock'[i].rec = relock[i].rec
         \/ /\ reseal'.pc = "vaults" /\ reseal'.rec = keystore'.rec
            /\ reseal'.todo = {i \in Items : HasVault(i)}
            /\ \A i \in Items : relock[i] # NoKeys => relock'[i].rec = keystore'.rec
      /\ \A i \in Items : relock'[i] = NoKeys <=> relock[i] = NoKeys
  BY WindowSteps
<1>4. CASE FinishChange \/ Unlock
  <2>1. /\ op = NoOp /\ UNCHANGED <<stored, activate>> /\ keystore' = stored
    BY <1>1, <1>4 DEF FinishChange, Unlock, AtEnd, Idle
  <2>2. CASE UNCHANGED reseal /\ \A i \in Items : relock'[i].rec = relock[i].rec
    BY <1>2, <1>3, <2>1, <2>2 DEF RecoveryInv, NewRecoveryOpens, HasVault, HasKeys, Recent
  <2>3. CASE /\ reseal'.pc = "vaults" /\ reseal'.rec = keystore'.rec
             /\ reseal'.todo = {i \in Items : HasVault(i)}
             /\ \A i \in Items : relock[i] # NoKeys => relock'[i].rec = keystore'.rec
    BY <1>2, <1>3, <2>1, <2>3 DEF RecoveryInv, NewRecoveryOpens, HasVault, HasKeys, Recent
  <2> QED BY <1>3, <2>2, <2>3
<1>5. CASE SaveRecoveryKey
  <2>1. /\ activate.pc = "save" /\ stored' = activate.to /\ keystore' = activate.to
        /\ activate' = NoActivate
    BY <1>5, WrittenFlows DEF SaveRecoveryKey
  <2>2. stored'.pending /\ op = NoOp /\ reseal.pc = "idle"
    BY <1>1, <2>1 DEF Idle
  <2>3. CASE UNCHANGED reseal
    BY <1>2, <1>3, <2>1, <2>2, <2>3 DEF RecoveryInv, NewRecoveryOpens, HasVault, HasKeys, Recent
  <2>4. CASE /\ reseal'.pc = "vaults" /\ reseal'.rec = keystore'.rec
             /\ reseal'.todo = {i \in Items : HasVault(i)}
             /\ \A i \in Items : relock[i] # NoKeys => relock'[i].rec = keystore'.rec
    BY <1>2, <1>3, <2>1, <2>2, <2>4 DEF RecoveryInv, NewRecoveryOpens, HasVault, HasKeys, Recent
  <2> QED BY <1>3, <2>3, <2>4
<1> QED BY <1>4, <1>5

LEMMA RecoveryNext ==
    ASSUME OpsAlone, TypeInv, AgreeInv, NewerInv, VaultsInv, RecoveryInv, [Next]_vars
    PROVE  RecoveryInv'
<1>1. /\ change.pc # "vaults" => keystore = stored
      /\ change.pc # "idle" => reseal.pc = "idle" /\ activate.pc = "idle" /\ op = NoOp
      /\ change.pc \in {"derive", "save"} => change.base = stored
      /\ change.pc # "idle" => change.base \in Keystore
      /\ ~change.wiped
      /\ change.item # NoItem => change.read = vaults[change.item]
      /\ reseal.item # NoItem => reseal.read = vaults[reseal.item]
      /\ reseal.pc = "save" => reseal.to.rec = stored.rec
  BY DEF AgreeInv, KeystoreAgrees, VaultsInv, Idle, NewerInv, TypeInv, ChangeTrue
<1>2. /\ vaults \in [Items -> Slots \cup {NoSlots}] /\ NoSlots \notin Slots
      /\ op.kind # "none" => op.item \in Items
      /\ NoOp.kind = "none" /\ NoItem \notin Items
      /\ NoReseal.pc = "idle" /\ NoActivate.pc = "idle" /\ Masters \subseteq Items
  BY VaultSlots, NoFlows DEF Masters
<1>3. /\ ~stored.pending => \A i \in Items : /\ vaults[i] # NoSlots => vaults[i].rec = stored.rec
                                             /\ relock[i] # NoKeys => relock[i].rec = stored.rec
      /\ ~stored.pending /\ op.kind = "lock" => op.slots.rec = stored.rec
      /\ reseal.pc # "idle" =>
            /\ \A i \in Items : relock[i] # NoKeys => relock[i].rec = stored.rec
            /\ op.kind = "lock" => op.slots.rec = stored.rec
      /\ reseal.pc = "vaults" =>
            /\ reseal.rec = stored.rec
            /\ \A i \in Items : vaults[i] # NoSlots =>
                  i \in reseal.todo \/ i \in reseal.missed \/ i = reseal.item
                  \/ vaults[i].rec = stored.rec
      /\ reseal.pc = "save" /\ ~reseal.to.pending =>
            \A i \in Items : vaults[i] # NoSlots => vaults[i].rec = stored.rec
      /\ activate.pc = "save" => activate.to.pending
  BY DEF RecoveryInv, NewRecoveryOpens, HasVault, HasKeys, Recent
\* What stays while no update goes on.
<1>4. ASSUME stored'.rec = stored.rec, stored'.pending = stored.pending, UNCHANGED relock,
             UNCHANGED op \/ op' = NoOp,
             UNCHANGED reseal \/ reseal'.pc = "idle",
             UNCHANGED activate \/ activate'.pc = "idle",
             \A i \in Items : /\ vaults'[i] # NoSlots => vaults[i] # NoSlots
                              /\ vaults'[i].rec = vaults[i].rec
      PROVE  RecoveryInv'
  BY <1>2, <1>3, <1>4 DEF RecoveryInv, NewRecoveryOpens, HasVault, HasKeys, Recent
<1>5. CASE ItemStep
  BY <1>5, RecoveryOps
<1>6. CASE FinishChange \/ Unlock \/ SaveRecoveryKey
  BY <1>6, RecoveryWindow
<1>7. CASE UNCHANGED vars
  BY <1>4, <1>7 DEF vars
<1>8. CASE ChangePassword \/ ResetWithRecoveryKey
  BY <1>4, <1>8, StartChangeDoes DEF lists
<1>9. CASE Derived \/ SaveChange \/ ChangeNotSaved
  <2>1. UNCHANGED <<vaults, relock, op, reseal, activate>> /\ change.pc \in {"derive", "save"}
    BY <1>9, ChangeDoes DEF lists
  <2>2. stored' \in {stored, NewKeystore}
    BY <1>9, ChangeDoes
  <2>3. NewKeystore.rec = stored.rec /\ NewKeystore.pending = stored.pending
    BY <1>1, <2>1 DEF NewKeystore, Keystore
  <2> QED BY <1>4, <2>1, <2>2, <2>3
<1>10. CASE (\E i \in Items : RekeyRead(i) \/ RekeyMissed(i)) \/ RekeyWrite
  <2>1. UNCHANGED <<stored, relock, op, reseal, activate>>
    BY <1>10, RekeyKeeps
  <2>2. CASE \E i \in Items : RekeyRead(i) \/ RekeyMissed(i)
    BY <1>4, <2>1, <2>2 DEF RekeyRead, RekeyMissed, lists
  <2>3. CASE RekeyWrite
    <3>1. /\ change.item \in Masters /\ change.read \in Slots
          /\ vaults' = [vaults EXCEPT ![change.item] =
                           [pwd |-> change.new, rec |-> change.read.rec]]
      BY <2>3, RekeyDoes
    <3>2. vaults[change.item] = change.read /\ change.item \in Items
      BY <1>1, <1>2, <3>1
    <3>3. \A i \in Items : /\ vaults'[i] # NoSlots => vaults[i] # NoSlots
                           /\ vaults'[i].rec = vaults[i].rec
      BY <1>2, <3>1, <3>2
    <3> QED BY <1>4, <2>1, <3>3
  <2> QED BY <1>10, <2>2, <2>3
<1>11. CASE Activate
  <2>1. activate'.to.pending /\ UNCHANGED <<stored, relock, op, reseal, vaults>>
    BY <1>11, ActivateDoes DEF lists
  <2> QED BY <1>3, <2>1 DEF RecoveryInv, NewRecoveryOpens, HasVault, HasKeys, Recent
<1>12. CASE PendingNotSaved \/ RecoveryKeyNotSaved
  <2>1. /\ UNCHANGED <<stored, relock, op, vaults>>
        /\ reseal' \in {reseal, NoReseal} /\ activate' \in {activate, NoActivate}
    BY <1>12 DEF PendingNotSaved, RecoveryKeyNotSaved, lists
  <2> QED BY <1>2, <1>4, <2>1
<1>13. ASSUME NEW i \in Items, ResealCurrent(i) \/ ResealRead(i) \/ ResealMissed(i)
       PROVE  RecoveryInv'
  <2>1. /\ reseal.pc = "vaults" /\ reseal'.pc = "vaults" /\ reseal'.rec = reseal.rec
        /\ UNCHANGED <<stored, relock, op, activate, vaults>>
    BY <1>13, ResealKeeps DEF ResealCurrent, ResealRead, ResealMissed, lists
  <2>2. ASSUME NEW j \in Items, vaults[j] # NoSlots
        PROVE  j \in reseal'.todo \/ j \in reseal'.missed \/ j = reseal'.item
               \/ vaults[j].rec = stored.rec
    <3>1. CASE ResealCurrent(i)
      BY <1>3, <2>1, <2>2, <3>1, ResealDoes
    <3>2. CASE ResealRead(i)
      BY <1>2, <1>3, <2>1, <2>2, <3>2, ResealDoes
    <3>3. CASE ResealMissed(i)
      BY <1>3, <2>1, <2>2, <3>3, ResealDoes
    <3> QED BY <1>13, <3>1, <3>2, <3>3
  <2> QED BY <1>3, <2>1, <2>2 DEF RecoveryInv, NewRecoveryOpens, HasVault, HasKeys, Recent
<1>14. CASE ResealWrite
  <2>1. /\ reseal.pc = "vaults" /\ reseal'.pc = "vaults" /\ reseal'.rec = reseal.rec
        /\ UNCHANGED <<stored, relock, op, activate>>
        /\ reseal.item \in Items /\ reseal.read \in Slots
        /\ reseal'.todo = reseal.todo /\ reseal'.missed = reseal.missed
        /\ vaults' = [vaults EXCEPT ![reseal.item] =
                         [pwd |-> reseal.read.pwd, rec |-> reseal.rec]]
    BY <1>14, ResealKeeps, ResealDoes
  <2>2. vaults[reseal.item] = reseal.read /\ vaults[reseal.item] # NoSlots
    BY <1>1, <1>2, <2>1
  <2>3. \A j \in Items : IF j = reseal.item THEN vaults'[j].rec = stored.rec
                         ELSE vaults'[j] = vaults[j]
    BY <1>2, <1>3, <2>1
  <2>4. \A j \in Items : vaults'[j] # NoSlots =>
           j \in reseal'.todo \/ j \in reseal'.missed \/ vaults'[j].rec = stored.rec
    BY <1>3, <2>1, <2>3
  <2>5. ~stored.pending => \A j \in Items : vaults'[j] # NoSlots => vaults'[j].rec = stored.rec
    BY <1>3, <2>3
  <2> QED BY <1>3, <2>1, <2>4, <2>5 DEF RecoveryInv, NewRecoveryOpens, HasVault, HasKeys, Recent
<1>15. CASE ResealEnds
  <2>1. /\ reseal.pc = "vaults" /\ reseal.todo = {} /\ reseal.item = NoItem
        /\ reseal'.pc \in {"idle", "save"}
        /\ reseal'.pc = "save" => reseal'.to.pending = (reseal.missed # {})
        /\ UNCHANGED <<stored, vaults, relock, op, activate>>
    BY <1>15, ResealEndDoes DEF ResealEnds, lists
  <2>2. reseal'.pc = "save" /\ ~reseal'.to.pending =>
           \A i \in Items : vaults[i] # NoSlots => vaults[i].rec = stored.rec
    BY <1>2, <1>3, <2>1
  <2> QED BY <1>3, <2>1, <2>2 DEF RecoveryInv, NewRecoveryOpens, HasVault, HasKeys, Recent
<1>16. CASE SavePending
  <2>1. /\ reseal.pc = "save" /\ stored' = reseal.to /\ reseal' = NoReseal
        /\ UNCHANGED <<vaults, relock, op, activate>>
    BY <1>16, WrittenFlows DEF SavePending, lists
  <2>2. stored'.rec = stored.rec
    BY <1>1, <2>1
  <2> QED BY <1>2, <1>3, <2>1, <2>2
          DEF RecoveryInv, NewRecoveryOpens, HasVault, HasKeys, Recent
<1>17. CASE Lock
  <2>1. UNCHANGED <<stored, vaults, relock, op, reseal, activate>>
    BY <1>17, LockDoes DEF lists
  <2> QED BY <1>4, <2>1
<1>18. CASE Crash
  <2>1. /\ reseal' = NoReseal /\ activate' = NoActivate /\ op' = NoOp
        /\ UNCHANGED <<stored, relock>> /\ Interrupted
    BY <1>18 DEF Crash
  <2>2. ~stored.pending => \A i \in Items : vaults'[i] # NoSlots => vaults'[i].rec = stored.rec
    BY <1>2, <1>3, <2>1 DEF Interrupted
  <2> QED BY <1>2, <1>3, <2>1, <2>2
          DEF RecoveryInv, NewRecoveryOpens, HasVault, HasKeys, Recent
<1> QED BY <1>5, <1>6, <1>7, <1>8, <1>9, <1>10, <1>11, <1>12, <1>13, <1>14, <1>15, <1>16, <1>17,
           <1>18
        DEF Next, ChangeStep, RecoveryStep

LEMMA RecoveryInit == Init => RecoveryInv
<1> SUFFICES ASSUME Init PROVE RecoveryInv
  OBVIOUS
<1>1. \A i \in Items : HasVault(i) => vaults[i].rec = stored.rec
  BY DEF Init, HasVault, NoSlots
<1>2. \A i \in Items : ~HasKeys(i)
  BY DEF Init, HasKeys
<1> QED BY <1>1, <1>2, NoFlows DEF Init, RecoveryInv, NewRecoveryOpens

\* With the flag clear, every vault there is, and every one that will be made with
\* keys made ahead, opens with the current recovery key, through failures and
\* crashes: if items are locked and unlocked beside an update of the vaults only,
\* and nothing else meets.
THEOREM RecoveryOpens == ASSUME OpsAlone PROVE Spec => []NewRecoveryOpens
<1> DEFINE I == TypeInv /\ AgreeInv /\ NewerInv /\ VaultsInv /\ RecoveryInv
<1>1. Init => I
  BY FlowsInit, VaultsInit, RecoveryInit
<1>2. I /\ [Next]_vars => I'
  BY OpsThenFlows, TypeNext, AgreeNext, NewerNext, VaultsNext, RecoveryNext
<1>3. I => NewRecoveryOpens
  BY DEF RecoveryInv
<1> QED BY <1>1, <1>2, <1>3, PTL DEF Spec
=============================================================================
