--------------------------- MODULE VaultLossProofs ---------------------------
(***************************************************************************)
(* No data is lost: a proof about VaultJournal for every number of         *)
(* operations, items, names, crashes and acts of the user, for .flk files  *)
(* and .flkd folders.                                                      *)
(***************************************************************************)
EXTENDS VaultJournalProofs

(* What the theorem on data loss assumes: only crashes, failing writes and   *)
(* failing journal saves (and no deletion, rename or removal that fails      *)
(* without a reason on the disk), users who create and rename items, and no  *)
(* item whose files are another's with more added.                           *)
Calm ==
    /\ Faults \subseteq {"crash", "write", "save"}
    /\ Acts \subseteq {"item", "moveItem"}
    /\ Grown = {}

(* An entry of a lock that will be rolled back. *)
Cold(o) == journal[o].kind = "lock" /\ journal[o].phase = "started"

InVault(p, v) == fs[Vault(v)].whole /\ fs[Vault(v)].data = fs[p].data
InItems(v)    == \E n \in Names : fs[Item(n)].whole /\ fs[Item(n)].data = fs[Vault(v)].data

(* Of all entries at most one is not cold: the one of the operation that runs *)
(* or, after a crash, ran.                                                   *)
OneHot ==
    /\ \A o, q \in Pending : Cold(o) \/ Cold(q) \/ o = q
    /\ pc \in RecoverySteps => \A o \in Pending : Cold(o) \/ o = cur \/ o \in todo
    /\ pc \notin RecoverySteps \cup {"down"} => \A o \in Pending : Cold(o) \/ o = cur

(* What a phase in the journal says of the disk. *)
LockEntry(o) ==
    journal[o].kind = "lock" /\ journal[o].phase # "started" /\ Exists(Staged(o)) =>
        \/ /\ fs[Partial(o)].whole /\ fs[Partial(o)].data = fs[Staged(o)].data
           /\ Exists(Partial(o)) /\ ~Exists(Vault(journal[o].vault))
        \/ ~Exists(Partial(o)) /\ InVault(Staged(o), journal[o].vault)

UnlockEntry(o) ==
    /\ journal[o].kind = "unlock" /\ journal[o].phase = "committed"
    /\ Exists(Vault(journal[o].vault))
    => InItems(journal[o].vault)

PhasesTrue == \A o \in Ops : LockEntry(o) /\ UnlockEntry(o)

(* What the step the app is at says of the disk. *)
LockTrue ==
    /\ pc \in {"stage", "write", "verify"} \cup RollbackSteps => journal[cur].phase = "started"
    /\ pc \in {"stage", "write", "verify", "place"} => ~Exists(Vault(vault))
    /\ pc \in {"stage", "commit"} => ~Exists(Partial(cur))
    /\ pc = "write" /\ Exists(Partial(cur)) => fs[Partial(cur)].data = Source
    /\ pc \in {"verify", "place"} => /\ Exists(Partial(cur)) /\ fs[Partial(cur)].whole
                                     /\ fs[Partial(cur)].data = fs[Staged(cur)].data
    /\ pc \in {"commit", "deleteStaged", "rDeleteStaged"} /\ Exists(Staged(cur))
         => InVault(Staged(cur), vault)
    /\ pc = "rPlace" => journal[cur].phase # "started"
    /\ pc \in {"rUnstage", "rDeletePartial"} =>
         journal[cur].phase = "started" \/ ~Exists(Staged(cur))

UnlockTrue ==
    /\ clean
    /\ pc = "putBack" => fs[Restoring(cur)].data = fs[Vault(vault)].data
    /\ pc \in {"restored", "deleteWork", "deleteVault", "rDeleteVault"} /\ Exists(Vault(vault))
         => InItems(vault)

Remembered ==
    /\ pc \in Busy => vault = journal[cur].vault
    /\ \A o \in Ops : next <= o => ~Exists(Partial(o))

Sound == OneHot /\ PhasesTrue /\ LockTrue /\ UnlockTrue /\ Remembered /\ NoDataLoss

-----------------------------------------------------------------------------
(* Where a copy that counts is. *)

Copy(p, d) == fs[p].data = d /\ fs[p].whole

Somewhere(d) ==
    \/ \E n \in Names : Copy(Item(n), d) \/ Copy(Vault(n), d)
    \/ \E o \in Ops : Copy(Staged(o), d) /\ journal[o].kind = "lock"

(* The form of Kept the proofs use: by role instead of by path. *)
LEMMA KeptSomewhere == ASSUME NEW d PROVE Kept(d) <=> Somewhere(d)
<1>1. /\ \A n \in Names : /\ Item(n) \in Paths /\ Item(n)[1] = "item"
                          /\ Vault(n) \in Paths /\ Vault(n)[1] = "vault"
      /\ \A o \in Ops : Staged(o) \in Paths /\ Staged(o)[1] = "locking" /\ Staged(o)[2] = o
  BY PathTypes DEF Item, Vault, Staged
<1>2. ASSUME NEW p \in Paths
      PROVE  \/ \E n \in Names : p = Item(n) \/ p = Vault(n)
             \/ \E o \in Ops : p = Staged(o) /\ p[2] = o
             \/ p[1] \in {"partial", "restoring"}
  BY DEF Paths, Item, Vault, Staged
<1>3. Kept(d) => Somewhere(d)
  BY <1>1, <1>2 DEF Kept, Somewhere, Copy
<1> QED BY <1>1, <1>3 DEF Kept, Somewhere, Copy

(* No data is lost, said by role instead of by path. *)
LEMMA LossInvariant == NoDataLoss <=> \A d \in owned : Somewhere(d)
BY KeptSomewhere DEF NoDataLoss

(* The same of the next state. *)
LEMMA LossInvariantNext == NoDataLoss' <=> \A d \in owned' : Somewhere(d)'
<1>1. (NoDataLoss <=> \A d \in owned : Somewhere(d))'
  BY LossInvariant, PTL
<1> QED BY <1>1

(* Nothing is no copy, and final names collide with no other. *)
LEMMA NoCopy == None.whole = FALSE /\ None.data = NoData
BY DEF None

(* Final names of different items or kinds are different paths. *)
LEMMA FinalApart ==
    ASSUME NEW n, NEW m
    PROVE  /\ Item(n) = Item(m) => n = m
           /\ Vault(n) = Vault(m) => n = m
           /\ Item(n) # Vault(m)
BY DEF Item, Vault

-----------------------------------------------------------------------------
(* What a step does to the disk, path by path, to the journal and to memory. *)

Only(P)     == \A r \in Paths \ P : fs'[r] = fs[r]
Moved(p, q) == /\ fs[p] # None /\ fs[q] = None
               /\ fs'[p] = None /\ fs'[q] = fs[p] /\ Only({p, q})
Lost(p)     == fs'[p] = None /\ Only({p})
Torn(p)     == /\ fs[p] # None /\ fs'[p] # None
               /\ fs'[p].data = fs[p].data /\ ~fs'[p].whole /\ Only({p})

Entries(o, kind, phase) ==
    /\ journal'[o].kind = kind /\ journal'[o].phase = phase
    /\ journal'[o].vault = journal[o].vault
    /\ \A q \in Ops \ {o} : journal'[q] = journal[q]
Dropped(o) == journal'[o].kind = "none" /\ \A q \in Ops \ {o} : journal'[q] = journal[q]

Stays(s) == pc' = s /\ UNCHANGED <<cur, vault, clean, todo, next, owned, scanned>>
Ends     == pc' = "idle" /\ cur' = 0 /\ clean' /\ UNCHANGED <<todo, next, owned>>
Turns    == pc' = "pick" /\ cur' = 0 /\ UNCHANGED <<clean, todo, next, owned>>

(* A step of an operation or of its recovery, from a state as it should be. *)
Step == TypeOK /\ Accounted /\ Sound /\ Calm /\ Working

(* What a step of an operation or of recovery can rely on: it has an entry, of *)
(* the kind that has such a step, and remembers the vault's name in it.        *)
LEMMA StepFacts ==
    ASSUME Step
    PROVE  /\ cur \in Ops /\ cur \in Pending /\ cur # 0
           /\ item \in Names /\ vault \in Names /\ vault = journal[cur].vault
           /\ journal[cur].kind # "none"
           /\ pc \in {"stage", "write", "verify", "place", "commit", "deleteStaged", "forget",
                      "backPartial", "backItem", "backForget", "rPlace", "rDeleteStaged",
                      "rUnstage", "rDeletePartial"} => journal[cur].kind = "lock"
           /\ pc \in {"restore", "putBack", "restored", "deleteWork", "deleteVault",
                      "closeUnlock", "abort", "abortForget", "rDeleteVault", "rDeleteWork",
                      "rAbort"} => journal[cur].kind = "unlock"
<1>1. pc \in Busy
  BY WorkingBusy DEF Step
<1>2. cur \in Ops /\ cur \in Pending /\ item \in Names /\ vault \in Names
  BY <1>1, BusyTypes DEF Step
<1>3. cur # 0
  BY <1>2 DEF Ops
<1> QED BY <1>1, <1>2, <1>3 DEF Step, TypeOK, MemoryOK, Pending, Sound, Remembered, LockSteps,
           RollbackSteps, UnlockSteps, LockEnds, UnlockEnds

(* Of the steps of an operation only the running one's entry changes; the  *)
(* paths of its temporary names matter to no other entry.                  *)
LEMMA OtherEntries ==
    ASSUME Step, Only({Staged(cur), Partial(cur), Restoring(cur)}),
           \A q \in Ops \ {cur} : journal'[q] = journal[q],
           \A o \in Ops : o = cur => LockEntry(o)' /\ UnlockEntry(o)'
    PROVE  PhasesTrue'
<1> SUFFICES ASSUME NEW o \in Ops \ {cur} PROVE LockEntry(o)' /\ UnlockEntry(o)'
  BY DEF PhasesTrue
<1>1. LockEntry(o) /\ UnlockEntry(o)
  BY DEF Step, Sound, PhasesTrue
<1>2. journal[o].kind # "none" => journal[o].vault \in Names
  BY DEF Step, TypeOK, JournalOK, Pending
<1>3. /\ fs'[Staged(o)] = fs[Staged(o)] /\ fs'[Partial(o)] = fs[Partial(o)]
      /\ \A n \in Names : fs'[Item(n)] = fs[Item(n)] /\ fs'[Vault(n)] = fs[Vault(n)]
  BY StepFacts, PathTypes, Apart DEF Only
<1> QED BY <1>1, <1>2, <1>3 DEF LockEntry, UnlockEntry, InVault, InItems, Exists

(* An operation that runs (no recovery is under way), or that is hot, has   *)
(* nothing but cold entries beside its own, which say nothing of the disk.  *)
LEMMA ColdEntries ==
    ASSUME Step, pc \notin RecoverySteps \/ ~Cold(cur),
           \A q \in Ops \ {cur} : journal'[q] = journal[q],
           pc # "down", \A o \in Ops : o = cur => LockEntry(o)' /\ UnlockEntry(o)'
    PROVE  PhasesTrue'
<1> SUFFICES ASSUME NEW o \in Ops \ {cur} PROVE LockEntry(o)' /\ UnlockEntry(o)'
  BY DEF PhasesTrue
<1>1. o \in Pending => Cold(o)
  BY StepFacts DEF Step, Sound, OneHot
<1> QED BY <1>1 DEF Pending, Cold, LockEntry, UnlockEntry

(* A step on the partial vault and the work folder alone loses nothing, if *)
(* the entry of a lock stays or nothing is left under its name.            *)
LEMMA QuietLoss ==
    ASSUME Step, Only({Partial(cur), Restoring(cur)}), owned' = owned,
           \A q \in Ops \ {cur} : journal'[q] = journal[q],
           \/ journal'[cur].kind = journal[cur].kind
           \/ journal[cur].kind = "lock" => fs[Staged(cur)].data = NoData
    PROVE  NoDataLoss'
<1> SUFFICES ASSUME NEW d \in owned PROVE Somewhere(d)'
  BY LossInvariantNext
<1>1. Somewhere(d) /\ d # NoData
  BY LossInvariant, DataAssumption DEF Step, Sound, TypeOK
<1>2. /\ \A n \in Names : fs'[Item(n)] = fs[Item(n)] /\ fs'[Vault(n)] = fs[Vault(n)]
      /\ \A o \in Ops : fs'[Staged(o)] = fs[Staged(o)]
  BY StepFacts, PathTypes, Apart DEF Only
<1> QED BY <1>1, <1>2 DEF Somewhere, Copy

(* Moving the item under its temporary name: the entry is still cold, and now  *)
(* counts the data it holds.                                                   *)
LEMMA StageSound == Step /\ Stage => Sound'
<1> SUFFICES ASSUME Step, Stage PROVE Sound'
  OBVIOUS
<1>1. pc = "stage" /\ Moved(Item(item), Staged(cur)) /\ journal' = journal /\ Stays("write")
  BY StepFacts, PathTypes, Apart, NameAssumption DEF Step, TypeOK, Calm, Moved, Stays, Only,
     Stage, Rename, Go, Exists, memory, env
<1>2. OneHot'
  BY <1>1, StepFacts DEF Step, Sound, OneHot, Cold, Pending, RecoverySteps, Stays
<1>3. ASSUME NEW o \in Ops, o = cur PROVE LockEntry(o)' /\ UnlockEntry(o)'
  BY <1>1, <1>3, StepFacts, PathTypes, Apart, FinalApart, NoCopy DEF Step, Sound, PhasesTrue,
     LockEntry, UnlockEntry, LockTrue, UnlockTrue, InVault, InItems, Only
<1>4. PhasesTrue'
  BY <1>1, <1>3, ColdEntries, StepFacts DEF RecoverySteps, Only
<1>5. LockTrue'
  BY <1>1, StepFacts, PathTypes, Apart, FinalApart, NoCopy DEF Step, Sound, LockTrue, InVault,
     Exists, Moved, Stays, Only
<1>6. UnlockTrue'
  BY <1>1, StepFacts, PathTypes, Apart, FinalApart, NoCopy DEF Step, Sound, UnlockTrue, Stays,
     Only
<1>7. Remembered'
  BY <1>1, StepFacts, PathTypes, Apart, FinalApart, NoCopy DEF Step, Sound, Accounted,
     Remembered, Exists, Moved, Stays, Only
<1>8. NoDataLoss'
  BY <1>1, StepFacts, PathTypes, Apart, FinalApart, NoCopy, LossInvariant, LossInvariantNext
     DEF Step, Sound, Somewhere, Copy, LockTrue, UnlockTrue, InVault, Moved, Stays, Only
<1> QED BY <1>2, <1>4, <1>5, <1>6, <1>7, <1>8 DEF Sound

(* The rename fails: the entry is dropped, and nothing is staged. *)
LEMMA StageFailsSound == Step /\ StageFails => Sound'
<1> SUFFICES ASSUME Step, StageFails PROVE Sound'
  OBVIOUS
<1>1. pc = "stage" /\ fs' = fs /\ Dropped(cur) /\ Ends
  BY StepFacts, NoneEmpty DEF Step, TypeOK, JournalOK, Entry, Calm, Dropped, Ends, StageFails,
     RenameFails, NoEntry, Answer, Exists, Cleared, env, Fault
<1>2. OneHot'
  BY <1>1, StepFacts DEF Step, Sound, OneHot, Cold, Pending, RecoverySteps, Dropped
<1>3. ASSUME NEW o \in Ops, o = cur PROVE LockEntry(o)' /\ UnlockEntry(o)'
  BY <1>1, <1>3, StepFacts DEF Step, Sound, PhasesTrue, LockEntry, UnlockEntry, LockTrue,
     UnlockTrue, InVault, InItems, Dropped, Only
<1>4. PhasesTrue'
  BY <1>1, <1>3, OtherEntries, StepFacts DEF Dropped, Only
<1>5. LockTrue'
  BY <1>1, StepFacts DEF Step, Sound, LockTrue, InVault, RollbackSteps, Ends, Only
<1>6. UnlockTrue'
  BY <1>1, StepFacts DEF Step, Sound, UnlockTrue, Ends, Only
<1>7. Remembered'
  BY <1>1, StepFacts DEF Step, Sound, Accounted, Remembered, Exists, Busy, Ends, Only
<1>8. NoDataLoss'
  BY <1>1, QuietLoss, StepFacts DEF Step, Accounted, Empty, AtEmptyStaged, Dropped, Ends, Only
<1> QED BY <1>2, <1>4, <1>5, <1>6, <1>7, <1>8 DEF Sound

(* The partial vault appears with the item's data, and is not whole yet. *)
LEMMA WritePartSound == Step /\ WritePart => Sound'
<1> SUFFICES ASSUME Step, WritePart PROVE Sound'
  OBVIOUS
<1>1. /\ pc = "write" /\ fs[Partial(cur)] = None /\ fs'[Partial(cur)] # None
      /\ ~fs'[Partial(cur)].whole
      /\ fs'[Partial(cur)].data = Source /\ Only({Partial(cur)})
      /\ journal' = journal /\ Stays("write")
  BY StepFacts, PathTypes, Apart, NoCopy, ChoiceAssumption DEF Step, TypeOK, Calm, None, Only,
     Stays, WritePart, Exists, Go, memory, env
<1>2. OneHot'
  BY <1>1, StepFacts DEF Step, Sound, OneHot, Cold, Pending, Stays
<1>3. ASSUME NEW o \in Ops, o = cur PROVE LockEntry(o)' /\ UnlockEntry(o)'
  BY <1>1, <1>3, StepFacts, PathTypes, Apart, FinalApart, NoCopy DEF Step, Sound, PhasesTrue,
     LockEntry, UnlockEntry, LockTrue, UnlockTrue, InVault, Stays
<1>4. PhasesTrue'
  BY <1>1, <1>3, OtherEntries, StepFacts DEF Only, Stays
<1>5. LockTrue'
  BY <1>1, StepFacts, PathTypes, Apart, FinalApart, NoCopy DEF Step, Sound, LockTrue, InVault,
     Exists, Source, FromScan, Only, Stays
<1>6. UnlockTrue'
  BY <1>1, StepFacts, PathTypes, Apart, FinalApart, NoCopy DEF Step, Sound, UnlockTrue, Stays
<1>7. Remembered'
  BY <1>1, StepFacts, PathTypes, Apart, FinalApart, NoCopy DEF Step, Sound, Accounted,
     Remembered, Exists, Only, Stays
<1>8. NoDataLoss'
  BY <1>1, QuietLoss, StepFacts, PathTypes, Apart, FinalApart, NoCopy DEF Step, Only, Stays
<1> QED BY <1>2, <1>4, <1>5, <1>6, <1>7, <1>8 DEF Sound

(* The partial vault becomes a whole copy of the staged item. *)
LEMMA WriteAllSound == Step /\ WriteAll => Sound'
<1> SUFFICES ASSUME Step, WriteAll PROVE Sound'
  OBVIOUS
<1>1. /\ pc = "write" /\ fs[Partial(cur)] # None /\ fs'[Partial(cur)] # None
      /\ fs'[Partial(cur)].whole
      /\ fs'[Partial(cur)].data = fs[Partial(cur)].data /\ Only({Partial(cur)})
      /\ Source = fs[Staged(cur)].data
      /\ journal' = journal /\ Stays("verify")
  BY StepFacts, PathTypes, Apart, NoCopy, ChoiceAssumption DEF Step, TypeOK, Calm, Source,
     FromScan, None, Content, Only, Stays, WriteAll, Exists, Complete, Go, memory, env
<1>2. OneHot'
  BY <1>1, StepFacts DEF Step, Sound, OneHot, Cold, Pending, RecoverySteps, Stays
<1>3. ASSUME NEW o \in Ops, o = cur PROVE LockEntry(o)' /\ UnlockEntry(o)'
  BY <1>1, <1>3, StepFacts, PathTypes, Apart, FinalApart, NoCopy DEF Step, Sound, PhasesTrue,
     LockEntry, UnlockEntry, LockTrue, UnlockTrue, InVault, Stays
<1>4. PhasesTrue'
  BY <1>1, <1>3, OtherEntries, StepFacts DEF Only, Stays
<1>5. LockTrue'
  BY <1>1, StepFacts, PathTypes, Apart, FinalApart, NoCopy DEF Step, Sound, LockTrue, Exists,
     Only, Stays
<1>6. UnlockTrue'
  BY <1>1, StepFacts, PathTypes, Apart, FinalApart, NoCopy DEF Step, Sound, UnlockTrue, Stays
<1>7. Remembered'
  BY <1>1, StepFacts, PathTypes, Apart, FinalApart, NoCopy DEF Step, Sound, Accounted,
     Remembered, Exists, Only, Stays
<1>8. NoDataLoss'
  BY <1>1, QuietLoss, StepFacts, PathTypes, Apart, FinalApart, NoCopy DEF Step, Only, Stays
<1> QED BY <1>2, <1>4, <1>5, <1>6, <1>7, <1>8 DEF Sound

(* The entry becomes hot while the partial vault is a whole copy. *)
LEMMA SaveVerifiedSound == Step /\ SaveVerified => Sound'
<1> SUFFICES ASSUME Step, SaveVerified PROVE Sound'
  OBVIOUS
<1>1. pc = "verify" /\ fs' = fs /\ Entries(cur, "lock", "verified") /\ Stays("place")
  BY StepFacts DEF Step, TypeOK, JournalOK, Entry, Calm, Entries, Stays, SaveVerified, Save,
     Go, memory, env
<1>2. OneHot'
  BY <1>1, StepFacts DEF Step, Sound, OneHot, Cold, Pending, RecoverySteps, Stays, Entries
<1>3. ASSUME NEW o \in Ops, o = cur PROVE LockEntry(o)' /\ UnlockEntry(o)'
  BY <1>1, <1>3, StepFacts DEF Step, Sound, PhasesTrue, LockEntry, UnlockEntry, LockTrue,
     UnlockTrue, InVault, InItems, Exists, Entries, Stays, Only
<1>4. PhasesTrue'
  BY <1>1, <1>3, OtherEntries, StepFacts DEF Entries, Only
<1>5. LockTrue'
  BY <1>1, StepFacts DEF Step, Sound, LockTrue, InVault, Exists, RollbackSteps, Stays, Only
<1>6. UnlockTrue'
  BY <1>1, StepFacts DEF Step, Sound, UnlockTrue, Stays, Only
<1>7. Remembered'
  BY <1>1, StepFacts DEF Step, Sound, Accounted, Remembered, Exists, Entries, Stays, Only
<1>8. NoDataLoss'
  BY <1>1, QuietLoss, StepFacts DEF Step, Accounted, Entries, Stays, Only
<1> QED BY <1>2, <1>4, <1>5, <1>6, <1>7, <1>8 DEF Sound

(* The whole copy gets the vault's name, which was free. *)
LEMMA PlaceSound == Step /\ Place => Sound'
<1> SUFFICES ASSUME Step, Place PROVE Sound'
  OBVIOUS
<1>1. pc = "place" /\ Moved(Partial(cur), Vault(vault)) /\ journal' = journal /\ Stays("commit")
  BY StepFacts, PathTypes, Apart, NameAssumption DEF Step, TypeOK, Calm, Moved, Stays, Only,
     Place, Rename, Go, Exists, memory, env
<1>2. OneHot'
  BY <1>1, StepFacts DEF Step, Sound, OneHot, Cold, Pending, RecoverySteps, Stays
<1>3. ASSUME NEW o \in Ops, o = cur PROVE LockEntry(o)' /\ UnlockEntry(o)'
  BY <1>1, <1>3, StepFacts, PathTypes, Apart, FinalApart, NoCopy DEF Step, Sound, PhasesTrue,
     LockEntry, UnlockEntry, LockTrue, UnlockTrue, InVault, InItems, Exists, Moved, Only
<1>4. PhasesTrue'
  BY <1>1, <1>3, ColdEntries, StepFacts DEF RecoverySteps, Only
<1>5. LockTrue'
  BY <1>1, StepFacts, PathTypes, Apart, FinalApart, NoCopy DEF Step, Sound, LockTrue, InVault,
     Exists, RollbackSteps, Moved, Stays, Only
<1>6. UnlockTrue'
  BY <1>1, StepFacts, PathTypes, Apart, FinalApart, NoCopy DEF Step, Sound, UnlockTrue, Stays,
     Only
<1>7. Remembered'
  BY <1>1, StepFacts, PathTypes, Apart, FinalApart, NoCopy DEF Step, Sound, Accounted,
     Remembered, Exists, Moved, Stays, Only
<1>8. NoDataLoss'
  BY <1>1, StepFacts, PathTypes, Apart, FinalApart, NoCopy, LossInvariant, LossInvariantNext
     DEF Step, Sound, Somewhere, Copy, LockTrue, UnlockTrue, InVault, Moved, Stays, Only
<1> QED BY <1>2, <1>4, <1>5, <1>6, <1>7, <1>8 DEF Sound

(* A failure before the phase is saved leads to the rollback. *)
LEMMA LockFailsSound == Step /\ LockFails => Sound'
<1> SUFFICES ASSUME Step, LockFails PROVE Sound'
  OBVIOUS
<1>1. /\ pc \in {"write", "verify", "place"} /\ fs' = fs /\ journal' = journal
      /\ Stays("backPartial")
      /\ (pc = "place" => fs[Partial(cur)] = None \/ fs[Vault(vault)] # None)
  BY StepFacts DEF Step, TypeOK, Calm, Stays, LockFails, Complete, RenameFails, Go, Exists,
     memory, env, Fault
<1>2. OneHot'
  BY <1>1, StepFacts DEF Step, Sound, OneHot, Cold, Pending, RecoverySteps, Stays
<1>3. ASSUME NEW o \in Ops, o = cur PROVE LockEntry(o)' /\ UnlockEntry(o)'
  BY <1>1, <1>3, StepFacts DEF Step, Sound, PhasesTrue, LockEntry, UnlockEntry, LockTrue,
     UnlockTrue, InVault, Exists, Only
<1>4. PhasesTrue'
  BY <1>1, <1>3, OtherEntries, StepFacts DEF Only
<1>5. LockTrue'
  BY <1>1, StepFacts DEF Step, Sound, LockTrue, Exists, Stays, Only
<1>6. UnlockTrue'
  BY <1>1, StepFacts DEF Step, Sound, UnlockTrue, Stays, Only
<1>7. Remembered'
  BY <1>1, StepFacts DEF Step, Sound, Accounted, Remembered, Exists, Stays, Only
<1>8. NoDataLoss'
  BY <1>1, QuietLoss, StepFacts DEF Step, Stays, Only
<1> QED BY <1>2, <1>4, <1>5, <1>6, <1>7, <1>8 DEF Sound

(* Saving the phase of a vault in place. *)
LEMMA SaveCommittedSound == Step /\ SaveCommitted => Sound'
<1> SUFFICES ASSUME Step, SaveCommitted PROVE Sound'
  OBVIOUS
<1>1. /\ pc = "commit" /\ fs' = fs /\ (journal' = journal \/ Entries(cur, "lock", "committed"))
      /\ Stays("deleteStaged")
  BY StepFacts DEF Step, TypeOK, JournalOK, Entry, Calm, Entries, Stays, SaveCommitted, Save,
     SaveFails, Go, memory, env, Fault
<1>2. OneHot'
  BY <1>1, StepFacts DEF Step, Sound, OneHot, Cold, Pending, RecoverySteps, Stays, Entries
<1>3. ASSUME NEW o \in Ops, o = cur PROVE LockEntry(o)' /\ UnlockEntry(o)'
  BY <1>1, <1>3, StepFacts DEF Step, Sound, PhasesTrue, LockEntry, UnlockEntry, LockTrue,
     UnlockTrue, InVault, InItems, Exists, Entries, Only
<1>4. PhasesTrue'
  BY <1>1, <1>3, OtherEntries, StepFacts DEF Entries, Only
<1>5. LockTrue'
  BY <1>1, StepFacts DEF Step, Sound, LockTrue, InVault, Exists, RollbackSteps, Stays, Only
<1>6. UnlockTrue'
  BY <1>1, StepFacts DEF Step, Sound, UnlockTrue, Stays, Only
<1>7. Remembered'
  BY <1>1, StepFacts DEF Step, Sound, Accounted, Remembered, Exists, Entries, Stays, Only
<1>8. NoDataLoss'
  BY <1>1, QuietLoss, StepFacts DEF Step, Accounted, Entries, Stays, Only
<1> QED BY <1>2, <1>4, <1>5, <1>6, <1>7, <1>8 DEF Sound

(* Deleting the original: the vault is a whole copy of it. *)
LEMMA DeleteStagedSound == Step /\ DeleteStaged => Sound'
<1> SUFFICES ASSUME Step, DeleteStaged PROVE Sound'
  OBVIOUS
<1>1. pc = "deleteStaged" /\ Lost(Staged(cur)) /\ journal' = journal /\ Stays("forget")
  BY StepFacts, PathTypes, Apart DEF Step, TypeOK, Calm, Lost, Stays, Only, DeleteStaged,
     Gone, Go, Stuck, Answer, memory, env, Exists, Cleared, Fault
<1>2. OneHot'
  BY <1>1, StepFacts DEF Step, Sound, OneHot, Cold, Pending, RecoverySteps, Stays
<1>3. ASSUME NEW o \in Ops, o = cur PROVE LockEntry(o)' /\ UnlockEntry(o)'
  BY <1>1, <1>3, StepFacts, PathTypes, Apart, FinalApart, NoCopy DEF Step, Sound, PhasesTrue,
     LockEntry, UnlockEntry, LockTrue, UnlockTrue, InVault, InItems, Exists, Lost, Only
<1>4. PhasesTrue'
  BY <1>1, <1>3, OtherEntries, StepFacts DEF Lost, Only
<1>5. LockTrue'
  BY <1>1, StepFacts, PathTypes, Apart, FinalApart, NoCopy DEF Step, Sound, LockTrue, InVault,
     RollbackSteps, Stays, Only
<1>6. UnlockTrue'
  BY <1>1, StepFacts, PathTypes, Apart, FinalApart, NoCopy DEF Step, Sound, UnlockTrue, Stays,
     Only
<1>7. Remembered'
  BY <1>1, StepFacts, PathTypes, Apart, FinalApart, NoCopy DEF Step, Sound, Accounted,
     Remembered, Exists, Lost, Stays, Only
<1>8. NoDataLoss'
  BY <1>1, StepFacts, PathTypes, Apart, FinalApart, NoCopy, LossInvariant, LossInvariantNext
     DEF Step, Sound, Somewhere, Copy, LockTrue, UnlockTrue, InVault, Exists, Lost, Stays, Only
<1> QED BY <1>2, <1>4, <1>5, <1>6, <1>7, <1>8 DEF Sound

(* A finished lock drops its entry: nothing is staged any more. *)
LEMMA ForgetLockSound == Step /\ ForgetLock => Sound'
<1> SUFFICES ASSUME Step, ForgetLock PROVE Sound'
  OBVIOUS
<1>1. pc = "forget" /\ fs' = fs /\ Dropped(cur) /\ Ends
  BY StepFacts, NoneEmpty DEF Step, TypeOK, JournalOK, Entry, Calm, Dropped, Ends, ForgetLock,
     Forget, Answer, ForgetFails, NoEntry, Cleared, env, Fault
<1>2. OneHot'
  BY <1>1, StepFacts DEF Step, Sound, OneHot, Cold, Pending, RecoverySteps, Dropped
<1>3. ASSUME NEW o \in Ops, o = cur PROVE LockEntry(o)' /\ UnlockEntry(o)'
  BY <1>1, <1>3, StepFacts DEF Step, Sound, PhasesTrue, LockEntry, UnlockEntry, LockTrue,
     UnlockTrue, InVault, InItems, Dropped, Only
<1>4. PhasesTrue'
  BY <1>1, <1>3, OtherEntries, StepFacts DEF Dropped, Only
<1>5. LockTrue'
  BY <1>1, StepFacts DEF Step, Sound, LockTrue, InVault, RollbackSteps, Ends, Only
<1>6. UnlockTrue'
  BY <1>1, StepFacts DEF Step, Sound, UnlockTrue, Ends, Only
<1>7. Remembered'
  BY <1>1, StepFacts DEF Step, Sound, Accounted, Remembered, Exists, Busy, Ends, Only
<1>8. NoDataLoss'
  BY <1>1, QuietLoss, StepFacts DEF Step, Accounted, Empty, AtEmptyStaged, Dropped, Ends, Only
<1> QED BY <1>2, <1>4, <1>5, <1>6, <1>7, <1>8 DEF Sound

(* The rollback deletes the partial vault of a cold entry. *)
LEMMA BackPartialSound == Step /\ BackPartial => Sound'
<1> SUFFICES ASSUME Step, BackPartial PROVE Sound'
  OBVIOUS
<1>1. pc = "backPartial" /\ Lost(Partial(cur)) /\ journal' = journal /\ Stays("backItem")
  BY StepFacts, PathTypes, Apart DEF Step, TypeOK, Calm, Lost, Stays, Only, BackPartial, Gone,
     Stuck, Go, Exists, memory, env, Fault
<1>2. OneHot'
  BY <1>1, StepFacts DEF Step, Sound, OneHot, Cold, Pending, RecoverySteps, Stays
<1>3. ASSUME NEW o \in Ops, o = cur PROVE LockEntry(o)' /\ UnlockEntry(o)'
  BY <1>1, <1>3, StepFacts, PathTypes, Apart, FinalApart, NoCopy DEF Step, Sound, PhasesTrue,
     LockEntry, UnlockEntry, LockTrue, UnlockTrue, InVault, InItems, RollbackSteps, Only
<1>4. PhasesTrue'
  BY <1>1, <1>3, OtherEntries, StepFacts DEF Lost, Only
<1>5. LockTrue'
  BY <1>1, StepFacts, PathTypes, Apart, FinalApart, NoCopy DEF Step, Sound, LockTrue, InVault,
     RollbackSteps, Stays, Only
<1>6. UnlockTrue'
  BY <1>1, StepFacts, PathTypes, Apart, FinalApart, NoCopy DEF Step, Sound, UnlockTrue, Stays,
     Only
<1>7. Remembered'
  BY <1>1, StepFacts, PathTypes, Apart, FinalApart, NoCopy DEF Step, Sound, Accounted,
     Remembered, Exists, Lost, Stays, Only
<1>8. NoDataLoss'
  BY <1>1, QuietLoss, StepFacts, PathTypes, Apart, FinalApart, NoCopy DEF Step, Accounted,
     Lost, Stays, Only
<1> QED BY <1>2, <1>4, <1>5, <1>6, <1>7, <1>8 DEF Sound

(* The rollback moves the item back, which keeps the data under a final name. *)
LEMMA BackItemSound == Step /\ BackItem => Sound'
<1> SUFFICES ASSUME Step, BackItem PROVE Sound'
  OBVIOUS
<1>1. /\ pc = "backItem" /\ (Moved(Staged(cur), Item(item)) \/ fs' = fs)
      /\ journal' = journal /\ Stays("backForget")
  BY StepFacts, PathTypes, Apart, NameAssumption DEF Step, TypeOK, Calm, Moved, Stays, Only,
     BackItem, Exists, Rename, Go, Answer, memory, env, Cleared, Fault
<1>2. OneHot'
  BY <1>1, StepFacts DEF Step, Sound, OneHot, Cold, Pending, RecoverySteps, Stays
<1>3. ASSUME NEW o \in Ops, o = cur PROVE LockEntry(o)' /\ UnlockEntry(o)'
  BY <1>1, <1>3, StepFacts, PathTypes, Apart, FinalApart, NoCopy DEF Step, Sound, PhasesTrue,
     LockEntry, UnlockEntry, LockTrue, UnlockTrue, InVault, InItems, RollbackSteps, Only
<1>4. PhasesTrue'
  BY <1>1, <1>3, ColdEntries, StepFacts DEF RecoverySteps, Only
<1>5. LockTrue'
  BY <1>1, StepFacts, PathTypes, Apart, FinalApart, NoCopy DEF Step, Sound, LockTrue, InVault,
     RollbackSteps, Stays, Only
<1>6. UnlockTrue'
  BY <1>1, StepFacts, PathTypes, Apart, FinalApart, NoCopy DEF Step, Sound, UnlockTrue, Stays,
     Only
<1>7. Remembered'
  BY <1>1, StepFacts, PathTypes, Apart, FinalApart, NoCopy DEF Step, Sound, Accounted,
     Remembered, Exists, Moved, Stays, Only
<1>8. NoDataLoss'
  BY <1>1, StepFacts, PathTypes, Apart, FinalApart, NoCopy, LossInvariant, LossInvariantNext
     DEF Step, Sound, Somewhere, Copy, LockTrue, UnlockTrue, InVault, Moved, Stays, Only
<1> QED BY <1>2, <1>4, <1>5, <1>6, <1>7, <1>8 DEF Sound

(* A rollback that is over drops its entry or keeps a cold one. *)
LEMMA BackForgetSound == Step /\ BackForget => Sound'
<1> SUFFICES ASSUME Step, BackForget PROVE Sound'
  OBVIOUS
<1>1. /\ pc = "backForget" /\ fs' = fs /\ Ends
      /\ (journal' = journal \/ (fs[Staged(cur)] = None /\ Dropped(cur)))
  BY StepFacts, NoneEmpty DEF Step, TypeOK, JournalOK, Entry, Calm, Dropped, Ends, BackForget,
     Exists, Forget, ForgetFails, Answer, NoEntry, Cleared, env, Fault
<1>2. OneHot'
  BY <1>1, StepFacts DEF Step, Sound, OneHot, Cold, Pending, LockTrue, RollbackSteps,
     RecoverySteps, Dropped
<1>3. ASSUME NEW o \in Ops, o = cur PROVE LockEntry(o)' /\ UnlockEntry(o)'
  BY <1>1, <1>3, StepFacts DEF Step, Sound, PhasesTrue, LockEntry, UnlockEntry, LockTrue,
     UnlockTrue, InVault, InItems, Exists, Dropped, Only
<1>4. PhasesTrue'
  BY <1>1, <1>3, OtherEntries, StepFacts DEF Dropped, Only
<1>5. LockTrue'
  BY <1>1, StepFacts DEF Step, Sound, LockTrue, InVault, RollbackSteps, Ends, Only
<1>6. UnlockTrue'
  BY <1>1, StepFacts DEF Step, Sound, UnlockTrue, Ends, Only
<1>7. Remembered'
  BY <1>1, StepFacts DEF Step, Sound, Accounted, Remembered, Exists, Busy, Ends, Only
<1>8. NoDataLoss'
  BY <1>1, QuietLoss, StepFacts, NoCopy DEF Ends, Dropped, Only
<1> QED BY <1>2, <1>4, <1>5, <1>6, <1>7, <1>8 DEF Sound

(* The work folder appears with the vault's data. *)
LEMMA RestorePartSound == Step /\ RestorePart => Sound'
<1> SUFFICES ASSUME Step, RestorePart PROVE Sound'
  OBVIOUS
<1>1. /\ pc = "restore" /\ fs'[Restoring(cur)].data = fs[Vault(vault)].data
      /\ Only({Restoring(cur)}) /\ journal' = journal
      /\ Stays("restore")
  BY StepFacts, PathTypes, Apart DEF Step, TypeOK, Calm, Only, Stays, RestorePart, Exists, Go,
     memory, env
<1>2. OneHot'
  BY <1>1, StepFacts DEF Step, Sound, OneHot, Cold, Pending, Stays
<1>3. ASSUME NEW o \in Ops, o = cur PROVE LockEntry(o)' /\ UnlockEntry(o)'
  BY <1>1, <1>3, StepFacts, PathTypes, Apart, FinalApart, NoCopy DEF Step, Sound, PhasesTrue,
     LockEntry, UnlockEntry, LockTrue, UnlockTrue, InVault, InItems, Exists, Only, Stays
<1>4. PhasesTrue'
  BY <1>1, <1>3, OtherEntries, StepFacts DEF Only, Stays
<1>5. LockTrue'
  BY <1>1, StepFacts, PathTypes, Apart, FinalApart, NoCopy DEF Step, Sound, LockTrue, Stays
<1>6. UnlockTrue'
  BY <1>1, StepFacts, PathTypes, Apart, FinalApart, NoCopy DEF Step, Sound, UnlockTrue, Stays
<1>7. Remembered'
  BY <1>1, StepFacts, PathTypes, Apart, FinalApart, NoCopy DEF Step, Sound, Accounted,
     Remembered, Exists, Only, Stays
<1>8. NoDataLoss'
  BY <1>1, QuietLoss, StepFacts, PathTypes, Apart, FinalApart, NoCopy DEF Step, Only, Stays
<1> QED BY <1>2, <1>4, <1>5, <1>6, <1>7, <1>8 DEF Sound

(* The work folder becomes a whole copy. *)
LEMMA RestoreAllSound == Step /\ RestoreAll => Sound'
<1> SUFFICES ASSUME Step, RestoreAll PROVE Sound'
  OBVIOUS
<1>1. /\ pc = "restore" /\ fs'[Restoring(cur)].data = fs[Vault(vault)].data
      /\ Only({Restoring(cur)}) /\ journal' = journal
      /\ Stays("putBack")
  BY StepFacts, PathTypes, Apart DEF Step, TypeOK, Calm, Only, Stays, RestoreAll, Readable,
     Go, Exists, memory, env
<1>2. OneHot'
  BY <1>1, StepFacts DEF Step, Sound, OneHot, Cold, Pending, Stays
<1>3. ASSUME NEW o \in Ops, o = cur PROVE LockEntry(o)' /\ UnlockEntry(o)'
  BY <1>1, <1>3, StepFacts, PathTypes, Apart, FinalApart, NoCopy DEF Step, Sound, PhasesTrue,
     LockEntry, UnlockEntry, LockTrue, UnlockTrue, InVault, InItems, Exists, Only, Stays
<1>4. PhasesTrue'
  BY <1>1, <1>3, OtherEntries, StepFacts DEF Only, Stays
<1>5. LockTrue'
  BY <1>1, StepFacts, PathTypes, Apart, FinalApart, NoCopy DEF Step, Sound, LockTrue,
     RollbackSteps, Stays
<1>6. UnlockTrue'
  BY <1>1, StepFacts, PathTypes, Apart, FinalApart, NoCopy DEF Step, Sound, UnlockTrue, Only,
     Stays
<1>7. Remembered'
  BY <1>1, StepFacts, PathTypes, Apart, FinalApart, NoCopy DEF Step, Sound, Accounted,
     Remembered, Exists, Only, Stays
<1>8. NoDataLoss'
  BY <1>1, QuietLoss, StepFacts, PathTypes, Apart, FinalApart, NoCopy DEF Step, Only, Stays
<1> QED BY <1>2, <1>4, <1>5, <1>6, <1>7, <1>8 DEF Sound

(* The whole copy gets the item's name: from here the vault may go. *)
LEMMA PutBackSound == Step /\ PutBack => Sound'
<1> SUFFICES ASSUME Step, PutBack PROVE Sound'
  OBVIOUS
<1>1. /\ pc = "putBack" /\ journal' = journal /\ Stays("restored")
      /\ \E m \in Names : /\ fs[Item(m)] = None /\ fs'[Item(m)].whole
                          /\ fs'[Item(m)].data = fs[Restoring(cur)].data
                          /\ Only({Item(m), Restoring(cur)})
  <2>1. PICK m \in Names :
          /\ ~Exists(Item(m))
          /\ fs' = [fs EXCEPT ![Item(m)] = Plain(fs[Restoring(cur)].data),
                             ![Restoring(cur)] = IF fs[Restoring(cur)].data \in Files
                                                  THEN EmptyDir ELSE None]
    BY StepFacts, NameAssumption DEF PutBack, FreeNames
  <2>2. /\ fs[Item(m)] = None /\ fs'[Item(m)].whole
        /\ fs'[Item(m)].data = fs[Restoring(cur)].data /\ Only({Item(m), Restoring(cur)})
    BY <2>1, StepFacts, PathTypes, Apart DEF Step, TypeOK, Exists, Only, Plain
  <2> QED BY <2>2 DEF PutBack, Stays, env
<1>2. OneHot'
  BY <1>1, StepFacts DEF Step, Sound, OneHot, Cold, Pending, Stays
<1>3. ASSUME NEW o \in Ops, o = cur PROVE LockEntry(o)' /\ UnlockEntry(o)'
  BY <1>1, <1>3, StepFacts, PathTypes, Apart, FinalApart, NoCopy DEF Step, Sound, PhasesTrue,
     LockEntry, UnlockEntry, LockTrue, UnlockTrue, InVault, InItems, Exists, RollbackSteps, Only,
     Stays
<1>4. PhasesTrue'
  BY <1>1, <1>3, ColdEntries, StepFacts DEF RecoverySteps, Stays
<1>5. LockTrue'
  BY <1>1, StepFacts, PathTypes, Apart, FinalApart, NoCopy DEF Step, Sound, LockTrue,
     RollbackSteps, Stays
<1>6. UnlockTrue'
  BY <1>1, StepFacts, PathTypes, Apart, FinalApart, NoCopy DEF Step, Sound, UnlockTrue,
     InItems, Only, Stays
<1>7. Remembered'
  BY <1>1, StepFacts, PathTypes, Apart, FinalApart, NoCopy DEF Step, Sound, Accounted,
     Remembered, Exists, Only, Stays
<1>8. NoDataLoss'
  BY <1>1, StepFacts, PathTypes, Apart, FinalApart, NoCopy, LossInvariant, LossInvariantNext
     DEF Step, Sound, Somewhere, Copy, LockTrue, UnlockTrue, Only, Stays
<1> QED BY <1>2, <1>4, <1>5, <1>6, <1>7, <1>8 DEF Sound

(* A failure of an unlock leads to its cleanup. *)
LEMMA UnlockFailsSound == Step /\ UnlockFails => Sound'
<1> SUFFICES ASSUME Step, UnlockFails PROVE Sound'
  OBVIOUS
<1>1. pc \in {"restore", "putBack"} /\ fs' = fs /\ journal' = journal /\ Stays("abort")
  BY StepFacts DEF Step, TypeOK, Calm, Stays, UnlockFails, Exists, Readable, FreeNames, Go,
     memory, env, Fault
<1>2. OneHot'
  BY <1>1, StepFacts DEF Step, Sound, OneHot, Cold, Pending, Stays
<1>3. ASSUME NEW o \in Ops, o = cur PROVE LockEntry(o)' /\ UnlockEntry(o)'
  BY <1>1, <1>3, StepFacts DEF Step, Sound, PhasesTrue, LockEntry, UnlockEntry, LockTrue,
     UnlockTrue, InVault, InItems, Exists, Only
<1>4. PhasesTrue'
  BY <1>1, <1>3, OtherEntries, StepFacts DEF Only
<1>5. LockTrue'
  BY <1>1, StepFacts DEF Step, Sound, LockTrue, RollbackSteps, Stays, Only
<1>6. UnlockTrue'
  BY <1>1, StepFacts DEF Step, Sound, UnlockTrue, Stays, Only
<1>7. Remembered'
  BY <1>1, StepFacts DEF Step, Sound, Accounted, Remembered, Exists, Stays, Only
<1>8. NoDataLoss'
  BY <1>1, QuietLoss, StepFacts DEF Step, Stays, Only
<1> QED BY <1>2, <1>4, <1>5, <1>6, <1>7, <1>8 DEF Sound

(* The cleanup deletes the work folder, which no data needs. *)
LEMMA AbortUnlockSound == Step /\ AbortUnlock => Sound'
<1> SUFFICES ASSUME Step, AbortUnlock PROVE Sound'
  OBVIOUS
<1>1. pc = "abort" /\ Lost(Restoring(cur)) /\ journal' = journal /\ Stays("abortForget")
  BY StepFacts, PathTypes, Apart DEF Step, TypeOK, Calm, Lost, Stays, Only, AbortUnlock, Gone,
     Go, Stuck, Answer, memory, env, Exists, Cleared, Fault
<1>2. OneHot'
  BY <1>1, StepFacts DEF Step, Sound, OneHot, Cold, Pending, Stays
<1>3. ASSUME NEW o \in Ops, o = cur PROVE LockEntry(o)' /\ UnlockEntry(o)'
  BY <1>1, <1>3, StepFacts, PathTypes, Apart, FinalApart, NoCopy DEF Step, Sound, PhasesTrue,
     LockEntry, UnlockEntry, LockTrue, UnlockTrue, InVault, InItems, Exists, RollbackSteps, Lost,
     Stays, Only
<1>4. PhasesTrue'
  BY <1>1, <1>3, OtherEntries, StepFacts DEF Lost, Only
<1>5. LockTrue'
  BY <1>1, StepFacts, PathTypes, Apart, FinalApart, NoCopy DEF Step, Sound, LockTrue, InVault,
     RollbackSteps, Stays, Only
<1>6. UnlockTrue'
  BY <1>1, StepFacts, PathTypes, Apart, FinalApart, NoCopy DEF Step, Sound, UnlockTrue, Stays,
     Only
<1>7. Remembered'
  BY <1>1, StepFacts, PathTypes, Apart, FinalApart, NoCopy DEF Step, Sound, Accounted,
     Remembered, Exists, Lost, Stays, Only
<1>8. NoDataLoss'
  BY <1>1, QuietLoss, StepFacts, PathTypes, Apart, FinalApart, NoCopy DEF Step, Accounted,
     Lost, Stays, Only
<1> QED BY <1>2, <1>4, <1>5, <1>6, <1>7, <1>8 DEF Sound

(* The cleanup of an unlock drops its entry. *)
LEMMA AbortForgetSound == Step /\ AbortForget => Sound'
<1> SUFFICES ASSUME Step, AbortForget PROVE Sound'
  OBVIOUS
<1>1. pc = "abortForget" /\ fs' = fs /\ Dropped(cur) /\ Ends
  BY StepFacts, NoneEmpty DEF Step, TypeOK, JournalOK, Entry, Calm, Dropped, Ends,
     AbortForget, Forget, ForgetFails, Answer, NoEntry, Cleared, env, Fault
<1>2. OneHot'
  BY <1>1, StepFacts DEF Step, Sound, OneHot, Cold, Pending, Dropped
<1>3. ASSUME NEW o \in Ops, o = cur PROVE LockEntry(o)' /\ UnlockEntry(o)'
  BY <1>1, <1>3, StepFacts DEF Step, Sound, PhasesTrue, LockEntry, UnlockEntry, LockTrue,
     UnlockTrue, InVault, InItems, Dropped, Only
<1>4. PhasesTrue'
  BY <1>1, <1>3, OtherEntries, StepFacts DEF Dropped, Only
<1>5. LockTrue'
  BY <1>1, StepFacts DEF Step, Sound, LockTrue, InVault, RollbackSteps, Ends, Only
<1>6. UnlockTrue'
  BY <1>1, StepFacts DEF Step, Sound, UnlockTrue, Ends, Only
<1>7. Remembered'
  BY <1>1, StepFacts DEF Step, Sound, Accounted, Remembered, Exists, Busy, Ends, Only
<1>8. NoDataLoss'
  BY <1>1, QuietLoss, StepFacts DEF Step, Accounted, Dropped, Ends, Only
<1> QED BY <1>2, <1>4, <1>5, <1>6, <1>7, <1>8 DEF Sound

(* The entry becomes hot while the data is under the item's name. *)
LEMMA SaveRestoredSound == Step /\ SaveRestored => Sound'
<1> SUFFICES ASSUME Step, SaveRestored PROVE Sound'
  OBVIOUS
<1>1. /\ pc = "restored" /\ fs' = fs
      /\ journal' = journal \/ Entries(cur, "unlock", "committed")
      /\ Stays("deleteWork") \/ Stays("deleteVault")
  <2>1. /\ pc = "restored" /\ fs' = fs
        /\ Stays("deleteWork") \/ Stays("deleteVault")
    BY DEF SaveRestored, Go, Stays, memory, env
  <2>2. \/ journal' = journal
        \/ journal' = [journal EXCEPT ![cur] =
                          [journal[cur] EXCEPT !.phase = "committed", !.item = item]]
    BY DEF SaveRestored, Save, SaveFails
  <2>3. journal \in [Ops -> Entry] /\ journal[cur].kind = "unlock" /\ cur \in Ops
    BY <2>1, StepFacts DEF Step, TypeOK, JournalOK
  <2> QED BY <2>1, <2>2, <2>3 DEF Entries, Entry
<1>2. OneHot'
  BY <1>1, StepFacts DEF Step, Sound, OneHot, Cold, Pending, Stays, Entries
<1>3. ASSUME NEW o \in Ops, o = cur PROVE LockEntry(o)' /\ UnlockEntry(o)'
  BY <1>1, <1>3, StepFacts DEF Step, Sound, PhasesTrue, LockEntry, UnlockEntry, LockTrue,
     UnlockTrue, InVault, InItems, Exists, RollbackSteps, Entries, Stays, Only
<1>4. PhasesTrue'
  BY <1>1, <1>3, OtherEntries, StepFacts DEF Entries, Only
<1>5. LockTrue'
  BY <1>1, StepFacts DEF Step, Sound, LockTrue, InVault, RollbackSteps, Stays, Only
<1>6. UnlockTrue'
  BY <1>1, StepFacts DEF Step, Sound, UnlockTrue, InItems, Exists, Stays, Only
<1>7. Remembered'
  BY <1>1, StepFacts DEF Step, Sound, Accounted, Remembered, Exists, Entries, Stays, Only
<1>8. NoDataLoss'
  BY <1>1, QuietLoss, StepFacts DEF Step, Accounted, Entries, Stays, Only
<1> QED BY <1>2, <1>4, <1>5, <1>6, <1>7, <1>8 DEF Sound

(* Deleting what is left of the work folder. *)
LEMMA DeleteWorkSound == Step /\ DeleteWork => Sound'
<1> SUFFICES ASSUME Step, DeleteWork PROVE Sound'
  OBVIOUS
<1>1. pc = "deleteWork" /\ Lost(Restoring(cur)) /\ journal' = journal /\ Stays("deleteVault")
  BY StepFacts, PathTypes, Apart DEF Step, TypeOK, Calm, Lost, Stays, Only, DeleteWork, Gone,
     Stuck, env, Exists, Fault
<1>2. OneHot'
  BY <1>1, StepFacts DEF Step, Sound, OneHot, Cold, Pending, Stays
<1>3. ASSUME NEW o \in Ops, o = cur PROVE LockEntry(o)' /\ UnlockEntry(o)'
  BY <1>1, <1>3, StepFacts, PathTypes, Apart, FinalApart, NoCopy DEF Step, Sound, PhasesTrue,
     LockEntry, UnlockEntry, LockTrue, UnlockTrue, InVault, InItems, Exists, RollbackSteps, Lost,
     Only
<1>4. PhasesTrue'
  BY <1>1, <1>3, OtherEntries, StepFacts DEF Lost, Only
<1>5. LockTrue'
  BY <1>1, StepFacts, PathTypes, Apart, FinalApart, NoCopy DEF Step, Sound, LockTrue, InVault,
     RollbackSteps, Stays, Only
<1>6. UnlockTrue'
  BY <1>1, StepFacts, PathTypes, Apart, FinalApart, NoCopy DEF Step, Sound, UnlockTrue,
     InItems, Exists, Lost, Stays, Only
<1>7. Remembered'
  BY <1>1, StepFacts, PathTypes, Apart, FinalApart, NoCopy DEF Step, Sound, Accounted,
     Remembered, Exists, Lost, Stays, Only
<1>8. NoDataLoss'
  BY <1>1, QuietLoss, StepFacts, PathTypes, Apart, FinalApart, NoCopy DEF Step, Accounted,
     Lost, Stays, Only
<1> QED BY <1>2, <1>4, <1>5, <1>6, <1>7, <1>8 DEF Sound

(* Deleting the vault: the item is a whole copy of it. *)
LEMMA DeleteVaultSound == Step /\ DeleteVault => Sound'
<1> SUFFICES ASSUME Step, DeleteVault PROVE Sound'
  OBVIOUS
<1>1. /\ pc = "deleteVault" /\ Lost(Vault(vault)) /\ journal' = journal
      /\ Stays("closeUnlock")
  BY StepFacts, PathTypes, Apart DEF Step, TypeOK, Calm, Sound, UnlockTrue, Lost, Stays, Only,
     DeleteVault, Gone, Go, Answer, Stuck, memory, env, Cleared, Exists, Fault
<1>2. OneHot'
  BY <1>1, StepFacts DEF Step, Sound, OneHot, Cold, Pending, Stays
<1>3. ASSUME NEW o \in Ops, o = cur PROVE LockEntry(o)' /\ UnlockEntry(o)'
  BY <1>1, <1>3, StepFacts, PathTypes, Apart, FinalApart, NoCopy DEF Step, Sound, PhasesTrue,
     LockEntry, UnlockEntry, LockTrue, UnlockTrue, InVault, InItems, Exists, Lost, Only
<1>4. PhasesTrue'
  BY <1>1, <1>3, ColdEntries, StepFacts DEF RecoverySteps, Only
<1>5. LockTrue'
  BY <1>1, StepFacts, PathTypes, Apart, FinalApart, NoCopy DEF Step, Sound, LockTrue, InVault,
     RollbackSteps, Stays, Only
<1>6. UnlockTrue'
  BY <1>1, StepFacts, PathTypes, Apart, FinalApart, NoCopy DEF Step, Sound, UnlockTrue, Stays,
     Only
<1>7. Remembered'
  BY <1>1, StepFacts, PathTypes, Apart, FinalApart, NoCopy DEF Step, Sound, Accounted,
     Remembered, Exists, Lost, Stays, Only
<1>8. NoDataLoss'
  BY <1>1, StepFacts, PathTypes, Apart, FinalApart, NoCopy, LossInvariant, LossInvariantNext
     DEF Step, Sound, Somewhere, Copy, LockTrue, UnlockTrue, InVault, InItems, Exists, Lost,
     Stays, Only
<1> QED BY <1>2, <1>4, <1>5, <1>6, <1>7, <1>8 DEF Sound

(* A finished unlock drops its entry, which counts no data. *)
LEMMA ForgetUnlockSound == Step /\ ForgetUnlock => Sound'
<1> SUFFICES ASSUME Step, ForgetUnlock PROVE Sound'
  OBVIOUS
<1>1. pc = "closeUnlock" /\ fs' = fs /\ Dropped(cur) /\ Ends
  BY StepFacts, NoneEmpty DEF Step, TypeOK, JournalOK, Entry, Calm, Dropped, Ends,
     ForgetUnlock, Forget, Answer, ForgetFails, NoEntry, Cleared, env, Fault
<1>2. OneHot'
  BY <1>1, StepFacts DEF Step, Sound, OneHot, Cold, Pending, Dropped
<1>3. ASSUME NEW o \in Ops, o = cur PROVE LockEntry(o)' /\ UnlockEntry(o)'
  BY <1>1, <1>3, StepFacts DEF Step, Sound, PhasesTrue, LockEntry, UnlockEntry, LockTrue,
     UnlockTrue, InVault, InItems, Dropped, Only
<1>4. PhasesTrue'
  BY <1>1, <1>3, OtherEntries, StepFacts DEF Dropped, Only
<1>5. LockTrue'
  BY <1>1, StepFacts DEF Step, Sound, LockTrue, InVault, RollbackSteps, Ends, Only
<1>6. UnlockTrue'
  BY <1>1, StepFacts DEF Step, Sound, UnlockTrue, Ends, Only
<1>7. Remembered'
  BY <1>1, StepFacts DEF Step, Sound, Accounted, Remembered, Exists, Busy, Ends, Only
<1>8. NoDataLoss'
  BY <1>1, QuietLoss, StepFacts DEF Step, Accounted, Dropped, Ends, Only
<1> QED BY <1>2, <1>4, <1>5, <1>6, <1>7, <1>8 DEF Sound

(* Recovery of a hot lock finds the vault in place or the partial one whole,   *)
(* and moves that.                                                             *)
LEMMA RPlaceSound == Step /\ RPlace => Sound'
<1> SUFFICES ASSUME Step, RPlace PROVE Sound'
  OBVIOUS
<1>1. /\ pc = "rPlace" /\ journal' = journal /\ Stays("rDeleteStaged")
      /\ \/ Moved(Partial(cur), Vault(vault))
         \/ fs' = fs /\ (fs[Partial(cur)] = None \/ fs[Vault(vault)] # None)
  BY StepFacts, PathTypes, Apart, NameAssumption DEF Step, TypeOK, Calm, Moved, Stays, Only,
     RPlace, Exists, Rename, Go, Skip, memory, env, Fault
<1>2. OneHot'
  BY <1>1, StepFacts DEF Step, Sound, OneHot, Cold, Pending, RecoverySteps, Stays
<1>3. ASSUME NEW o \in Ops, o = cur PROVE LockEntry(o)' /\ UnlockEntry(o)'
  BY <1>1, <1>3, StepFacts, PathTypes, Apart, FinalApart, NoCopy DEF Step, Sound, PhasesTrue,
     LockEntry, UnlockEntry, LockTrue, UnlockTrue, InVault, InItems, Exists, RollbackSteps,
     Moved, Only
<1>4. PhasesTrue'
  <2>1. ~Cold(cur)
    BY <1>1 DEF Step, Sound, LockTrue, Cold
  <2> QED BY <1>1, <1>3, <2>1, ColdEntries
<1>5. LockTrue'
  <2>1. /\ pc' = "rDeleteStaged" /\ cur' = cur /\ vault' = vault /\ vault = journal[cur].vault
        /\ LockEntry(cur) /\ journal[cur].kind = "lock" /\ journal[cur].phase # "started"
    BY <1>1, StepFacts DEF Step, Sound, Stays, PhasesTrue, LockTrue
  <2>2. CASE Moved(Partial(cur), Vault(vault))
    BY <2>1, <2>2, StepFacts, PathTypes, Apart, NoCopy DEF LockTrue, LockEntry, InVault,
       Moved, Only, Exists, RollbackSteps
  <2>3. CASE fs' = fs /\ (fs[Partial(cur)] = None \/ fs[Vault(vault)] # None)
    BY <2>1, <2>3 DEF LockTrue, LockEntry, InVault, Exists, RollbackSteps
  <2> QED BY <1>1, <2>2, <2>3
<1>6. UnlockTrue'
  BY <1>1, StepFacts, PathTypes, Apart, FinalApart, NoCopy DEF Step, Sound, UnlockTrue, Stays,
     Only
<1>7. Remembered'
  BY <1>1, StepFacts, PathTypes, Apart, FinalApart, NoCopy DEF Step, Sound, Accounted,
     Remembered, Exists, Moved, Stays, Only
<1>8. NoDataLoss'
  BY <1>1, StepFacts, PathTypes, Apart, FinalApart, NoCopy, LossInvariant, LossInvariantNext
     DEF Step, Sound, Somewhere, Copy, LockTrue, UnlockTrue, InVault, Moved, Stays, Only
<1> QED BY <1>2, <1>4, <1>5, <1>6, <1>7, <1>8 DEF Sound

(* Recovery deletes the original only of a lock whose vault is a copy of it. *)
LEMMA RDeleteStagedSound == Step /\ RDeleteStaged => Sound'
<1> SUFFICES ASSUME Step, RDeleteStaged PROVE Sound'
  OBVIOUS
<1>1. pc = "rDeleteStaged" /\ Lost(Staged(cur)) /\ journal' = journal /\ Stays("rCompleted")
  BY StepFacts, PathTypes, Apart DEF Step, TypeOK, Calm, Lost, Stays, Only, RDeleteStaged,
     RDelete, Gone, Go, Stuck, Skip, memory, env, Exists, Fault
<1>2. OneHot'
  BY <1>1, StepFacts DEF Step, Sound, OneHot, Cold, Pending, RecoverySteps, Stays
<1>3. ASSUME NEW o \in Ops, o = cur PROVE LockEntry(o)' /\ UnlockEntry(o)'
  BY <1>1, <1>3, StepFacts, PathTypes, Apart, FinalApart, NoCopy DEF Step, Sound, PhasesTrue,
     LockEntry, UnlockEntry, LockTrue, UnlockTrue, InVault, InItems, Exists, Lost, Only
<1>4. PhasesTrue'
  BY <1>1, <1>3, OtherEntries, StepFacts DEF Lost, Only
<1>5. LockTrue'
  BY <1>1, StepFacts, PathTypes, Apart, FinalApart, NoCopy DEF Step, Sound, LockTrue, InVault,
     RollbackSteps, Stays, Only
<1>6. UnlockTrue'
  BY <1>1, StepFacts, PathTypes, Apart, FinalApart, NoCopy DEF Step, Sound, UnlockTrue, Stays,
     Only
<1>7. Remembered'
  BY <1>1, StepFacts, PathTypes, Apart, FinalApart, NoCopy DEF Step, Sound, Accounted,
     Remembered, Exists, Lost, Stays, Only
<1>8. NoDataLoss'
  BY <1>1, StepFacts, PathTypes, Apart, FinalApart, NoCopy, LossInvariant, LossInvariantNext
     DEF Step, Sound, Somewhere, Copy, LockTrue, UnlockTrue, InVault, Exists, Lost, Stays, Only
<1> QED BY <1>2, <1>4, <1>5, <1>6, <1>7, <1>8 DEF Sound

(* Recovery of a cold lock moves the item back, to its name or a free variant. *)
LEMMA RUnstageSound == Step /\ RUnstage => Sound'
<1> SUFFICES ASSUME Step, RUnstage PROVE Sound'
  OBVIOUS
<1>1. /\ pc = "rUnstage" /\ journal' = journal
      /\ \/ (\E m \in Names : Moved(Staged(cur), Item(m))) /\ Stays("rDeletePartial")
         \/ fs' = fs /\ fs[Staged(cur)] = None /\ Stays("rDeletePartial")
         \/ fs' = fs /\ fs[Staged(cur)] # None /\ Turns
  BY StepFacts, PathTypes, Apart, NameAssumption DEF Step, TypeOK, Calm, Moved, Stays, Turns,
     Only, RUnstage, Exists, FreeNames, Rename, Go, Skip, memory, env, Fault
<1>2. OneHot'
  <2>1. CASE Stays("rDeletePartial")
    BY <1>1, <2>1, StepFacts DEF Step, Sound, OneHot, Cold, Pending, RecoverySteps, Stays
  <2>2. CASE fs[Staged(cur)] # None /\ Turns
    <3>1. Cold(cur)
      BY <1>1, <2>2, StepFacts DEF Step, Sound, LockTrue, Cold, Exists
    <3> QED BY <1>1, <2>2, <3>1 DEF Step, Sound, OneHot, Cold, Pending, RecoverySteps, Turns
  <2> QED BY <1>1, <2>1, <2>2
<1>4. PhasesTrue'
  <2>1. CASE fs' = fs
    BY <1>1, <2>1 DEF Step, Sound, PhasesTrue, LockEntry, UnlockEntry, InVault, InItems,
       Exists
  <2>2. ASSUME NEW m \in Names, Moved(Staged(cur), Item(m)) PROVE PhasesTrue'
    <3> SUFFICES ASSUME NEW o \in Ops PROVE LockEntry(o)' /\ UnlockEntry(o)'
      BY DEF PhasesTrue
    <3>1. LockEntry(o) /\ UnlockEntry(o)
      BY DEF Step, Sound, PhasesTrue
    <3>2. /\ fs'[Partial(o)] = fs[Partial(o)]
          /\ o = cur => fs'[Staged(o)] = None
          /\ o # cur => fs'[Staged(o)] = fs[Staged(o)]
          /\ \A n \in Names : fs'[Vault(n)] = fs[Vault(n)]
          /\ \A n \in Names : fs[Item(n)] # None => fs'[Item(n)] = fs[Item(n)]
      BY <2>2, StepFacts, PathTypes, Apart, FinalApart DEF Moved, Only
    <3>3. journal[o].kind # "none" => journal[o].vault \in Names
      BY DEF Step, TypeOK, JournalOK, Pending
    <3> QED BY <1>1, <3>1, <3>2, <3>3, NoCopy DEF LockEntry, UnlockEntry, InVault, InItems,
               Exists
  <2> QED BY <1>1, <2>1, <2>2
<1>5. LockTrue'
  BY <1>1, StepFacts, PathTypes, Apart, FinalApart, NoCopy DEF Step, Sound, LockTrue, InVault,
     Exists, RollbackSteps, Moved, Stays, Turns, Only
<1>6. UnlockTrue'
  BY <1>1, StepFacts, PathTypes, Apart, FinalApart, NoCopy DEF Step, Sound, UnlockTrue,
     InItems, Stays, Turns, Only
<1>7. Remembered'
  BY <1>1, StepFacts, PathTypes, Apart, FinalApart, NoCopy DEF Step, Sound, Accounted,
     Remembered, Exists, Busy, Moved, Stays, Turns, Only
<1>8. NoDataLoss'
  <2>1. CASE fs' = fs
    BY <1>1, <2>1, LossInvariant, LossInvariantNext DEF Step, Sound, Somewhere, Copy, Stays,
       Turns
  <2>2. ASSUME NEW m \in Names, Moved(Staged(cur), Item(m)) PROVE NoDataLoss'
    <3>1. SUFFICES ASSUME NEW d \in owned PROVE Somewhere(d)'
      BY <1>1, LossInvariantNext DEF Stays, Turns
    <3>2. Somewhere(d)
      BY LossInvariant DEF Step, Sound
    <3> QED BY <1>1, <2>2, <3>2, StepFacts, PathTypes, Apart, FinalApart, NoCopy DEF Moved,
               Only, Somewhere, Copy
  <2> QED BY <1>1, <2>1, <2>2
<1> QED BY <1>2, <1>4, <1>5, <1>6, <1>7, <1>8 DEF Sound

(* Recovery of a cold lock deletes the partial vault. *)
LEMMA RDeletePartialSound == Step /\ RDeletePartial => Sound'
<1> SUFFICES ASSUME Step, RDeletePartial PROVE Sound'
  OBVIOUS
<1>1. pc = "rDeletePartial" /\ Lost(Partial(cur)) /\ journal' = journal /\ Stays("rRolledBack")
  BY StepFacts, PathTypes, Apart DEF Step, TypeOK, Calm, Lost, Stays, Only, RDeletePartial,
     RDelete, Gone, Go, Stuck, Skip, memory, env, Exists, Fault
<1>2. OneHot'
  BY <1>1, StepFacts DEF Step, Sound, OneHot, Cold, Pending, RecoverySteps, Stays
<1>3. ASSUME NEW o \in Ops, o = cur PROVE LockEntry(o)' /\ UnlockEntry(o)'
  BY <1>1, <1>3, StepFacts, PathTypes, Apart, FinalApart, NoCopy DEF Step, Sound, PhasesTrue,
     LockEntry, UnlockEntry, LockTrue, UnlockTrue, InVault, InItems, Exists, Lost, Only
<1>4. PhasesTrue'
  BY <1>1, <1>3, OtherEntries, StepFacts DEF Lost, Only
<1>5. LockTrue'
  BY <1>1, StepFacts, PathTypes, Apart, FinalApart, NoCopy DEF Step, Sound, LockTrue, InVault,
     RollbackSteps, Stays, Only
<1>6. UnlockTrue'
  BY <1>1, StepFacts, PathTypes, Apart, FinalApart, NoCopy DEF Step, Sound, UnlockTrue, Stays,
     Only
<1>7. Remembered'
  BY <1>1, StepFacts, PathTypes, Apart, FinalApart, NoCopy DEF Step, Sound, Accounted,
     Remembered, Exists, Lost, Stays, Only
<1>8. NoDataLoss'
  BY <1>1, QuietLoss, StepFacts, PathTypes, Apart, FinalApart, NoCopy DEF Step, Accounted,
     Lost, Stays, Only
<1> QED BY <1>2, <1>4, <1>5, <1>6, <1>7, <1>8 DEF Sound

(* Recovery of a hot unlock deletes the vault: the item is a copy of it. *)
LEMMA RDeleteVaultSound == Step /\ RDeleteVault => Sound'
<1> SUFFICES ASSUME Step, RDeleteVault PROVE Sound'
  OBVIOUS
<1>1. pc = "rDeleteVault" /\ Lost(Vault(vault)) /\ journal' = journal /\ Stays("rDeleteWork")
  BY StepFacts, PathTypes, Apart DEF Step, TypeOK, Calm, Lost, Stays, Only, RDeleteVault,
     RDelete, Gone, Go, Stuck, Skip, memory, env, Exists, Fault
<1>2. OneHot'
  BY <1>1, StepFacts DEF Step, Sound, OneHot, Cold, Pending, Stays
<1>3. ASSUME NEW o \in Ops, o = cur PROVE LockEntry(o)' /\ UnlockEntry(o)'
  BY <1>1, <1>3, StepFacts, PathTypes, Apart, FinalApart, NoCopy DEF Step, Sound, PhasesTrue,
     LockEntry, UnlockEntry, LockTrue, UnlockTrue, InVault, InItems, Exists, Lost, Only
<1>4. PhasesTrue'
  <2>1. ~Cold(cur)
    BY <1>1, StepFacts DEF Cold
  <2> QED BY <1>1, <1>3, <2>1, ColdEntries
<1>5. LockTrue'
  BY <1>1, StepFacts, PathTypes, Apart, FinalApart, NoCopy DEF Step, Sound, LockTrue, InVault,
     RollbackSteps, Stays, Only
<1>6. UnlockTrue'
  BY <1>1, StepFacts, PathTypes, Apart, FinalApart, NoCopy DEF Step, Sound, UnlockTrue, Stays,
     Only
<1>7. Remembered'
  BY <1>1, StepFacts, PathTypes, Apart, FinalApart, NoCopy DEF Step, Sound, Accounted,
     Remembered, Exists, Lost, Stays, Only
<1>8. NoDataLoss'
  BY <1>1, StepFacts, PathTypes, Apart, FinalApart, NoCopy, LossInvariant, LossInvariantNext
     DEF Step, Sound, Somewhere, Copy, LockTrue, UnlockTrue, InVault, InItems, Exists, Lost,
     Stays, Only
<1> QED BY <1>2, <1>4, <1>5, <1>6, <1>7, <1>8 DEF Sound

(* Recovery of an unlock deletes its work folder. *)
LEMMA RDeleteWorkSound == Step /\ RDeleteWork => Sound'
<1> SUFFICES ASSUME Step, RDeleteWork PROVE Sound'
  OBVIOUS
<1>1. pc = "rDeleteWork" /\ Lost(Restoring(cur)) /\ journal' = journal /\ Stays("rCompleted")
  BY StepFacts, PathTypes, Apart DEF Step, TypeOK, Calm, Lost, Stays, Only, RDeleteWork,
     RDelete, Gone, Go, Stuck, Skip, memory, env, Exists, Fault
<1>2. OneHot'
  BY <1>1, StepFacts DEF Step, Sound, OneHot, Cold, Pending, Stays
<1>3. ASSUME NEW o \in Ops, o = cur PROVE LockEntry(o)' /\ UnlockEntry(o)'
  BY <1>1, <1>3, StepFacts, PathTypes, Apart, FinalApart, NoCopy DEF Step, Sound, PhasesTrue,
     LockEntry, UnlockEntry, LockTrue, UnlockTrue, InVault, InItems, Exists, Lost, Stays, Only
<1>4. PhasesTrue'
  BY <1>1, <1>3, OtherEntries, StepFacts DEF Lost, Only
<1>5. LockTrue'
  BY <1>1, StepFacts, PathTypes, Apart, FinalApart, NoCopy DEF Step, Sound, LockTrue, InVault,
     RollbackSteps, Stays, Only
<1>6. UnlockTrue'
  BY <1>1, StepFacts, PathTypes, Apart, FinalApart, NoCopy DEF Step, Sound, UnlockTrue, Stays,
     Only
<1>7. Remembered'
  BY <1>1, StepFacts, PathTypes, Apart, FinalApart, NoCopy DEF Step, Sound, Accounted,
     Remembered, Exists, Lost, Stays, Only
<1>8. NoDataLoss'
  BY <1>1, QuietLoss, StepFacts, PathTypes, Apart, FinalApart, NoCopy DEF Step, Accounted,
     Lost, Stays, Only
<1> QED BY <1>2, <1>4, <1>5, <1>6, <1>7, <1>8 DEF Sound

(* Recovery of a cold unlock deletes its work folder. *)
LEMMA RAbortSound == Step /\ RAbort => Sound'
<1> SUFFICES ASSUME Step, RAbort PROVE Sound'
  OBVIOUS
<1>1. pc = "rAbort" /\ Lost(Restoring(cur)) /\ journal' = journal /\ Stays("rRolledBack")
  BY StepFacts, PathTypes, Apart DEF Step, TypeOK, Calm, Lost, Stays, Only, RAbort, RDelete,
     Gone, Go, Stuck, Skip, memory, env, Exists, Fault
<1>2. OneHot'
  BY <1>1, StepFacts DEF Step, Sound, OneHot, Cold, Pending, Stays
<1>3. ASSUME NEW o \in Ops, o = cur PROVE LockEntry(o)' /\ UnlockEntry(o)'
  BY <1>1, <1>3, StepFacts, PathTypes, Apart, FinalApart, NoCopy DEF Step, Sound, PhasesTrue,
     LockEntry, UnlockEntry, LockTrue, UnlockTrue, InVault, InItems, Exists, RollbackSteps, Lost,
     Only
<1>4. PhasesTrue'
  BY <1>1, <1>3, OtherEntries, StepFacts DEF Lost, Only
<1>5. LockTrue'
  BY <1>1, StepFacts, PathTypes, Apart, FinalApart, NoCopy DEF Step, Sound, LockTrue, InVault,
     RollbackSteps, Stays, Only
<1>6. UnlockTrue'
  BY <1>1, StepFacts, PathTypes, Apart, FinalApart, NoCopy DEF Step, Sound, UnlockTrue, Stays,
     Only
<1>7. Remembered'
  BY <1>1, StepFacts, PathTypes, Apart, FinalApart, NoCopy DEF Step, Sound, Accounted,
     Remembered, Exists, Lost, Stays, Only
<1>8. NoDataLoss'
  BY <1>1, QuietLoss, StepFacts, PathTypes, Apart, FinalApart, NoCopy DEF Step, Accounted,
     Lost, Stays, Only
<1> QED BY <1>2, <1>4, <1>5, <1>6, <1>7, <1>8 DEF Sound

(* Recovery drops an entry it has resolved. *)
LEMMA RForgetSound == Step /\ RForget => Sound'
<1> SUFFICES ASSUME Step, RForget PROVE Sound'
  OBVIOUS
<1>1. pc \in {"rCompleted", "rRolledBack"} /\ fs' = fs /\ Dropped(cur) /\ Turns
  BY StepFacts, NoneEmpty DEF Step, TypeOK, JournalOK, Entry, Calm, Dropped, Turns, RForget,
     Forget, ForgetFails, Skip, NoEntry, env, Fault
<1>2. OneHot'
  BY <1>1, StepFacts DEF Step, Sound, OneHot, Cold, Pending, RecoverySteps, Turns, Dropped
<1>3. ASSUME NEW o \in Ops, o = cur PROVE LockEntry(o)' /\ UnlockEntry(o)'
  BY <1>1, <1>3, StepFacts DEF Step, Sound, PhasesTrue, LockEntry, UnlockEntry, LockTrue,
     UnlockTrue, InVault, InItems, Dropped, Only
<1>4. PhasesTrue'
  BY <1>1, <1>3, OtherEntries, StepFacts DEF Dropped, Only
<1>5. LockTrue'
  BY <1>1, StepFacts DEF Step, Sound, LockTrue, InVault, RollbackSteps, Turns, Only
<1>6. UnlockTrue'
  BY <1>1, StepFacts DEF Step, Sound, UnlockTrue, Turns, Only
<1>7. Remembered'
  BY <1>1, StepFacts DEF Step, Sound, Accounted, Remembered, Exists, Busy, Turns, Only
<1>8. NoDataLoss'
  BY <1>1, QuietLoss, StepFacts DEF Step, Accounted, Empty, AtEmptyStaged, Dropped, Turns,
     Only
<1> QED BY <1>2, <1>4, <1>5, <1>6, <1>7, <1>8 DEF Sound

-----------------------------------------------------------------------------
(* The other steps. *)

(* A step that leaves the disk, the journal and the data alone. *)
LEMMA SameDisk ==
    ASSUME Sound, UNCHANGED <<fs, journal, owned>>
    PROVE  PhasesTrue' /\ NoDataLoss'
<1>1. PhasesTrue'
  BY DEF Sound, PhasesTrue, LockEntry, UnlockEntry, InVault, InItems, Exists
<1>2. NoDataLoss'
  BY DEF Sound, NoDataLoss, Kept
<1> QED BY <1>1, <1>2

(* A stop leaves the entry of the operation that ran as the one that is hot. *)
LEMMA StopSound == ASSUME TypeOK, Sound, Crash \/ Quit PROVE Sound'
<1>1. pc' = "down" /\ clean' = TRUE /\ UNCHANGED <<fs, journal, owned, next>>
  BY DEF Crash, Quit, Stop, Cleared, env
<1>2. OneHot'
  BY <1>1 DEF Sound, OneHot, Pending, Cold, RecoverySteps
<1>3. LockTrue' /\ UnlockTrue'
  BY <1>1 DEF LockTrue, UnlockTrue, RollbackSteps
<1>4. Remembered'
  BY <1>1, PcSets DEF Sound, Remembered, Exists
<1> QED BY <1>1, <1>2, <1>3, <1>4, SameDisk DEF Sound

(* A start goes through all entries there are, the hot one among them. *)
LEMMA StartSound == ASSUME TypeOK, Sound, Start PROVE Sound'
<1>1. /\ pc = "down" /\ pc' = "pick" /\ todo' = Pending
      /\ UNCHANGED <<fs, journal, owned, next, clean>>
  BY DEF Start, env, memory
<1>2. OneHot'
  BY <1>1 DEF Sound, OneHot, Pending, Cold, RecoverySteps
<1>3. LockTrue' /\ UnlockTrue'
  BY <1>1 DEF Sound, LockTrue, UnlockTrue, RollbackSteps
<1>4. Remembered'
  BY <1>1, PcSets DEF Sound, Remembered, Exists
<1> QED BY <1>1, <1>2, <1>3, <1>4, SameDisk DEF Sound

(* When recovery is through, no entry is hot. *)
LEMMA RecoveredSound == ASSUME TypeOK, Sound, Recovered PROVE Sound'
<1>1. /\ pc = "pick" /\ pc' = "idle" /\ todo = {} /\ cur' = cur /\ clean' = clean
      /\ UNCHANGED <<fs, journal, owned, next>>
  BY DEF Recovered, env, memory
<1>2. OneHot'
  BY <1>1 DEF Sound, OneHot, Pending, Cold, RecoverySteps
<1>3. LockTrue' /\ UnlockTrue'
  BY <1>1 DEF Sound, LockTrue, UnlockTrue, RollbackSteps
<1>4. Remembered'
  BY <1>1, PcSets DEF Sound, Remembered, Exists
<1> QED BY <1>1, <1>2, <1>3, <1>4, SameDisk DEF Sound

(* Recovery turns to an entry: what it decides from the disk agrees with what  *)
(* the entry's phase says of it.                                               *)
LEMMA PickSound == ASSUME TypeOK, Sound, Pick PROVE Sound'
<1>1. PICK o \in todo :
        /\ cur' = o /\ item' = journal[o].item /\ vault' = journal[o].vault /\ todo' = todo \ {o}
        /\ pc' = IF journal[o].kind = "lock"
                 THEN IF VaultReady(o) THEN "rPlace" ELSE "rUnstage"
                 ELSE IF RestoreReady(o) THEN "rDeleteVault" ELSE "rAbort"
  BY DEF Pick
<1>2. /\ pc = "pick" /\ cur = 0 /\ clean' = clean /\ UNCHANGED <<fs, journal, owned, next>>
      /\ o \in Ops /\ o \in Pending /\ cur # o
  BY PcSets, BoundAssumption DEF Pick, env, TypeOK, MemoryOK, Pending, Ops
<1>3. OneHot'
  <2>1. \A q \in Pending : Cold(q) \/ q \in todo
    BY <1>2, BoundAssumption DEF Sound, OneHot, Pending, Ops
  <2>2. Pending' = Pending /\ \A q : Cold(q)' <=> Cold(q)
    BY <1>2 DEF Pending, Cold
  <2>3. pc' \in RecoverySteps
    BY <1>1 DEF RecoverySteps
  <2> QED BY <1>1, <2>1, <2>2, <2>3 DEF Sound, OneHot, RecoverySteps
<1>4. LockTrue'
  <2>1. pc' = "rPlace" => journal'[cur'].phase # "started"
    BY <1>1, <1>2 DEF VaultReady
  <2>2. pc' = "rUnstage" => journal'[cur'].phase = "started" \/ fs'[Staged(cur')] = None
    <3>1. CASE pc' = "rUnstage" /\ journal[o].phase # "started"
      <4>1. ~VaultReady(o) /\ journal[o].kind = "lock"
        BY <1>1, <3>1
      <4>2. journal[o].phase = "verified"
        BY <1>2, <3>1, <4>1 DEF VaultReady, TypeOK, JournalOK, Entry, Phases
      <4>3. ~Exists(Vault(journal[o].vault)) /\ ~Exists(Partial(o))
        BY <4>1, <4>2 DEF VaultReady
      <4>4. journal[o].vault \in Names /\ Staged(o) \in Paths
        BY <1>2, PathTypes DEF TypeOK, JournalOK
      <4>5. ~Exists(Staged(o))
        BY <1>2, <4>1, <4>2, <4>3, <4>4, NoCopy DEF Sound, PhasesTrue, LockEntry, InVault,
           Exists
      <4> QED BY <1>1, <1>2, <4>5 DEF Exists
    <3> QED BY <1>1, <1>2, <3>1
  <2>3. pc' \in {"rPlace", "rUnstage", "rDeleteVault", "rAbort"}
    BY <1>1
  <2> QED BY <2>1, <2>2, <2>3 DEF LockTrue, RollbackSteps, Exists
<1>5. UnlockTrue'
  <2>1. pc' = "rDeleteVault" =>
          UnlockEntry(o) /\ journal[o].kind = "unlock" /\ journal[o].phase = "committed"
    BY <1>1, <1>2 DEF RestoreReady, Sound, PhasesTrue, TypeOK, JournalOK, Entry, Pending
  <2>2. pc' \in {"rPlace", "rUnstage", "rDeleteVault", "rAbort"}
    BY <1>1
  <2> QED BY <1>1, <1>2, <2>1, <2>2 DEF Sound, UnlockTrue, UnlockEntry, InItems, Exists
<1>6. Remembered'
  BY <1>1, <1>2 DEF Sound, Remembered, Exists
<1> QED BY <1>2, <1>3, <1>4, <1>5, <1>6, SameDisk DEF Sound

(* A new operation begins while all entries are cold, under a new id. *)
LEMMA RequestSound == ASSUME TypeOK, Accounted, Sound, Request PROVE Sound'
<1>1. PICK n \in Names, v \in Names : StartLock(n, v) \/ StartUnlock(n, v)
  BY DEF Request
<1>2. /\ pc = "idle" /\ next \in Ops /\ next' = next + 1 /\ cur' = next /\ clean' = clean
      /\ vault' = v /\ UNCHANGED <<fs, todo, owned>> /\ pc' \in {"stage", "restore"}
      /\ pc' = "stage" => v \in FreeVaults(n)
  BY <1>1 DEF StartLock, StartUnlock, env
<1>3. /\ journal'[next].kind \in {"lock", "unlock"} /\ journal'[next].phase = "started"
      /\ journal'[next].vault = v
      /\ \A o \in Ops \ {next} : journal'[o] = journal[o]
  BY <1>1, <1>2 DEF StartLock, StartUnlock, Save, TypeOK, JournalOK
<1>4. \A o \in Ops : (next + 1 <= o => next <= o /\ o # next)
  BY <1>2 DEF Ops
<1>5. journal[next].kind = "none" /\ cur = 0
  BY <1>2, PcSets, BoundAssumption DEF Accounted, TypeOK, MemoryOK
<1>6. OneHot'
  <2>1. \A q \in Pending : Cold(q)
    BY <1>2, <1>5, BoundAssumption DEF Sound, OneHot, RecoverySteps, Pending, Ops
  <2>2. Pending' = Pending \cup {next}
    BY <1>2, <1>3 DEF Pending
  <2>3. \A q \in Pending' \ {next} : Cold(q)'
    BY <1>3, <2>1 DEF Pending, Cold
  <2>4. pc' \notin RecoverySteps
    BY <1>2 DEF RecoverySteps
  <2> QED BY <1>2, <2>3 DEF OneHot, Cold
<1>7. PhasesTrue'
  BY <1>2, <1>3 DEF Sound, PhasesTrue, LockEntry, UnlockEntry, InVault, InItems, Exists
<1>8. LockTrue'
  <2>1. ~Exists(Partial(next))
    BY <1>2 DEF Sound, Remembered, Ops
  <2>2. v \in FreeVaults(n) => ~Exists(Vault(v))
    BY DEF FreeVaults
  <2> QED BY <1>2, <1>3, <2>1, <2>2 DEF LockTrue, Exists
<1>9. UnlockTrue'
  BY <1>2 DEF Sound, UnlockTrue
<1>10. Remembered'
  BY <1>2, <1>3, <1>4 DEF Sound, Remembered, Exists
<1>11. NoDataLoss'
  <2>1. \A o \in Ops : journal[o].kind = "lock" => journal'[o].kind = "lock"
    BY <1>3, <1>5
  <2> QED BY <1>2, <2>1, LossInvariant, LossInvariantNext DEF Sound, Somewhere, Copy
<1> QED BY <1>6, <1>7, <1>8, <1>9, <1>10, <1>11 DEF Sound

(* Deleting one child of a folder leaves its data, and a copy that is not whole. *)
LEMMA TornEffect ==
    ASSUME TypeOK, NEW p \in Paths, Tear(p)
    PROVE  Torn(p)
BY NoCopy DEF Tear, Torn, Only, TypeOK, None

(* A deletion in the middle does no more harm than the whole deletion: what it *)
(* tears is not the copy that counts.                                          *)
LEMMA DeleteChildSound == ASSUME TypeOK, Accounted, Sound, DeleteChild PROVE Sound'
<1>1. /\ pc' = pc /\ cur' = cur /\ vault' = vault /\ clean' = clean /\ todo' = todo
      /\ UNCHANGED <<journal, next, owned>>
  BY DEF DeleteChild, memory, env
<1>2. cur \in Ops /\ vault \in Names /\ pc \in Busy
  BY BusyTypes, WorkingBusy
<1>3. OneHot'
  BY <1>1 DEF Sound, OneHot, Cold, Pending
<1>4. CASE pc \in {"deleteStaged", "rDeleteStaged"} /\ Torn(Staged(cur))
  <2>1. /\ fs'[Staged(cur)] # None /\ fs[Staged(cur)] # None
        /\ fs'[Staged(cur)].data = fs[Staged(cur)].data /\ ~fs'[Staged(cur)].whole
        /\ \A o \in Ops : /\ o # cur => fs'[Staged(o)] = fs[Staged(o)]
                          /\ fs'[Partial(o)] = fs[Partial(o)]
                          /\ fs'[Restoring(o)] = fs[Restoring(o)]
        /\ \A n \in Names : fs'[Item(n)] = fs[Item(n)] /\ fs'[Vault(n)] = fs[Vault(n)]
    BY <1>2, <1>4, PathTypes, Apart DEF Torn, Only
  <2>2. PhasesTrue'
    <3> SUFFICES ASSUME NEW o \in Ops PROVE LockEntry(o)' /\ UnlockEntry(o)'
      BY DEF PhasesTrue
    <3>1. LockEntry(o) /\ UnlockEntry(o)
      BY DEF Sound, PhasesTrue
    <3>2. journal[o].kind # "none" => journal[o].vault \in Names
      BY DEF TypeOK, JournalOK, Pending
    <3> QED BY <1>1, <2>1, <3>1, <3>2 DEF LockEntry, UnlockEntry, InVault, InItems, Exists
  <2>3. LockTrue'
    BY <1>1, <1>2, <1>4, <2>1 DEF Sound, LockTrue, InVault, Exists
  <2>4. UnlockTrue'
    BY <1>1, <1>4, <2>1 DEF Sound, UnlockTrue
  <2>5. Remembered'
    BY <1>1, <2>1 DEF Sound, Remembered, Exists
  <2>6. NoDataLoss'
    <3> SUFFICES ASSUME NEW d \in owned PROVE Somewhere(d)'
      BY <1>1, LossInvariantNext
    <3>1. Somewhere(d) /\ InVault(Staged(cur), vault)
      BY <1>4, <2>1, LossInvariant DEF Sound, LockTrue, Exists
    <3> QED BY <1>1, <1>2, <2>1, <3>1 DEF InVault, Somewhere, Copy
  <2> QED BY <1>3, <2>2, <2>3, <2>4, <2>5, <2>6 DEF Sound
<1>5. CASE pc \in {"backPartial", "rDeletePartial"} /\ Torn(Partial(cur))
  <2>1. /\ fs'[Partial(cur)] # None /\ fs[Partial(cur)] # None
        /\ \A o \in Ops : /\ o # cur => fs'[Partial(o)] = fs[Partial(o)]
                          /\ fs'[Staged(o)] = fs[Staged(o)] /\ fs'[Restoring(o)] = fs[Restoring(o)]
        /\ \A n \in Names : fs'[Item(n)] = fs[Item(n)] /\ fs'[Vault(n)] = fs[Vault(n)]
    BY <1>2, <1>5, PathTypes, Apart DEF Torn, Only
  <2>2. PhasesTrue'
    <3> SUFFICES ASSUME NEW o \in Ops PROVE LockEntry(o)' /\ UnlockEntry(o)'
      BY DEF PhasesTrue
    <3>1. LockEntry(o) /\ UnlockEntry(o)
      BY DEF Sound, PhasesTrue
    <3>2. journal[o].kind # "none" => journal[o].vault \in Names
      BY DEF TypeOK, JournalOK, Pending
    <3>3. o = cur => journal[o].phase = "started" \/ ~Exists(Staged(o))
      BY <1>5 DEF Sound, LockTrue, RollbackSteps
    <3> QED BY <1>1, <2>1, <3>1, <3>2, <3>3 DEF LockEntry, UnlockEntry, InVault, InItems,
               Exists
  <2>3. LockTrue'
    BY <1>1, <1>2, <1>5, <2>1 DEF Sound, LockTrue, Exists
  <2>4. UnlockTrue'
    BY <1>1, <1>5, <2>1 DEF Sound, UnlockTrue
  <2>5. Remembered'
    BY <1>1, <2>1 DEF Sound, Remembered, Exists
  <2>6. NoDataLoss'
    BY <1>1, <2>1, LossInvariant, LossInvariantNext DEF Sound, Somewhere, Copy
  <2> QED BY <1>3, <2>2, <2>3, <2>4, <2>5, <2>6 DEF Sound
<1>6. CASE pc \in {"deleteVault", "rDeleteVault"} /\ Torn(Vault(vault))
  <2>1. /\ fs'[Vault(vault)] # None /\ fs[Vault(vault)] # None
        /\ fs'[Vault(vault)].data = fs[Vault(vault)].data /\ ~fs'[Vault(vault)].whole
        /\ \A o \in Ops : /\ fs'[Partial(o)] = fs[Partial(o)] /\ fs'[Staged(o)] = fs[Staged(o)]
                          /\ fs'[Restoring(o)] = fs[Restoring(o)]
        /\ \A n \in Names : /\ fs'[Item(n)] = fs[Item(n)]
                            /\ n # vault => fs'[Vault(n)] = fs[Vault(n)]
    BY <1>6, PathTypes, Apart, FinalApart DEF Torn, Only
  <2>2. journal[cur].kind = "unlock" /\ cur \in Pending
    BY <1>2, <1>6, BusyTypes DEF TypeOK, MemoryOK, UnlockSteps, UnlockEnds
  <2>3. PhasesTrue'
    <3> SUFFICES ASSUME NEW o \in Ops PROVE LockEntry(o)' /\ UnlockEntry(o)'
      BY DEF PhasesTrue
    <3>1. LockEntry(o) /\ UnlockEntry(o)
      BY DEF Sound, PhasesTrue
    <3>2. journal[o].kind # "none" => journal[o].vault \in Names
      BY DEF TypeOK, JournalOK, Pending
    <3>3. ~(journal[o].kind = "lock" /\ journal[o].phase # "started")
      BY <2>2 DEF Sound, OneHot, Cold, Pending
    <3> QED BY <1>1, <2>1, <3>1, <3>2, <3>3 DEF LockEntry, UnlockEntry, InItems, Exists
  <2>4. LockTrue'
    BY <1>1, <1>6 DEF LockTrue, RollbackSteps
  <2>5. UnlockTrue'
    BY <1>1, <1>6, <2>1 DEF Sound, UnlockTrue, InItems, Exists
  <2>6. Remembered'
    BY <1>1, <2>1 DEF Sound, Remembered, Exists
  <2>7. NoDataLoss'
    <3> SUFFICES ASSUME NEW d \in owned PROVE Somewhere(d)'
      BY <1>1, LossInvariantNext
    <3>1. Somewhere(d) /\ InItems(vault)
      BY <1>6, <2>1, LossInvariant DEF Sound, UnlockTrue, Exists
    <3> QED BY <1>1, <2>1, <3>1 DEF InItems, Somewhere, Copy
  <2> QED BY <1>3, <2>3, <2>4, <2>5, <2>6, <2>7 DEF Sound
<1>7. CASE pc \in {"abort", "deleteWork", "rDeleteWork", "rAbort"} /\ Torn(Restoring(cur))
  <2>1. /\ \A o \in Ops : fs'[Partial(o)] = fs[Partial(o)] /\ fs'[Staged(o)] = fs[Staged(o)]
        /\ \A n \in Names : fs'[Item(n)] = fs[Item(n)] /\ fs'[Vault(n)] = fs[Vault(n)]
    BY <1>2, <1>7, PathTypes, Apart DEF Torn, Only
  <2>2. PhasesTrue'
    <3> SUFFICES ASSUME NEW o \in Ops PROVE LockEntry(o)' /\ UnlockEntry(o)'
      BY DEF PhasesTrue
    <3>1. LockEntry(o) /\ UnlockEntry(o)
      BY DEF Sound, PhasesTrue
    <3>2. journal[o].kind # "none" => journal[o].vault \in Names
      BY DEF TypeOK, JournalOK, Pending
    <3> QED BY <1>1, <2>1, <3>1, <3>2 DEF LockEntry, UnlockEntry, InVault, InItems, Exists
  <2>3. LockTrue'
    BY <1>1, <1>7 DEF LockTrue, RollbackSteps
  <2>4. UnlockTrue'
    BY <1>1, <1>2, <1>7, <2>1 DEF Sound, UnlockTrue, InItems, Exists
  <2>5. Remembered'
    BY <1>1, <2>1 DEF Sound, Remembered, Exists
  <2>6. NoDataLoss'
    BY <1>1, <2>1, LossInvariant, LossInvariantNext DEF Sound, Somewhere, Copy
  <2> QED BY <1>3, <2>2, <2>3, <2>4, <2>5, <2>6 DEF Sound
<1> QED
  <2>1. Tear(Deleting) /\ pc \in {"deleteStaged", "rDeleteStaged", "backPartial",
            "rDeletePartial", "deleteVault", "rDeleteVault", "abort", "deleteWork",
            "rDeleteWork", "rAbort"}
    BY DEF DeleteChild
  <2> QED BY <1>2, <1>4, <1>5, <1>6, <1>7, <2>1, PathTypes, TornEffect DEF Deleting

(* Others: under Calm, the user creates an item or gives one another name. *)
LEMMA OthersEffect ==
    ASSUME TypeOK, Calm, Others
    PROVE  /\ \A o \in Ops : fs'[Partial(o)] = fs[Partial(o)] /\ fs'[Staged(o)] = fs[Staged(o)]
                             /\ fs'[Restoring(o)] = fs[Restoring(o)]
           /\ \A n \in Names : fs'[Vault(n)] = fs[Vault(n)]
           /\ \A n \in Names : fs[Item(n)].whole =>
                 \E m \in Names : fs'[Item(m)].whole /\ fs'[Item(m)].data = fs[Item(n)].data
           /\ \A d \in owned' \ owned :
                 \E n \in Names : fs'[Item(n)].whole /\ fs'[Item(n)].data = d
<1>1. ASSUME NEW d \in Data, NEW n \in Names, CreateItem(d, n)
      PROVE  /\ fs[Item(n)] = None /\ fs' = [fs EXCEPT ![Item(n)] = Plain(d)]
             /\ owned' = owned \cup {d}
  BY <1>1 DEF CreateItem, Create, Exists
<1>2. ASSUME NEW n \in Names, NEW m \in Names, MoveItem(n, m)
      PROVE  /\ fs[Item(n)] # None /\ fs[Item(m)] = None /\ owned' = owned
             /\ fs' = [fs EXCEPT ![Item(n)] = None, ![Item(m)] = fs[Item(n)]]
  BY <1>2 DEF MoveItem, Move, Exists
<1>3. \/ \E d \in Data, n \in Names : CreateItem(d, n)
      \/ \E n, m \in Names : MoveItem(n, m)
  BY DEF Others, Calm, CreateVault, Edit, MoveVault, Act
<1>4. CASE \E d \in Data, n \in Names : CreateItem(d, n)
  <2>1. PICK d \in Data, n \in Names : CreateItem(d, n)
    BY <1>4
  <2>2. Plain(d).whole /\ Plain(d).data = d
    BY DEF Plain
  <2> QED BY <1>1, <2>1, <2>2, PathTypes, Apart, FinalApart, NoCopy DEF TypeOK
<1>5. CASE \E n, m \in Names : MoveItem(n, m)
  <2>1. PICK n \in Names, m \in Names : MoveItem(n, m)
    BY <1>5
  <2>2. /\ fs[Item(m)] = None /\ fs'[Item(m)] = fs[Item(n)] /\ owned' = owned
        /\ \A p \in Paths \ {Item(n), Item(m)} : fs'[p] = fs[p]
    BY <1>2, <2>1, PathTypes DEF TypeOK
  <2> QED BY <2>1, <2>2, PathTypes, Apart, FinalApart, NoCopy
<1> QED BY <1>3, <1>4, <1>5

(* What users create and rename stays a copy under an item's name. *)
LEMMA OthersSound == ASSUME TypeOK, Accounted, Sound, Calm, Others PROVE Sound'
<1>1. UNCHANGED <<journal, pc, cur, vault, clean, todo, next, scanned>>
  BY DEF Others, memory
<1>2. pc \in Busy => cur \in Ops /\ vault \in Names
  BY BusyTypes
<1>3. OneHot'
  BY <1>1 DEF Sound, OneHot, Cold, Pending
<1>4. PhasesTrue'
  <2> SUFFICES ASSUME NEW o \in Ops PROVE LockEntry(o)' /\ UnlockEntry(o)'
    BY DEF PhasesTrue
  <2>1. LockEntry(o) /\ UnlockEntry(o)
    BY DEF Sound, PhasesTrue
  <2>2. journal[o].kind # "none" => journal[o].vault \in Names
    BY DEF TypeOK, JournalOK, Pending
  <2>3. LockEntry(o)'
    BY <1>1, <2>1, <2>2, OthersEffect DEF LockEntry, InVault, Exists
  <2>4. UnlockEntry(o)'
    BY <1>1, <2>1, <2>2, OthersEffect DEF UnlockEntry, InItems, Exists
  <2> QED BY <2>3, <2>4
<1>5. LockTrue'
  BY <1>1, <1>2, OthersEffect DEF Sound, LockTrue, InVault, RollbackSteps, Exists, Source,
     FromScan, Busy, PcValues, LockSteps, RecoverySteps
<1>6. UnlockTrue'
  BY <1>1, <1>2, OthersEffect DEF Sound, UnlockTrue, InItems, Exists, Busy, PcValues,
     UnlockSteps, RecoverySteps
<1>7. Remembered'
  BY <1>1, OthersEffect DEF Sound, Remembered, Exists
<1>8. NoDataLoss'
  BY <1>1, OthersEffect, LossInvariant, LossInvariantNext DEF Sound, Somewhere, Copy
<1> QED BY <1>3, <1>4, <1>5, <1>6, <1>7, <1>8 DEF Sound

(* At first every piece of data there is lies whole under its item's name. *)
LEMMA InitSound == Init => Sound
<1> SUFFICES ASSUME Init PROVE Sound
  OBVIOUS
<1>1. PICK at \in [Data -> Names \cup {NoName}] :
         /\ \A d, e \in Data : at[d] = at[e] /\ at[d] # NoName => d = e
         /\ owned = {d \in Data : at[d] # NoName}
         /\ fs = [p \in Paths |->
                    IF p[1] = "item" /\ \E d \in Data : at[d] = p[2]
                    THEN Plain(CHOOSE d \in Data : at[d] = p[2])
                    ELSE None]
  BY DEF Init
<1>2. /\ \A o \in Ops : journal[o].kind = "none"
      /\ \A o \in Ops : fs[Partial(o)] = None
      /\ pc = "idle" /\ clean
  BY PathTypes DEF Init, NoEntry, Partial
<1>3. OneHot /\ PhasesTrue /\ LockTrue /\ UnlockTrue /\ Remembered
  BY <1>2, PcSets DEF OneHot, PhasesTrue, LockEntry, UnlockEntry, LockTrue, UnlockTrue,
     Remembered, Pending, RollbackSteps, Exists, RecoverySteps
<1>4. NoDataLoss
  <2> SUFFICES ASSUME NEW d \in owned PROVE Somewhere(d)
    BY LossInvariant
  <2>1. d \in Data /\ at[d] \in Names
    BY <1>1
  <2>2. (CHOOSE e \in Data : at[e] = at[d]) = d
    BY <1>1
  <2>3. Item(at[d]) \in Paths /\ Item(at[d])[1] = "item" /\ Item(at[d])[2] = at[d]
    BY <2>1, PathTypes DEF Item
  <2>4. fs[Item(at[d])] = Plain(d)
    BY <1>1, <2>3
  <2> QED BY <2>1, <2>4 DEF Plain, Somewhere, Copy
<1> QED BY <1>3, <1>4 DEF Sound

(* What the three theorems below follow from: every step keeps what the proof *)
(* knows of the disk, the journal and the memory.                             *)
LEMMA SoundAlways == ASSUME Calm PROVE Spec => [](TypeOK /\ Accounted /\ Sound)
<1>1. Init => TypeOK /\ Accounted /\ Sound
  BY InitTypes, AccountedInit, InitSound
<1>2. TypeOK /\ Accounted /\ Sound /\ [Next]_vars => Accounted' /\ Sound'
  <2> SUFFICES ASSUME TypeOK, Accounted, Sound, [Next]_vars PROVE Accounted' /\ Sound'
    OBVIOUS
  <2>1. "delete" \notin Faults
    BY DEF Calm
  <2>2. CASE UNCHANGED vars
    <3>1. Accounted'
      BY <2>2 DEF Accounted, Empty, vars
    <3>2. OneHot' /\ LockTrue' /\ UnlockTrue' /\ Remembered'
      BY <2>2 DEF vars, Sound, OneHot, LockTrue, UnlockTrue, Remembered, Cold, Pending,
         InVault, InItems, Source, FromScan, Exists
    <3> QED BY <2>2, <3>1, <3>2, SameDisk DEF vars, Sound
  <2>3. CASE Working
    <3>1. Step
      BY <2>3 DEF Step
    <3>2. Accounted'
      BY <2>1, <2>3, AccountedWorking
    <3> QED BY <2>3, <3>1, <3>2, StageSound, StageFailsSound, WritePartSound, WriteAllSound,
               SaveVerifiedSound, PlaceSound, LockFailsSound, SaveCommittedSound,
               DeleteStagedSound, ForgetLockSound, BackPartialSound, BackItemSound,
               BackForgetSound, RestorePartSound, RestoreAllSound, PutBackSound,
               UnlockFailsSound, AbortUnlockSound, AbortForgetSound, SaveRestoredSound,
               DeleteWorkSound, DeleteVaultSound, ForgetUnlockSound, RPlaceSound,
               RDeleteStagedSound, RUnstageSound, RDeletePartialSound, RDeleteVaultSound,
               RDeleteWorkSound, RAbortSound, RForgetSound DEF Working, Running
  <2>4. CASE Request \/ DeleteChild \/ Start \/ Recovered \/ Pick \/ Crash \/ Quit \/ Others
    BY <2>4, AccountedOther, RequestSound, DeleteChildSound, StartSound, RecoveredSound,
       PickSound, StopSound, OthersSound
  <2> QED BY <2>2, <2>3, <2>4 DEF Next, Recovery, Working
<1> QED BY <1>1, <1>2, TypeCorrect, PTL DEF Spec

(* All of the user's data has a whole copy under an item or vault name, or where *)
(* a lock with a journal entry put it: whatever the app, a crash at any step, a *)
(* write that fails, a journal that cannot be saved and users who create and   *)
(* rename items do, for any number of them, for files and for vault folders.   *)
(* Locks and unlocks delete the original and the vault (LockOperation.run,     *)
(* UnlockOperation.run, DriveOperations, JournalRecovery) only then.           *)
THEOREM NothingLost == ASSUME Calm PROVE Spec => []NoDataLoss
<1>1. Sound => NoDataLoss
  BY DEF Sound
<1> QED BY <1>1, SoundAlways, PTL

(* The original goes last: whenever a lock, or the recovery of one, deletes the *)
(* staged original (LockOperation.run and DriveOperations.lock after the vault  *)
(* is in place, JournalRecovery), a complete vault with the same data already   *)
(* has the name the user will open, whatever failed or crashed before and       *)
(* whatever the users did meanwhile.                                            *)
THEOREM OriginalLast == ASSUME Calm PROVE Spec => []OriginalDeletedLast
<1>1. Sound => OriginalDeletedLast
  BY DEF Sound, LockTrue, InVault, OriginalDeletedLast
<1> QED BY <1>1, SoundAlways, PTL

(* The vault goes last: whenever an unlock, an export, or the recovery of one,  *)
(* deletes the vault (UnlockOperation.run, DriveOperations.export,              *)
(* JournalRecovery), all that it holds is back, complete, under the name of an  *)
(* item: also when the phase could not be saved, and when the user renamed the  *)
(* restored item before the deletion began.                                     *)
THEOREM VaultLast == ASSUME Calm PROVE Spec => []VaultDeletedLast
<1>1. Sound => VaultDeletedLast
  BY DEF Sound, UnlockTrue, InItems, VaultDeletedLast
<1> QED BY <1>1, SoundAlways, PTL
=============================================================================
