------------------------- MODULE VaultJournalProofs -------------------------
(***************************************************************************)
(* Proofs about VaultJournal, for every value of its constants: its type   *)
(* invariant, and that no decrypted file is left where nobody looks.       *)
(***************************************************************************)
EXTENDS VaultJournal, TLAPS

(* The steps of locks, of unlocks, and of either. *)
LockPcs   == LockSteps \cup RollbackSteps \cup LockEnds
UnlockPcs == UnlockSteps \cup UnlockEnds

(* The contents the actions put on the disk, and the empty entry, are well typed. *)
LEMMA ContentTypes ==
    /\ None \in Content /\ EmptyDir \in Content
    /\ \A d \in Data : Plain(d) \in Content /\ Sealed(d) \in Content
    /\ NoEntry \in Entry
BY DataAssumption, NameAssumption, ChoiceAssumption
   DEF None, EmptyDir, Plain, Sealed, Content, Forms, NoEntry, Entry, Phases

(* The paths of names and of operations are paths of the disk. *)
LEMMA PathTypes ==
    /\ \A n \in Names : Item(n) \in Paths /\ Vault(n) \in Paths
    /\ \A o \in Ops : Staged(o) \in Paths /\ Partial(o) \in Paths /\ Restoring(o) \in Paths
BY DEF Paths, Item, Vault, Staged, Partial, Restoring

(* How the steps are divided. *)
LEMMA PcSets ==
    /\ LockPcs \cup UnlockPcs \cup {"rCompleted", "rRolledBack"} = Busy
    /\ Busy \subseteq PcValues /\ "pick" \notin Busy /\ "idle" \notin Busy /\ "down" \notin Busy
    /\ RecoverySteps = LockEnds \cup UnlockEnds \cup {"pick", "rCompleted", "rRolledBack"}
    /\ (LockSteps \cup RollbackSteps \cup UnlockSteps) \cap RecoverySteps = {}
BY DEF LockPcs, UnlockPcs, Busy, PcValues, LockSteps, RollbackSteps, UnlockSteps, RecoverySteps,
       LockEnds, UnlockEnds

(* While an operation or its recovery is at work, its memory is well typed. *)
LEMMA BusyTypes ==
    ASSUME TypeOK, pc \in Busy
    PROVE  /\ cur \in Ops /\ cur \in Pending /\ item \in Names /\ vault \in Names
           /\ Item(item) \in Paths /\ Vault(vault) \in Paths
           /\ Staged(cur) \in Paths /\ Partial(cur) \in Paths /\ Restoring(cur) \in Paths
           /\ journal[cur] \in Entry
BY PathTypes DEF TypeOK, MemoryOK, JournalOK, Pending

(* A rename keeps the disk well typed. *)
LEMMA RenameType ==
    ASSUME fs \in [Paths -> Content], NEW p \in Paths, NEW q \in Paths, Rename(p, q)
    PROVE  fs' \in [Paths -> Content] /\ faults' = faults
BY ContentTypes DEF Rename

(* So does a finished deletion ... *)
LEMMA GoneType ==
    ASSUME fs \in [Paths -> Content], NEW p \in Paths, Gone(p)
    PROVE  fs' \in [Paths -> Content] /\ faults' = faults
BY ContentTypes DEF Gone

(* ... one that has begun ... *)
LEMMA TearType ==
    ASSUME fs \in [Paths -> Content], NEW p \in Paths, Tear(p)
    PROVE  fs' \in [Paths -> Content]
BY DEF Tear, Content

(* ... and writing all of something. *)
LEMMA WholeType ==
    ASSUME fs \in [Paths -> Content], NEW p \in Paths, NEW b \in BOOLEAN,
           fs' = [fs EXCEPT ![p].whole = b]
    PROVE  fs' \in [Paths -> Content]
BY DEF Content

(* A failure keeps within the bound. *)
LEMMA FaultType ==
    ASSUME faults \in 0..MaxFaults, NEW kind, Fault(kind)
    PROVE  faults' \in 0..MaxFaults
BY BoundAssumption DEF Fault

(* A saved entry. *)
LEMMA SaveType ==
    ASSUME JournalOK, NEW o \in Ops, NEW e \in Entry, Save(o, e),
           e.kind # "none", e.item \in Names, e.vault \in Names,
           e.kind = "unlock" => e.phase # "verified"
    PROVE  /\ JournalOK' /\ Pending' = Pending \cup {o} /\ faults' = faults
           /\ journal'[o] = e /\ \A q \in Ops \ {o} : journal'[q] = journal[q]
BY DEF JournalOK, Save, Pending

(* A removed entry. *)
LEMMA ForgetType ==
    ASSUME JournalOK, NEW o \in Ops, journal' = [journal EXCEPT ![o] = NoEntry]
    PROVE  /\ JournalOK' /\ Pending' = Pending \ {o}
           /\ \A q \in Ops \ {o} : journal'[q] = journal[q]
BY ContentTypes DEF JournalOK, Pending, NoEntry

(* An entry saved again, with another phase. *)
LEMMA PhaseType ==
    ASSUME JournalOK, NEW o \in Pending, NEW e \in Entry, e.kind = journal[o].kind,
           e.item \in Names, e.vault \in Names, e.kind = "unlock" => e.phase # "verified",
           journal' = [journal EXCEPT ![o] = e]
    PROVE  JournalOK' /\ Pending' = Pending /\ journal'[o].kind = journal[o].kind
<1>1. /\ journal' \in [Ops -> Entry] /\ journal'[o] = e
      /\ \A q \in Ops \ {o} : journal'[q] = journal[q]
  BY DEF JournalOK, Pending
<1> QED BY <1>1 DEF JournalOK, Pending

(* An entry left alone. *)
LEMMA SameJournal ==
    ASSUME JournalOK, UNCHANGED journal
    PROVE  JournalOK' /\ Pending' = Pending
BY DEF JournalOK, Pending

(* The operation goes on with a step of its kind. *)
LEMMA GoMemory ==
    ASSUME TypeOK, NEW s \in Busy, Go(s), pc \in Busy, JournalOK',
           Pending \subseteq Pending', journal'[cur].kind = journal[cur].kind,
           s \in RecoverySteps <=> pc \in RecoverySteps,
           s \in LockPcs => pc \in LockPcs, s \in UnlockPcs => pc \in UnlockPcs
    PROVE  MemoryOK'
<1>1. pc' = s /\ UNCHANGED <<cur, item, vault, scanned, clean, todo>>
  BY DEF Go, memory
<1> QED BY <1>1, PcSets DEF MemoryOK, TypeOK, LockPcs, UnlockPcs

(* The operation has ended. *)
LEMMA AnswerMemory ==
    ASSUME TypeOK, NEW r, Answer(r), pc \notin RecoverySteps
    PROVE  MemoryOK'
<1>1. pc' = "idle" /\ cur' = 0 /\ item' = NoName /\ vault' = NoName /\ scanned' = NoData
      /\ clean' = TRUE /\ todo' = todo
  BY DEF Answer, Cleared
<1>2. todo = {}
  BY DEF TypeOK, MemoryOK
<1>3. pc' \in PcValues /\ pc' \notin Busy /\ pc' \notin LockPcs /\ pc' \notin UnlockPcs
  BY <1>1, PcSets DEF PcValues
<1> QED BY <1>1, <1>2, <1>3 DEF MemoryOK, LockPcs, UnlockPcs

(* Recovery leaves an entry. *)
LEMMA SkipMemory ==
    ASSUME TypeOK, Skip, pc \in RecoverySteps, Pending \ {cur} \subseteq Pending'
    PROVE  MemoryOK'
<1>1. pc' = "pick" /\ cur' = 0 /\ item' = NoName /\ vault' = NoName
      /\ UNCHANGED <<scanned, clean, todo>>
  BY DEF Skip
<1>2. todo' \subseteq Pending' \ {cur'}
  BY <1>1 DEF TypeOK, MemoryOK, Pending, Ops
<1>3. pc' \in RecoverySteps /\ pc' \in PcValues /\ pc' \notin Busy
      /\ pc' \notin LockPcs /\ pc' \notin UnlockPcs
  BY <1>1, PcSets DEF PcValues, RecoverySteps
<1> QED BY <1>1, <1>2, <1>3 DEF MemoryOK, TypeOK, LockPcs, UnlockPcs

(* A crash or the end of the app. *)
LEMMA StopMemory ==
    ASSUME TypeOK, Stop
    PROVE  MemoryOK' /\ JournalOK' /\ fs' = fs /\ next' = next /\ reply' = "none" /\ UNCHANGED env
BY PcSets, SameJournal DEF Stop, Cleared, MemoryOK, TypeOK, LockPcs, UnlockPcs, PcValues, env

(* Steps that leave the journal and the memory alone. *)
LEMMA SameMemory ==
    ASSUME TypeOK, UNCHANGED <<journal, pc, memory, todo>>
    PROVE  JournalOK' /\ MemoryOK'
BY SameJournal DEF TypeOK, MemoryOK, memory

(* What an operation or the recovery of one does, an entry in hand. *)
Working ==
    Running \/ RPlace \/ RDeleteStaged \/ RUnstage \/ RDeletePartial \/ RDeleteVault
    \/ RDeleteWork \/ RAbort \/ RForget

(* Working steps happen while an operation is at work. *)
LEMMA WorkingBusy == Working \/ DeleteChild => pc \in Busy
<1>1. Running => pc \in LockSteps \cup RollbackSteps \cup UnlockSteps
  BY DEF Running, Stage, StageFails, WritePart, WriteAll, SaveVerified, Place, LockFails,
         SaveCommitted, DeleteStaged, ForgetLock, BackPartial, BackItem, BackForget,
         RestorePart, RestoreAll, PutBack, UnlockFails, AbortUnlock, AbortForget, SaveRestored,
         DeleteWork, DeleteVault, ForgetUnlock, LockSteps, RollbackSteps, UnlockSteps
<1>2. Working => Running \/ pc \in LockEnds \cup UnlockEnds \cup {"rCompleted", "rRolledBack"}
  BY DEF Working, RDelete, RPlace, RDeleteStaged, RUnstage, RDeletePartial, RDeleteVault,
         RDeleteWork, RAbort, RForget, LockEnds, UnlockEnds
<1>3. DeleteChild => pc \in Busy
  BY DEF DeleteChild, Busy, PcValues, LockSteps, RollbackSteps, UnlockSteps, RecoverySteps
<1> QED BY <1>1, <1>2, <1>3, PcSets DEF LockPcs, UnlockPcs

(* A working step keeps the disk well typed. *)
LEMMA WorkingDisk == TypeOK /\ Working => fs' \in [Paths -> Content] /\ faults' \in 0..MaxFaults
<1> SUFFICES ASSUME TypeOK, Working
             PROVE  fs' \in [Paths -> Content] /\ faults' \in 0..MaxFaults
  OBVIOUS
<1> USE BusyTypes, WorkingBusy DEF TypeOK
<1>1. CASE SaveVerified \/ SaveCommitted \/ ForgetLock \/ UnlockFails \/ AbortForget
           \/ SaveRestored \/ ForgetUnlock \/ BackForget \/ RForget \/ LockFails \/ StageFails
  BY <1>1, FaultType DEF SaveVerified, SaveCommitted, ForgetLock, UnlockFails, AbortForget,
         SaveRestored, ForgetUnlock, BackForget, RForget, Save, SaveFails, Forget, ForgetFails,
         LockFails, StageFails, RenameFails
<1>2. CASE Stage
  BY <1>2, RenameType, FaultType, PathTypes, NameAssumption DEF Stage
<1>3. CASE Place
  BY <1>3, RenameType, FaultType, PathTypes, NameAssumption DEF Place
<1>4. CASE BackItem
  BY <1>4, RenameType, FaultType, PathTypes, NameAssumption DEF BackItem
<1>5. CASE RPlace
  BY <1>5, RenameType, FaultType, PathTypes, NameAssumption DEF RPlace
<1>6. CASE RUnstage
  BY <1>6, RenameType, FaultType, PathTypes, NameAssumption DEF RUnstage, FreeNames
<1>7. CASE DeleteStaged \/ BackPartial \/ AbortUnlock \/ DeleteWork \/ DeleteVault
  BY <1>7, GoneType, FaultType DEF DeleteStaged, BackPartial, AbortUnlock, DeleteWork,
         DeleteVault, Stuck
<1>8. CASE RDeleteStaged \/ RDeletePartial \/ RDeleteVault \/ RDeleteWork \/ RAbort
  BY <1>8, GoneType, FaultType DEF RDeleteStaged, RDeletePartial, RDeleteVault, RDeleteWork,
         RAbort, RDelete, Stuck
<1>9. CASE WriteAll
  BY <1>9, WholeType DEF WriteAll
<1>10. CASE RestoreAll
  BY <1>10, WholeType DEF RestoreAll
<1>11. CASE WritePart
  BY <1>11, ContentTypes, ChoiceAssumption DEF WritePart, Content, Source, Forms, MemoryOK
<1>12. CASE RestorePart
  BY <1>12, ContentTypes DEF RestorePart, Content, Forms
<1>13. CASE PutBack
  <2>1. PICK m \in Names : fs' = [fs EXCEPT ![Item(m)] = Plain(fs[Restoring(cur)].data),
                 ![Restoring(cur)] = IF fs[Restoring(cur)].data \in Files THEN EmptyDir ELSE None]
    BY <1>13, NameAssumption DEF PutBack, FreeNames
  <2>2. Plain(fs[Restoring(cur)].data) \in Content
    BY DEF Content, Plain, Forms
  <2>3. faults' = faults
    BY <1>13 DEF PutBack
  <2> QED BY <2>1, <2>2, <2>3, ContentTypes, PathTypes
<1> QED BY <1>1, <1>2, <1>3, <1>4, <1>5, <1>6, <1>7, <1>8, <1>9, <1>10, <1>11, <1>12, <1>13
   DEF Working, Running

(* What happens to the journal in a step: nothing, an entry's phase is  *)
(* saved, or the entry is removed.                                      *)
LEMMA WorkingJournal ==
    TypeOK /\ Working =>
        /\ JournalOK' /\ Pending \ {cur} \subseteq Pending'
        /\ pc' \in Busy => Pending' = Pending /\ journal'[cur].kind = journal[cur].kind
<1> SUFFICES ASSUME TypeOK, Working
             PROVE  /\ JournalOK' /\ Pending \ {cur} \subseteq Pending'
                    /\ pc' \in Busy => Pending' = Pending /\ journal'[cur].kind = journal[cur].kind
  OBVIOUS
<1> USE BusyTypes, WorkingBusy DEF TypeOK
<1>1. CASE UNCHANGED journal
  BY <1>1, SameJournal
<1>2. CASE SaveVerified
  <2> DEFINE e == [journal[cur] EXCEPT !.phase = "verified"]
  <2>1. pc \in LockSteps /\ cur \in Pending
        /\ (journal' = [journal EXCEPT ![cur] = e] \/ UNCHANGED journal)
    BY <1>2 DEF SaveVerified, LockSteps, Save, SaveFails
  <2>2. journal[cur].kind = "lock"
    BY <2>1 DEF MemoryOK
  <2>3. journal[cur].item \in Names /\ journal[cur].vault \in Names
    BY <2>1 DEF JournalOK
  <2>4. e \in Entry /\ e.kind = "lock" /\ e.item \in Names /\ e.vault \in Names
        /\ (e.kind = "unlock" => e.phase # "verified")
    BY <2>2, <2>3 DEF Entry, Phases
  <2> HIDE DEF e
  <2> QED BY <2>1, <2>2, <2>4, PhaseType, SameJournal
<1>3. CASE SaveCommitted
  <2> DEFINE e == [journal[cur] EXCEPT !.phase = "committed"]
  <2>1. pc \in LockSteps /\ cur \in Pending
        /\ (journal' = [journal EXCEPT ![cur] = e] \/ UNCHANGED journal)
    BY <1>3 DEF SaveCommitted, LockSteps, Save, SaveFails
  <2>2. journal[cur].kind = "lock"
    BY <2>1 DEF MemoryOK
  <2>3. journal[cur].item \in Names /\ journal[cur].vault \in Names
    BY <2>1 DEF JournalOK
  <2>4. e \in Entry /\ e.kind = "lock" /\ e.item \in Names /\ e.vault \in Names
        /\ (e.kind = "unlock" => e.phase # "verified")
    BY <2>2, <2>3 DEF Entry, Phases
  <2> HIDE DEF e
  <2> QED BY <2>1, <2>2, <2>4, PhaseType, SameJournal
<1>4. CASE SaveRestored
  <2> DEFINE e == [journal[cur] EXCEPT !.phase = "committed", !.item = item]
  <2>1. pc \in UnlockSteps /\ cur \in Pending
        /\ (journal' = [journal EXCEPT ![cur] = e] \/ UNCHANGED journal)
    BY <1>4 DEF SaveRestored, UnlockSteps, Save, SaveFails
  <2>2. journal[cur].kind = "unlock"
    BY <2>1 DEF MemoryOK
  <2>3. journal[cur].item \in Names /\ journal[cur].vault \in Names
    BY <2>1 DEF JournalOK
  <2>4. e \in Entry /\ e.kind = "unlock" /\ e.item \in Names /\ e.vault \in Names
        /\ (e.kind = "unlock" => e.phase # "verified")
    BY <2>2, <2>3 DEF Entry, Phases
  <2> HIDE DEF e
  <2> QED BY <2>1, <2>2, <2>4, PhaseType, SameJournal
<1>5. CASE StageFails
  BY <1>5, ForgetType, SameJournal, PcSets DEF StageFails, Answer, Skip, Forget, ForgetFails
<1>6. CASE ForgetLock
  BY <1>6, ForgetType, SameJournal, PcSets DEF ForgetLock, Answer, Skip, Forget, ForgetFails
<1>7. CASE BackForget
  BY <1>7, ForgetType, SameJournal, PcSets DEF BackForget, Answer, Skip, Forget, ForgetFails
<1>8. CASE AbortForget
  BY <1>8, ForgetType, SameJournal, PcSets DEF AbortForget, Answer, Skip, Forget, ForgetFails
<1>9. CASE ForgetUnlock
  BY <1>9, ForgetType, SameJournal, PcSets DEF ForgetUnlock, Answer, Skip, Forget, ForgetFails
<1>10. CASE RForget
  BY <1>10, ForgetType, SameJournal, PcSets DEF RForget, Answer, Skip, Forget, ForgetFails
<1> QED BY <1>1, <1>2, <1>3, <1>4, <1>5, <1>6, <1>7, <1>8, <1>9, <1>10 DEF Working, Running,
       RDelete, Stage, WritePart, WriteAll, Place, LockFails, DeleteStaged, BackPartial,
       BackItem, RestorePart, RestoreAll, PutBack, UnlockFails, AbortUnlock, DeleteWork,
       DeleteVault, RPlace, RDeleteStaged, RUnstage, RDeletePartial, RDeleteVault, RDeleteWork,
       RAbort

(* A working step keeps the memory in accord with the journal. *)
LEMMA WorkingMemory == TypeOK /\ Working => MemoryOK'
<1> SUFFICES ASSUME TypeOK, Working PROVE MemoryOK'
  OBVIOUS
<1> USE BusyTypes, WorkingBusy, WorkingJournal
<1>a. ASSUME NEW s \in Busy, Go(s), s \in RecoverySteps <=> pc \in RecoverySteps,
             s \in LockPcs => pc \in LockPcs, s \in UnlockPcs => pc \in UnlockPcs
      PROVE  MemoryOK'
  BY <1>a, GoMemory DEF Go
<1>1. CASE Stage \/ WritePart \/ WriteAll \/ SaveVerified \/ Place \/ LockFails \/ SaveCommitted
           \/ BackPartial
  BY <1>1, <1>a, PcSets DEF LockPcs, UnlockPcs, LockSteps, RollbackSteps, UnlockSteps, LockEnds,
         UnlockEnds, RecoverySteps, Stage, WritePart, WriteAll, SaveVerified, Place, LockFails,
         SaveCommitted, BackPartial
<1>2. CASE RestorePart \/ RestoreAll \/ UnlockFails \/ SaveRestored
  BY <1>2, <1>a, PcSets DEF LockPcs, UnlockPcs, LockSteps, RollbackSteps, UnlockSteps, LockEnds,
         UnlockEnds, RecoverySteps, RestorePart, RestoreAll, UnlockFails, SaveRestored
<1>3. CASE StageFails \/ ForgetLock \/ BackForget
  BY <1>3, AnswerMemory, PcSets DEF LockPcs, UnlockPcs, LockSteps, RollbackSteps, UnlockSteps,
         LockEnds, UnlockEnds, RecoverySteps, StageFails, ForgetLock, BackForget
<1>4. CASE AbortForget \/ ForgetUnlock
  BY <1>4, AnswerMemory, PcSets DEF LockPcs, UnlockPcs, LockSteps, RollbackSteps, UnlockSteps,
         LockEnds, UnlockEnds, RecoverySteps, AbortForget, ForgetUnlock
<1>5. CASE DeleteStaged
  BY <1>5, <1>a, AnswerMemory, PcSets DEF LockPcs, UnlockPcs, LockSteps, RollbackSteps,
         UnlockSteps, LockEnds, UnlockEnds, RecoverySteps, DeleteStaged
<1>6. CASE BackItem
  BY <1>6, <1>a, AnswerMemory, PcSets DEF LockPcs, UnlockPcs, LockSteps, RollbackSteps,
         UnlockSteps, LockEnds, UnlockEnds, RecoverySteps, BackItem
<1>7. CASE AbortUnlock
  BY <1>7, <1>a, AnswerMemory, PcSets DEF LockPcs, UnlockPcs, LockSteps, RollbackSteps,
         UnlockSteps, LockEnds, UnlockEnds, RecoverySteps, AbortUnlock
<1>8. CASE DeleteVault
  BY <1>8, <1>a, AnswerMemory, PcSets DEF LockPcs, UnlockPcs, LockSteps, RollbackSteps,
         UnlockSteps, LockEnds, UnlockEnds, RecoverySteps, DeleteVault
<1>9. CASE PutBack
  BY <1>9, NameAssumption, PcSets DEF LockPcs, UnlockPcs, LockSteps, RollbackSteps, UnlockSteps,
         LockEnds, UnlockEnds, RecoverySteps, PutBack, MemoryOK, TypeOK, FreeNames
<1>10. CASE DeleteWork
  BY <1>10, NameAssumption, PcSets DEF LockPcs, UnlockPcs, LockSteps, RollbackSteps,
         UnlockSteps, LockEnds, UnlockEnds, RecoverySteps, DeleteWork, MemoryOK, TypeOK,
         FreeNames
<1>11. CASE RPlace \/ RDeleteStaged \/ RUnstage \/ RDeletePartial
  BY <1>11, <1>a, SkipMemory, PcSets DEF LockPcs, UnlockPcs, LockSteps, RollbackSteps,
         UnlockSteps, LockEnds, UnlockEnds, RecoverySteps, RPlace, RDeleteStaged, RUnstage,
         RDeletePartial, RDelete
<1>12. CASE RDeleteVault \/ RDeleteWork \/ RAbort
  BY <1>12, <1>a, SkipMemory, PcSets DEF LockPcs, UnlockPcs, LockSteps, RollbackSteps,
         UnlockSteps, LockEnds, UnlockEnds, RecoverySteps, RDeleteVault, RDeleteWork, RAbort,
         RDelete
<1>13. CASE RForget
  BY <1>13, SkipMemory, PcSets DEF LockPcs, UnlockPcs, LockSteps, RollbackSteps, UnlockSteps,
         LockEnds, UnlockEnds, RecoverySteps, RForget
<1> QED BY <1>1, <1>2, <1>3, <1>4, <1>5, <1>6, <1>7, <1>8, <1>9, <1>10, <1>11, <1>12, <1>13
   DEF Working, Running

(* What no working step touches. *)
LEMMA WorkingRest ==
    TypeOK /\ Working => next' = next /\ reply' \in {"none", "ok", "failed"} /\ UNCHANGED env
<1> SUFFICES ASSUME TypeOK, Working
             PROVE  next' = next /\ reply' \in {"none", "ok", "failed"} /\ UNCHANGED env
  OBVIOUS
<1>1. CASE Stage \/ StageFails \/ WritePart \/ WriteAll \/ SaveVerified \/ Place \/ LockFails
           \/ SaveCommitted \/ DeleteStaged \/ ForgetLock \/ BackPartial \/ BackItem
           \/ BackForget
  BY <1>1, WorkingBusy DEF TypeOK, Go, Answer, Skip, env, RDelete, Stage, StageFails, WritePart,
         WriteAll, SaveVerified, Place, LockFails, SaveCommitted, DeleteStaged, ForgetLock,
         BackPartial, BackItem, BackForget
<1>2. CASE RestorePart \/ RestoreAll \/ PutBack \/ UnlockFails \/ AbortUnlock \/ AbortForget
           \/ SaveRestored \/ DeleteWork \/ DeleteVault \/ ForgetUnlock
  BY <1>2, WorkingBusy DEF TypeOK, Go, Answer, Skip, env, RDelete, RestorePart, RestoreAll,
         PutBack, UnlockFails, AbortUnlock, AbortForget, SaveRestored, DeleteWork, DeleteVault,
         ForgetUnlock
<1>3. CASE RPlace \/ RDeleteStaged \/ RUnstage \/ RDeletePartial \/ RDeleteVault \/ RDeleteWork
           \/ RAbort \/ RForget
  BY <1>3, WorkingBusy DEF TypeOK, Go, Answer, Skip, env, RDelete, RPlace, RDeleteStaged,
         RUnstage, RDeletePartial, RDeleteVault, RDeleteWork, RAbort, RForget
<1> QED BY <1>1, <1>2, <1>3 DEF Working, Running

(* Working steps preserve the type invariant. *)
LEMMA WorkingTypes == TypeOK /\ Working => TypeOK'
BY WorkingDisk, WorkingJournal, WorkingMemory, WorkingRest DEF TypeOK, env

(* A new operation does. *)
LEMMA RequestTypes == TypeOK /\ Request => TypeOK'
<1> SUFFICES ASSUME TypeOK, NEW n \in Names, NEW v \in Names, StartLock(n, v) \/ StartUnlock(n, v)
             PROVE  TypeOK'
  BY DEF Request
<1> DEFINE e(k, m) == [kind |-> k, phase |-> "started", item |-> m, vault |-> v]
<1>1. PICK m \in Names, k \in {"lock", "unlock"} :
        /\ Save(next, e(k, m)) /\ item' = m /\ vault' = v /\ cur' = next
        /\ k = "lock" => pc' = "stage" /\ clean' = clean
                         /\ scanned' = fs[Item(n)].data
        /\ k = "unlock" => pc' = "restore" /\ UNCHANGED <<scanned, clean>>
  BY NameAssumption DEF StartLock, StartUnlock, FreeNames
<1>2. /\ pc = "idle" /\ next \in Ops /\ next' = next + 1 /\ reply' = "none"
      /\ UNCHANGED <<fs, todo, env>>
  BY DEF StartLock, StartUnlock
<1>3. e("lock", m) \in Entry /\ e("unlock", m) \in Entry
  BY DEF Entry, Phases
<1>4. JournalOK' /\ faults' = faults /\ Pending' = Pending \cup {next} /\ journal'[next] = e(k, m)
  BY <1>1, <1>2, <1>3, SaveType DEF TypeOK
<1>5. todo' = {} /\ todo = {}
  BY <1>2 DEF TypeOK, MemoryOK, RecoverySteps
<1>6. fs[Item(n)].data \in Data \cup {NoData}
  BY PathTypes DEF TypeOK, Content
<1>7. MemoryOK'
  <2>1. CASE k = "lock"
    BY <2>1, <1>1, <1>2, <1>4, <1>5, <1>6, PcSets
       DEF MemoryOK, TypeOK, LockPcs, UnlockPcs, LockSteps, RollbackSteps, UnlockSteps,
           LockEnds, UnlockEnds
  <2>2. CASE k = "unlock"
    BY <2>2, <1>1, <1>2, <1>4, <1>5, PcSets
       DEF MemoryOK, TypeOK, LockPcs, UnlockPcs, LockSteps, RollbackSteps, UnlockSteps,
           LockEnds, UnlockEnds
  <2> QED BY <2>1, <2>2
<1> QED BY <1>2, <1>4, <1>7, BoundAssumption DEF TypeOK, env, Ops

(* A deletion under way does. *)
LEMMA DeleteChildTypes == TypeOK /\ DeleteChild => TypeOK'
<1> SUFFICES ASSUME TypeOK, DeleteChild PROVE TypeOK'
  OBVIOUS
<1>1. Deleting \in Paths
  BY BusyTypes, WorkingBusy DEF Deleting
<1>2. fs' \in [Paths -> Content]
  BY <1>1, TearType DEF DeleteChild, TypeOK
<1> QED BY <1>2, SameMemory DEF DeleteChild, TypeOK, env

(* Starting, ending, crashing and turning to the next entry do. *)
LEMMA StartTypes == TypeOK /\ (Start \/ Recovered \/ Pick \/ Crash \/ Quit) => TypeOK'
<1> SUFFICES ASSUME TypeOK, Start \/ Recovered \/ Pick \/ Crash \/ Quit PROVE TypeOK'
  OBVIOUS
<1> USE PcSets DEF TypeOK
<1>1. CASE Crash \/ Quit
  BY <1>1, StopMemory, FaultType DEF Crash, Quit, Stop, env
<1>2. CASE Start \/ Recovered
  <2>1. JournalOK' /\ Pending' = Pending
    BY <1>2, SameJournal DEF Start, Recovered
  <2>2. pc' \notin Busy /\ pc' \notin LockPcs /\ pc' \notin UnlockPcs /\ pc' \in PcValues
    BY <1>2 DEF Start, Recovered, PcValues
  <2>3. cur' = 0 /\ cur = 0 /\ UNCHANGED <<item, vault, scanned, clean>>
    BY <1>2 DEF Start, Recovered, MemoryOK, memory
  <2>4. todo' \subseteq Pending' \ {cur'} /\ (pc' \notin RecoverySteps => todo' = {})
    BY <1>2, <2>1, <2>3 DEF Start, Recovered, Pending, Ops, RecoverySteps
  <2>5. MemoryOK'
    BY <2>2, <2>3, <2>4 DEF MemoryOK, LockPcs, UnlockPcs
  <2> QED BY <2>5, <1>2, <2>1 DEF Start, Recovered, env
<1>3. CASE Pick
  <2>1. JournalOK' /\ Pending' = Pending /\ journal' = journal
    BY <1>3, SameJournal DEF Pick
  <2>2. PICK o \in todo :
          /\ cur' = o /\ item' = journal[o].item /\ vault' = journal[o].vault /\ todo' = todo \ {o}
          /\ journal[o].kind = "lock" => pc' \in {"rPlace", "rUnstage"}
          /\ journal[o].kind # "lock" => pc' \in {"rDeleteVault", "rAbort"}
    BY <1>3 DEF Pick
  <2>3. o \in Pending /\ journal[o].kind \in {"lock", "unlock"}
        /\ journal[o].item \in Names /\ journal[o].vault \in Names
    BY <2>2 DEF MemoryOK, JournalOK, Pending, Entry
  <2>4. MemoryOK'
    BY <1>3, <2>1, <2>2, <2>3
       DEF Pick, MemoryOK, LockPcs, UnlockPcs, LockSteps, RollbackSteps, UnlockSteps, LockEnds,
           UnlockEnds, RecoverySteps, PcValues, Pending
  <2> QED BY <1>3, <2>1, <2>4 DEF Pick, env
<1> QED BY <1>1, <1>2, <1>3

(* The user and other programs do. *)
LEMMA OthersTypes == TypeOK /\ Others => TypeOK'
<1> SUFFICES ASSUME TypeOK, Others PROVE TypeOK'
  OBVIOUS
<1> USE PathTypes, ContentTypes DEF TypeOK, Act
<1>1. fs' \in [Paths -> Content]
  <2>1. ASSUME NEW d \in Data, NEW n \in Names, CreateItem(d, n) \/ CreateVault(d, n)
        PROVE  fs' \in [Paths -> Content]
    BY <2>1 DEF CreateItem, CreateVault, Create
  <2>2. ASSUME NEW e \in Data, NEW n \in Names, Edit(n, e) PROVE fs' \in [Paths -> Content]
    BY <2>2 DEF Edit, Content
  <2>3. ASSUME NEW n \in Names, NEW m \in Names, MoveItem(n, m) \/ MoveVault(n, m)
        PROVE  fs' \in [Paths -> Content]
    BY <2>3 DEF MoveItem, MoveVault, Move
  <2> QED BY <2>1, <2>2, <2>3 DEF Others
<1>2. acts' \in 0..MaxActs
  <2>1. acts < MaxActs /\ acts' = acts + 1
    BY DEF Others, CreateItem, CreateVault, Edit, MoveItem, MoveVault
  <2> QED BY <2>1, BoundAssumption
<1>3. owned' \subseteq Data
  BY DEF Others, CreateItem, CreateVault, Edit, MoveItem, MoveVault, Create, Move
<1> QED BY <1>1, <1>2, <1>3, SameMemory DEF Others

(* The initial states are well typed. *)
LEMMA InitTypes == Init => TypeOK
<1> SUFFICES ASSUME Init PROVE TypeOK
  OBVIOUS
<1>1. fs \in [Paths -> Content]
  <2>1. PICK at \in [Data -> Names \cup {NoName}] :
          fs = [p \in Paths |->
                    IF p[1] = "item" /\ \E d \in Data : at[d] = p[2]
                    THEN Plain(CHOOSE d \in Data : at[d] = p[2])
                    ELSE None]
    BY DEF Init
  <2>2. \A p \in Paths : (\E d \in Data : at[d] = p[2])
                          => Plain(CHOOSE d \in Data : at[d] = p[2]) \in Content
    BY ContentTypes
  <2> QED BY <2>1, <2>2, ContentTypes
<1>2. JournalOK
  BY ContentTypes DEF Init, JournalOK, Pending, NoEntry
<1>3. MemoryOK
  BY PcSets DEF Init, MemoryOK, PcValues, LockPcs, UnlockPcs, RecoverySteps
<1> QED BY <1>1, <1>2, <1>3, BoundAssumption DEF TypeOK, Init

(* The type invariant holds in every instance, whatever fails and whoever *)
(* changes the folder.                                                    *)
THEOREM TypeCorrect == Spec => []TypeOK
<1>1. Init => TypeOK
  BY InitTypes
<1>2. TypeOK /\ [Next]_vars => TypeOK'
  <2>1. TypeOK /\ UNCHANGED vars => TypeOK'
    BY SameMemory DEF TypeOK, vars, memory
  <2>2. Next => \/ Request \/ Working \/ DeleteChild
                \/ Start \/ Recovered \/ Pick \/ Crash \/ Quit \/ Others
    BY DEF Next, Recovery, Working
  <2> QED BY <2>1, <2>2, RequestTypes, WorkingTypes, DeleteChildTypes, StartTypes, OthersTypes
<1> QED BY <1>1, <1>2, PTL DEF Spec

(* Nothing but data under an entry's name: the strengthening of             *)
(* NoStrayPlaintext.  Only a lock's entry has a staged item, only an         *)
(* unlock's a work folder with data; an id not given out yet has no entry;   *)
(* and an entry about to be removed has neither.                             *)
Empty(p) == fs[p].data = NoData

AtEmptyStaged    == {"stage", "forget", "rDeletePartial", "rCompleted", "rRolledBack"}
AtEmptyRestoring == {"restored", "deleteWork", "deleteVault", "closeUnlock", "abortForget",
                     "rCompleted", "rRolledBack"}

Accounted ==
    /\ \A o \in Ops : /\ journal[o].kind # "lock" => Empty(Staged(o))
                      /\ journal[o].kind # "unlock" => Empty(Restoring(o))
                      /\ next <= o => journal[o].kind = "none"
    /\ pc \in AtEmptyStaged => Empty(Staged(cur))
    /\ pc \in AtEmptyRestoring => Empty(Restoring(cur))

(* Temporary names collide with no other name. *)
LEMMA Apart ==
    ASSUME NEW o \in Ops, NEW q \in Ops, NEW n
    PROVE  /\ Staged(o) # Item(n) /\ Staged(o) # Vault(n) /\ Staged(o) # Partial(q)
           /\ Staged(o) # Restoring(q) /\ Partial(o) # Restoring(q)
           /\ Restoring(o) # Item(n) /\ Restoring(o) # Vault(n)
           /\ Partial(o) # Item(n) /\ Partial(o) # Vault(n)
           /\ o # q => /\ Staged(o) # Staged(q) /\ Partial(o) # Partial(q)
                       /\ Restoring(o) # Restoring(q)
BY DEF Staged, Restoring, Partial, Item, Vault

(* Nothing, and an empty folder, hold no data. *)
LEMMA NoneEmpty == None.data = NoData /\ EmptyDir.data = NoData /\ NoEntry.kind = "none"
BY DEF None, EmptyDir, NoEntry

(* Every working step keeps the temporary names accounted for. *)
LEMMA AccountedWorking ==
    TypeOK /\ Accounted /\ (Style = "flk" \/ "delete" \notin Faults) /\ Working => Accounted'
<1> SUFFICES ASSUME TypeOK, Accounted, Style = "flk" \/ "delete" \notin Faults, Working
             PROVE  Accounted'
  OBVIOUS
<1> USE BusyTypes, WorkingBusy, WorkingRest, Apart, NoneEmpty, PathTypes DEF Accounted, Empty,
       AtEmptyStaged, AtEmptyRestoring
<1>k. /\ pc \in LockSteps \cup RollbackSteps \cup LockEnds => journal[cur].kind = "lock"
      /\ pc \in UnlockSteps \cup UnlockEnds => journal[cur].kind = "unlock"
  BY DEF TypeOK, MemoryOK
<1>1. CASE Stage
  BY <1>1, <1>k, NameAssumption DEF Stage, Rename, Go, Exists, memory, TypeOK, JournalOK,
         LockSteps, RollbackSteps, UnlockSteps, LockEnds, UnlockEnds
<1>2. CASE StageFails
  BY <1>2, <1>k, NameAssumption DEF StageFails, RenameFails, Answer, Exists, Cleared, TypeOK,
         JournalOK, LockSteps, RollbackSteps, UnlockSteps, LockEnds, UnlockEnds
<1>3. CASE WritePart
  BY <1>3, <1>k, NameAssumption DEF WritePart, Exists, Go, memory, TypeOK, JournalOK, LockSteps,
         RollbackSteps, UnlockSteps, LockEnds, UnlockEnds
<1>4. CASE WriteAll
  BY <1>4, <1>k, NameAssumption DEF WriteAll, Exists, Go, memory, TypeOK, JournalOK, LockSteps,
         RollbackSteps, UnlockSteps, LockEnds, UnlockEnds
<1>5. CASE SaveVerified
  BY <1>5, <1>k, NameAssumption DEF SaveVerified, Save, Go, memory, TypeOK, JournalOK,
         LockSteps, RollbackSteps, UnlockSteps, LockEnds, UnlockEnds
<1>6. CASE Place
  BY <1>6, <1>k, NameAssumption DEF Place, Rename, Go, Exists, memory, TypeOK, JournalOK,
         LockSteps, RollbackSteps, UnlockSteps, LockEnds, UnlockEnds
<1>7. CASE LockFails
  BY <1>7, <1>k, NameAssumption DEF LockFails, RenameFails, Go, Exists, memory, TypeOK,
         JournalOK, LockSteps, RollbackSteps, UnlockSteps, LockEnds, UnlockEnds
<1>8. CASE SaveCommitted
  <2>1. \A o \in Ops : journal'[o].kind = journal[o].kind
    BY <1>8 DEF SaveCommitted, Save, SaveFails, TypeOK, JournalOK, Entry
  <2> QED BY <1>8, <2>1, <1>k DEF SaveCommitted, Go, memory
<1>9. CASE DeleteStaged
  BY <1>9, <1>k, NameAssumption DEF DeleteStaged, Gone, Go, Stuck, Answer, memory, Exists,
         Cleared, TypeOK, JournalOK, LockSteps, RollbackSteps, UnlockSteps, LockEnds, UnlockEnds
<1>10. CASE ForgetLock
  BY <1>10, <1>k, NameAssumption DEF ForgetLock, Forget, Answer, ForgetFails, Cleared, TypeOK,
         JournalOK, LockSteps, RollbackSteps, UnlockSteps, LockEnds, UnlockEnds
<1>11. CASE BackPartial
  BY <1>11, <1>k, NameAssumption DEF BackPartial, Gone, Stuck, Go, Exists, memory, TypeOK,
         JournalOK, LockSteps, RollbackSteps, UnlockSteps, LockEnds, UnlockEnds
<1>12. CASE BackItem
  BY <1>12, <1>k, NameAssumption DEF BackItem, Exists, Rename, Go, Answer, memory, Cleared,
         TypeOK, JournalOK, LockSteps, RollbackSteps, UnlockSteps, LockEnds, UnlockEnds
<1>13. CASE BackForget
  BY <1>13, <1>k, NameAssumption DEF BackForget, Exists, Forget, ForgetFails, Answer, Cleared,
         TypeOK, JournalOK, LockSteps, RollbackSteps, UnlockSteps, LockEnds, UnlockEnds
<1>14. CASE RestorePart
  BY <1>14, <1>k, NameAssumption DEF RestorePart, Exists, Go, memory, TypeOK, JournalOK,
         LockSteps, RollbackSteps, UnlockSteps, LockEnds, UnlockEnds
<1>15. CASE RestoreAll
  BY <1>15, <1>k, NameAssumption DEF RestoreAll, Go, Exists, memory, TypeOK, JournalOK,
         LockSteps, RollbackSteps, UnlockSteps, LockEnds, UnlockEnds
<1>16. CASE PutBack
  BY <1>16, <1>k, NameAssumption DEF PutBack, Exists, TypeOK, JournalOK, LockSteps,
         RollbackSteps, UnlockSteps, LockEnds, UnlockEnds
<1>17. CASE UnlockFails
  BY <1>17, <1>k, NameAssumption DEF UnlockFails, Exists, Go, memory, TypeOK, JournalOK,
         LockSteps, RollbackSteps, UnlockSteps, LockEnds, UnlockEnds
<1>18. CASE AbortUnlock
  BY <1>18, <1>k, NameAssumption DEF AbortUnlock, Gone, Go, Stuck, Answer, memory, Exists,
         Cleared, Fault, TypeOK, JournalOK, LockSteps, RollbackSteps, UnlockSteps, LockEnds,
         UnlockEnds
<1>19. CASE AbortForget
  BY <1>19, <1>k, NameAssumption DEF AbortForget, Forget, ForgetFails, Answer, Cleared, TypeOK,
         JournalOK, LockSteps, RollbackSteps, UnlockSteps, LockEnds, UnlockEnds
<1>20. CASE SaveRestored
  BY <1>20, <1>k, NameAssumption DEF SaveRestored, Save, SaveFails, Go, memory, TypeOK,
         JournalOK, LockSteps, RollbackSteps, UnlockSteps, LockEnds, UnlockEnds
<1>21. CASE DeleteWork
  BY <1>21, <1>k, NameAssumption DEF DeleteWork, Gone, Stuck, Exists, TypeOK, JournalOK,
         LockSteps, RollbackSteps, UnlockSteps, LockEnds, UnlockEnds
<1>22. CASE DeleteVault
  BY <1>22, <1>k, NameAssumption DEF DeleteVault, Gone, Go, Answer, Stuck, memory, Cleared,
         Exists, TypeOK, JournalOK, LockSteps, RollbackSteps, UnlockSteps, LockEnds, UnlockEnds
<1>23. CASE ForgetUnlock
  BY <1>23, <1>k, NameAssumption DEF ForgetUnlock, Forget, Answer, ForgetFails, Cleared, TypeOK,
         JournalOK, LockSteps, RollbackSteps, UnlockSteps, LockEnds, UnlockEnds
<1>24. CASE RPlace
  BY <1>24, <1>k, NameAssumption DEF RPlace, Exists, Rename, Go, Skip, memory, TypeOK,
         JournalOK, LockSteps, RollbackSteps, UnlockSteps, LockEnds, UnlockEnds
<1>25. CASE RDeleteStaged
  BY <1>25, <1>k, NameAssumption DEF RDeleteStaged, RDelete, Gone, Go, Stuck, Skip, memory,
         Exists, TypeOK, JournalOK, LockSteps, RollbackSteps, UnlockSteps, LockEnds, UnlockEnds
<1>26. CASE RUnstage
  BY <1>26, <1>k, NameAssumption DEF RUnstage, Exists, Rename, Go, Skip, memory, TypeOK,
         JournalOK, LockSteps, RollbackSteps, UnlockSteps, LockEnds, UnlockEnds
<1>27. CASE RDeletePartial
  BY <1>27, <1>k, NameAssumption DEF RDeletePartial, RDelete, Gone, Go, Stuck, Skip, memory,
         Exists, TypeOK, JournalOK, LockSteps, RollbackSteps, UnlockSteps, LockEnds, UnlockEnds
<1>28. CASE RDeleteVault
  BY <1>28, <1>k, NameAssumption DEF RDeleteVault, RDelete, Gone, Go, Stuck, Skip, memory,
         Exists, TypeOK, JournalOK, LockSteps, RollbackSteps, UnlockSteps, LockEnds, UnlockEnds
<1>29. CASE RDeleteWork
  BY <1>29, <1>k, NameAssumption DEF RDeleteWork, RDelete, Gone, Go, Stuck, Skip, memory,
         Exists, TypeOK, JournalOK, LockSteps, RollbackSteps, UnlockSteps, LockEnds, UnlockEnds
<1>30. CASE RAbort
  BY <1>30, <1>k, NameAssumption DEF RAbort, RDelete, Gone, Go, Stuck, Skip, memory, Exists,
         TypeOK, JournalOK, LockSteps, RollbackSteps, UnlockSteps, LockEnds, UnlockEnds
<1>31. CASE RForget
  BY <1>31, <1>k, NameAssumption DEF RForget, Forget, ForgetFails, Skip, TypeOK, JournalOK,
         LockSteps, RollbackSteps, UnlockSteps, LockEnds, UnlockEnds
<1> QED BY <1>1, <1>2, <1>3, <1>4, <1>5, <1>6, <1>7, <1>8, <1>9, <1>10, <1>11, <1>12, <1>13,
   <1>14, <1>15, <1>16, <1>17, <1>18, <1>19, <1>20, <1>21, <1>22, <1>23, <1>24, <1>25, <1>26,
   <1>27, <1>28, <1>29, <1>30, <1>31 DEF Working, Running

(* So does a new operation: its id is new. *)
LEMMA AccountedRequest == TypeOK /\ Accounted /\ Request => Accounted'
<1> SUFFICES ASSUME TypeOK, Accounted, Request PROVE Accounted'
  OBVIOUS
<1>1. PICK n \in Names, v \in Names : StartLock(n, v) \/ StartUnlock(n, v)
  BY DEF Request
<1>2. next \in Ops /\ next' = next + 1 /\ fs' = fs /\ cur' = next /\ pc' \in {"stage", "restore"}
  BY <1>1 DEF StartLock, StartUnlock
<1>3. /\ journal'[next].kind \in {"lock", "unlock"}
      /\ \A o \in Ops \ {next} : journal'[o] = journal[o]
  BY <1>1, <1>2 DEF StartLock, StartUnlock, Save, TypeOK, JournalOK
<1>4. \A o \in Ops : (next + 1 <= o => next <= o /\ o # next)
  BY <1>2 DEF Ops
<1>5. next <= next /\ journal[next].kind = "none" /\ cur' \in Ops
  BY <1>2, BoundAssumption DEF Ops, Accounted
<1>6. \A o \in Ops : /\ journal'[o].kind # "lock" => fs'[Staged(o)].data = NoData
                     /\ journal'[o].kind # "unlock" => fs'[Restoring(o)].data = NoData
                     /\ next' <= o => journal'[o].kind = "none"
  BY <1>2, <1>3, <1>4, <1>5 DEF Accounted, Empty
<1>7. fs'[Staged(cur')].data = NoData
  BY <1>2, <1>5 DEF Accounted, Empty
<1> QED BY <1>2, <1>6, <1>7 DEF Accounted, Empty, AtEmptyStaged, AtEmptyRestoring

(* So does everything else. *)
LEMMA AccountedOther ==
    /\ TypeOK /\ Accounted
    /\ Request \/ DeleteChild \/ Start \/ Recovered \/ Pick \/ Crash \/ Quit \/ Others
    => Accounted'
<1> SUFFICES ASSUME TypeOK, Accounted,
                    Request \/ DeleteChild \/ Start \/ Recovered \/ Pick \/ Crash \/ Quit \/ Others
             PROVE  Accounted'
  OBVIOUS
<1> USE Apart, NoneEmpty, PathTypes DEF Accounted, Empty, AtEmptyStaged, AtEmptyRestoring
<1>1. CASE Request
  BY <1>1, AccountedRequest
<1>2. CASE DeleteChild
  <2>1. \A p \in Paths : fs'[p].data = fs[p].data
    BY <1>2, BusyTypes, WorkingBusy DEF DeleteChild, Tear, TypeOK, Content
  <2> QED BY <1>2, <2>1, BusyTypes, WorkingBusy DEF DeleteChild, memory
<1>3. CASE Start \/ Recovered \/ Pick \/ Crash \/ Quit
  BY <1>3 DEF Start, Recovered, Pick, Crash, Quit, Stop, memory
<1>4. CASE Others
  <2>1. \A o \in Ops : fs'[Staged(o)] = fs[Staged(o)] /\ fs'[Restoring(o)] = fs[Restoring(o)]
    <3>1. ASSUME NEW d \in Data, NEW n \in Names, CreateItem(d, n) \/ CreateVault(d, n)
          PROVE  \A o \in Ops : /\ fs'[Staged(o)] = fs[Staged(o)]
                                /\ fs'[Restoring(o)] = fs[Restoring(o)]
      BY <3>1 DEF CreateItem, CreateVault, Create, TypeOK
    <3>2. ASSUME NEW e \in Data, NEW n \in Names, Edit(n, e)
          PROVE  \A o \in Ops : /\ fs'[Staged(o)] = fs[Staged(o)]
                                /\ fs'[Restoring(o)] = fs[Restoring(o)]
      BY <3>2 DEF Edit, TypeOK
    <3>3. ASSUME NEW n \in Names, NEW m \in Names, MoveItem(n, m) \/ MoveVault(n, m)
          PROVE  \A o \in Ops : /\ fs'[Staged(o)] = fs[Staged(o)]
                                /\ fs'[Restoring(o)] = fs[Restoring(o)]
      BY <3>3 DEF MoveItem, MoveVault, Move, TypeOK
    <3> QED BY <1>4, <3>1, <3>2, <3>3 DEF Others
  <2>3. pc \in AtEmptyStaged \cup AtEmptyRestoring => cur \in Ops
    BY BusyTypes DEF Busy, PcValues, LockSteps, UnlockSteps, RecoverySteps, RollbackSteps
  <2> QED BY <1>4, <2>1, <2>3 DEF Others, memory
<1> QED BY <1>1, <1>2, <1>3, <1>4

(* At first there is no temporary file. *)
LEMMA AccountedInit == Init => Accounted
<1> SUFFICES ASSUME Init PROVE Accounted
  OBVIOUS
<1>1. \A o \in Ops : fs[Staged(o)] = None /\ fs[Restoring(o)] = None
  BY PathTypes DEF Init, Staged, Restoring
<1> QED BY <1>1, NoneEmpty DEF Init, Accounted, Empty, AtEmptyStaged, AtEmptyRestoring

(* Locking to and unlocking from a .flk vault, or from any vault where every *)
(* file can be deleted, never leaves decrypted files                         *)
(* under a temporary name that no journal entry leads to: whatever fails,    *)
(* wherever the app stops, and whatever the user does in the folder.         *)
THEOREM NothingStray ==
    ASSUME Style = "flk" \/ "delete" \notin Faults
    PROVE  Spec => []NoStrayPlaintext
<1>1. Init => TypeOK /\ Accounted
  BY InitTypes, AccountedInit
<1>2. TypeOK /\ Accounted /\ [Next]_vars => Accounted'
  <2>1. Accounted /\ UNCHANGED vars => Accounted'
    BY DEF Accounted, Empty, vars
  <2> QED BY <2>1, AccountedWorking, AccountedOther DEF Next, Recovery, Working
<1>3. TypeOK /\ Accounted => NoStrayPlaintext
  BY DEF TypeOK, JournalOK, Entry, Accounted, Empty, NoStrayPlaintext
<1> QED BY <1>1, <1>2, <1>3, TypeCorrect, PTL DEF Spec
=============================================================================
