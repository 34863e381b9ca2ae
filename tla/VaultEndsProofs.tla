-------------------------- MODULE VaultEndsProofs --------------------------
(***************************************************************************)
(* How operations of VaultJournal end: with nothing left behind once the   *)
(* journal is empty, and with the item in place when a lock fails; and     *)
(* that all their steps are steps of ItemLife.                             *)
(***************************************************************************)
EXTENDS VaultLossProofs, VaultLife

AtNoStaged    == {"stage", "forget", "rDeletePartial", "rCompleted", "rRolledBack"}
AtNoPartial   == {"stage", "commit", "deleteStaged", "forget", "backItem", "backForget",
                  "rDeleteStaged", "rCompleted", "rRolledBack"}
AtNoRestoring == {"deleteVault", "closeUnlock", "abortForget", "rCompleted", "rRolledBack"}

(* Every temporary name has an entry of the kind that uses it, until the step *)
(* that has removed it.                                                       *)
Swept ==
    /\ \A o \in Ops :
         /\ journal[o].kind # "lock" => ~Exists(Staged(o)) /\ ~Exists(Partial(o))
         /\ journal[o].kind # "unlock" => ~Exists(Restoring(o))
    /\ pc \in AtNoStaged => ~Exists(Staged(cur))
    /\ pc \in AtNoPartial => ~Exists(Partial(cur))
    /\ pc \in AtNoRestoring => ~Exists(Restoring(cur))
    /\ pc = "restored" /\ Style = "flkd" => ~Exists(Restoring(cur))

(* A verified vault that is not in place yet is whole, and its place is free; *)
(* recovery rolls a lock back only without one.                              *)
PlaceFree ==
    /\ \A o \in Ops :
         journal[o].kind = "lock" /\ journal[o].phase # "started" /\ Exists(Partial(o))
           => fs[Partial(o)].whole /\ ~Exists(Vault(journal[o].vault))
    /\ pc \in {"rUnstage", "rDeletePartial"} =>
         journal[cur].phase = "started" \/ ~Exists(Partial(cur))

(* No single file is in a vault folder, so that its export leaves no folder  *)
(* behind: what is a folder holds no file, and only folders become vaults.   *)
NoFile(p) == fs[p].data \notin Files
FoldersOnly ==
    /\ \A n \in Names : fs[Item(n)].form = "folder" => NoFile(Item(n))
    /\ \A o \in Ops : fs[Staged(o)].form = "folder" => NoFile(Staged(o))
    /\ Style = "flkd" => /\ \A n \in Names : NoFile(Vault(n))
                         /\ \A o \in Ops : fs[Partial(o)].whole => NoFile(Partial(o))

(* The empty entry has no kind. *)
LEMMA NoEntryKind == NoEntry.kind = "none"
BY DEF NoEntry

(* A deletion under way changes one path, which keeps its data. *)
LEMMA TornOnly ==
    TypeOK /\ DeleteChild =>
        /\ Deleting \in Paths
        /\ \A p \in Paths : fs'[p] # None => fs[p] # None
        /\ \A p \in Paths : fs'[p].data = fs[p].data /\ fs'[p].form = fs[p].form
        /\ \A p \in Paths \ {Deleting} : fs'[p] = fs[p]
        /\ ~fs'[Deleting].whole
<1> SUFFICES ASSUME TypeOK, DeleteChild
             PROVE  /\ Deleting \in Paths
                    /\ \A p \in Paths : fs'[p] # None => fs[p] # None
                    /\ \A p \in Paths : fs'[p].data = fs[p].data /\ fs'[p].form = fs[p].form
                    /\ \A p \in Paths \ {Deleting} : fs'[p] = fs[p]
                    /\ ~fs'[Deleting].whole
  OBVIOUS
<1>1. Deleting \in Paths
  BY BusyTypes, WorkingBusy DEF Deleting
<1>2. fs' = [fs EXCEPT ![Deleting].whole = FALSE] /\ fs[Deleting].form # "none"
  BY DEF DeleteChild, Tear
<1>3. fs \in [Paths -> Content]
  BY DEF TypeOK
<1>4. \A p \in Paths \ {Deleting} : fs'[p] = fs[p]
  BY <1>2, <1>3
<1>5. fs'[Deleting] = [fs[Deleting] EXCEPT !.whole = FALSE] /\ fs[Deleting] \in Content
  BY <1>1, <1>2, <1>3
<1>6. /\ fs'[Deleting].data = fs[Deleting].data /\ fs'[Deleting].form = fs[Deleting].form
      /\ ~fs'[Deleting].whole
  BY <1>5 DEF Content
<1>7. fs[Deleting] # None
  BY <1>2 DEF None
<1> QED BY <1>1, <1>4, <1>6, <1>7

(* Every step of an operation or of its recovery sweeps up after itself. *)
LEMMA SweptWorking == Step /\ Swept /\ PlaceFree /\ FoldersOnly /\ Working => Swept'
<1> SUFFICES ASSUME Step, Swept, PlaceFree, FoldersOnly, Working PROVE Swept'
  OBVIOUS
<1> USE StepFacts, PathTypes, Apart, NoEntryKind DEF Swept, AtNoStaged, AtNoPartial, AtNoRestoring, Exists, Calm
<1>t. /\ fs \in [Paths -> Content] /\ journal \in [Ops -> Entry] /\ Calm
  BY DEF Step, TypeOK, JournalOK
<1>1. CASE Stage
  BY <1>1, <1>t DEF Stage, Rename, Go, memory, Step
<1>2. CASE StageFails
  BY <1>2, <1>t DEF StageFails, RenameFails, Answer, Cleared, Fault, Step
<1>3. CASE WritePart
  BY <1>3, <1>t DEF WritePart, Go, memory, Step
<1>4. CASE WriteAll
  BY <1>4, <1>t DEF WriteAll, Go, memory, Step
<1>5. CASE SaveVerified
  BY <1>5, <1>t DEF SaveVerified, Save, Go, memory, Step
<1>6. CASE Place
  BY <1>6, <1>t DEF Place, Rename, Go, memory, Step
<1>7. CASE LockFails
  BY <1>7, <1>t DEF LockFails, RenameFails, Go, memory, Fault, Step
<1>8. CASE SaveCommitted
  <2>1. \A o \in Ops : journal'[o].kind = journal[o].kind
    BY <1>8, <1>t DEF SaveCommitted, Save, SaveFails, Entry
  <2> QED BY <1>8, <2>1 DEF SaveCommitted, Go, memory
<1>9. CASE DeleteStaged
  BY <1>9, <1>t DEF DeleteStaged, Gone, Go, Stuck, Answer, memory, Cleared, Fault, Step
<1>10. CASE ForgetLock
  BY <1>10, <1>t DEF ForgetLock, Forget, Answer, ForgetFails, Cleared, Fault, Step
<1>11. CASE BackPartial
  BY <1>11, <1>t DEF BackPartial, Gone, Stuck, Go, memory, Fault, Step
<1>12. CASE BackItem
  BY <1>12, <1>t DEF BackItem, Rename, Go, Answer, memory, Cleared, Fault, Step
<1>13. CASE BackForget
  BY <1>13, <1>t DEF BackForget, Forget, ForgetFails, Answer, Cleared, Fault, Step
<1>14. CASE RestorePart
  BY <1>14, <1>t DEF RestorePart, Go, memory, Step
<1>15. CASE RestoreAll
  BY <1>15, <1>t DEF RestoreAll, Go, memory, Step
<1>16. CASE PutBack
  <2>1. Style = "flkd" => fs[Restoring(cur)].data \notin Files
    BY <1>16 DEF PutBack, Step, Sound, UnlockTrue, FoldersOnly, NoFile
  <2>2. \A o \in Ops : /\ fs'[Staged(o)] = fs[Staged(o)] /\ fs'[Partial(o)] = fs[Partial(o)]
                       /\ o # cur => fs'[Restoring(o)] = fs[Restoring(o)]
    BY <1>16, <1>t DEF PutBack
  <2>3. Style = "flkd" => fs'[Restoring(cur)] = None
    BY <1>16, <1>t, <2>1 DEF PutBack
  <2> QED BY <1>16, <1>t, <2>2, <2>3 DEF PutBack, Step
<1>17. CASE UnlockFails
  BY <1>17, <1>t DEF UnlockFails, Go, memory, Step
<1>18. CASE AbortUnlock
  BY <1>18, <1>t DEF AbortUnlock, Gone, Go, Stuck, Answer, memory, Cleared, Fault, Step
<1>19. CASE AbortForget
  BY <1>19, <1>t DEF AbortForget, Forget, ForgetFails, Answer, Cleared, Fault, Step
<1>20. CASE SaveRestored
  <2>1. \A o \in Ops : journal'[o].kind = journal[o].kind
    <3>1. cur \in Ops /\ journal[cur] \in Entry
      BY <1>t
    <3>2. [journal[cur] EXCEPT !.phase = "committed", !.item = item].kind = journal[cur].kind
      BY <3>1 DEF Entry
    <3> QED BY <1>20, <1>t, <3>1, <3>2 DEF SaveRestored, Save, SaveFails
  <2> QED BY <1>20, <2>1, ChoiceAssumption DEF SaveRestored, Go, memory
<1>21. CASE DeleteWork
  BY <1>21, <1>t DEF DeleteWork, Gone, Stuck, Fault, Step
<1>22. CASE DeleteVault
  BY <1>22, <1>t DEF DeleteVault, Gone, Go, Answer, Stuck, memory, Cleared, Fault, Step
<1>23. CASE ForgetUnlock
  BY <1>23, <1>t DEF ForgetUnlock, Forget, Answer, ForgetFails, Cleared, Fault, Step
<1>24. CASE RPlace
  <2>1. /\ journal[cur].kind = "lock" /\ journal[cur].phase # "started"
        /\ vault = journal[cur].vault
    BY <1>24 DEF RPlace, Step, Sound, LockTrue
  <2>2. ~(Exists(Partial(cur)) /\ Exists(Vault(vault)))
    BY <2>1 DEF PlaceFree
  <2> QED BY <1>24, <1>t, <2>1, <2>2 DEF RPlace, Rename, Go, Skip, memory, Fault, Step
<1>25. CASE RDeleteStaged
  BY <1>25, <1>t DEF RDeleteStaged, RDelete, Gone, Go, Stuck, Skip, memory, Fault, Step
<1>26. CASE RUnstage
  BY <1>26, <1>t DEF RUnstage, Rename, Go, Skip, memory, Fault, Step
<1>27. CASE RDeletePartial
  BY <1>27, <1>t DEF RDeletePartial, RDelete, Gone, Go, Stuck, Skip, memory, Fault, Step
<1>28. CASE RDeleteVault
  BY <1>28, <1>t DEF RDeleteVault, RDelete, Gone, Go, Stuck, Skip, memory, Fault, Step
<1>29. CASE RDeleteWork
  BY <1>29, <1>t DEF RDeleteWork, RDelete, Gone, Go, Stuck, Skip, memory, Fault, Step
<1>30. CASE RAbort
  BY <1>30, <1>t DEF RAbort, RDelete, Gone, Go, Stuck, Skip, memory, Fault, Step
<1>31. CASE RForget
  BY <1>31, <1>t DEF RForget, Forget, ForgetFails, Skip, Fault, Step
<1> QED BY <1>1, <1>2, <1>3, <1>4, <1>5, <1>6, <1>7, <1>8, <1>9, <1>10, <1>11, <1>12,
   <1>13, <1>14, <1>15, <1>16, <1>17, <1>18, <1>19, <1>20, <1>21, <1>22, <1>23, <1>24,
   <1>25, <1>26, <1>27, <1>28, <1>29, <1>30, <1>31 DEF Working, Running
(* So does the beginning of an operation, everything the users do, and what  *)
(* stops, starts or tears.                                                   *)
LEMMA SweptOther ==
    /\ TypeOK /\ Accounted /\ Calm /\ Swept
    /\ Request \/ DeleteChild \/ Start \/ Recovered \/ Pick \/ Crash \/ Quit \/ Others
    => Swept'
<1> SUFFICES ASSUME TypeOK, Accounted, Calm, Swept,
                    Request \/ DeleteChild \/ Start \/ Recovered \/ Pick \/ Crash \/ Quit \/ Others
             PROVE  Swept'
  OBVIOUS
<1> USE PathTypes, Apart, NoEntryKind DEF Swept, AtNoStaged, AtNoPartial, AtNoRestoring, Exists
<1>1. CASE Request
  <2>1. PICK n \in Names, v \in Names : StartLock(n, v) \/ StartUnlock(n, v)
    BY <1>1 DEF Request
  <2>2. next \in Ops /\ fs' = fs /\ cur' = next /\ pc' \in {"stage", "restore"}
    BY <2>1 DEF StartLock, StartUnlock
  <2>3. /\ journal[next].kind = "none"
        /\ \A o \in Ops \ {next} : journal'[o] = journal[o]
    <3>1. next <= next
      BY <2>2, BoundAssumption DEF Ops
    <3> QED BY <2>1, <2>2, <3>1 DEF StartLock, StartUnlock, Save, TypeOK, JournalOK, Accounted
  <2> QED BY <2>2, <2>3
<1>2. CASE DeleteChild
  <2>1. \A p \in Paths : fs'[p] # None => fs[p] # None
    BY <1>2, TornOnly
  <2> QED BY <1>2, <2>1, BusyTypes, WorkingBusy DEF DeleteChild, memory
<1>3. CASE Start \/ Recovered \/ Pick \/ Crash \/ Quit
  BY <1>3 DEF Start, Recovered, Pick, Crash, Quit, Stop, memory
<1>4. CASE Others
  <2>1. \A o \in Ops : /\ fs'[Staged(o)] = fs[Staged(o)] /\ fs'[Partial(o)] = fs[Partial(o)]
                       /\ fs'[Restoring(o)] = fs[Restoring(o)]
    BY <1>4 DEF Others, CreateItem, CreateVault, Create, Edit, MoveItem, MoveVault, Move, Calm,
       Act, TypeOK
  <2>2. pc \in AtNoStaged \cup AtNoPartial \cup AtNoRestoring \cup {"restored"} => cur \in Ops
    BY BusyTypes DEF Busy, PcValues, LockSteps, UnlockSteps, RecoverySteps, RollbackSteps
  <2> QED BY <1>4, <2>1, <2>2 DEF Others, memory
<1> QED BY <1>1, <1>2, <1>3, <1>4

(* The place of a verified vault stays free until it is moved there: whoever   *)
(* else has an entry is only to be rolled back.                                *)
LEMMA PlaceFreeWorking == Step /\ PlaceFree /\ Working => PlaceFree'
<1> SUFFICES ASSUME Step, PlaceFree, Working PROVE PlaceFree'
  OBVIOUS
<1> USE StepFacts, PathTypes, Apart, FinalApart, NoEntryKind DEF PlaceFree, Exists
<1>t. /\ fs \in [Paths -> Content] /\ journal \in [Ops -> Entry] /\ Calm
      /\ \A o \in Ops : journal[o].kind = "lock" => journal[o].vault \in Names
  BY DEF Step, TypeOK, JournalOK, Pending
<1>o. \A o \in Ops \ {cur} :
        journal[o].kind = "lock" /\ journal[o].phase # "started"
          => pc \in RecoverySteps /\ Cold(cur)
  <2>1. pc # "down"
    BY WorkingBusy, PcSets DEF Step
  <2> QED BY <2>1 DEF Step, Sound, OneHot, Pending, Cold
<1>1. CASE Stage
  BY <1>1, <1>t DEF Stage, Rename, Go, memory
<1>2. CASE StageFails
  BY <1>2, <1>t DEF StageFails, RenameFails, Answer, Cleared, Fault
<1>3. CASE WritePart
  <2>1. journal[cur].phase = "started"
    BY <1>3 DEF WritePart, Step, Sound, LockTrue
  <2> QED BY <1>3, <1>t, <2>1 DEF WritePart, Go, memory
<1>4. CASE WriteAll
  BY <1>4, <1>t DEF WriteAll, Go, memory
<1>5. CASE SaveVerified
  <2>1. ~Exists(Vault(vault)) /\ fs[Partial(cur)].whole
    BY <1>5 DEF SaveVerified, Step, Sound, LockTrue
  <2> QED BY <1>5, <1>t, <2>1 DEF SaveVerified, Save, Entry, Go, memory
<1>6. CASE Place
  <2>1. pc \notin RecoverySteps
    BY <1>6 DEF Place, RecoverySteps
  <2> QED BY <1>6, <1>t, <1>o, <2>1 DEF Place, Rename, Go, memory
<1>7. CASE LockFails
  BY <1>7, <1>t DEF LockFails, RenameFails, Go, memory, Fault
<1>8. CASE SaveCommitted
  <2>1. ~Exists(Partial(cur))
    BY <1>8 DEF SaveCommitted, Step, Sound, LockTrue
  <2> QED BY <1>8, <1>t, <2>1 DEF SaveCommitted, Save, SaveFails, Go, memory
<1>9. CASE DeleteStaged
  BY <1>9, <1>t DEF DeleteStaged, Gone, Go, Stuck, Answer, memory, Cleared, Fault
<1>10. CASE ForgetLock
  BY <1>10, <1>t DEF ForgetLock, Forget, Answer, ForgetFails, Cleared, Fault
<1>11. CASE BackPartial
  BY <1>11, <1>t DEF BackPartial, Gone, Stuck, Go, memory, Fault
<1>12. CASE BackItem
  BY <1>12, <1>t DEF BackItem, Rename, Go, Answer, memory, Cleared, Fault
<1>13. CASE BackForget
  BY <1>13, <1>t DEF BackForget, Forget, ForgetFails, Answer, Cleared, Fault
<1>14. CASE RestorePart
  BY <1>14, <1>t DEF RestorePart, Go, memory
<1>15. CASE RestoreAll
  BY <1>15, <1>t DEF RestoreAll, Go, memory
<1>16. CASE PutBack
  BY <1>16, <1>t DEF PutBack
<1>17. CASE UnlockFails
  BY <1>17, <1>t DEF UnlockFails, Go, memory
<1>18. CASE AbortUnlock
  BY <1>18, <1>t DEF AbortUnlock, Gone, Go, Stuck, Answer, memory, Cleared, Fault
<1>19. CASE AbortForget
  BY <1>19, <1>t DEF AbortForget, Forget, ForgetFails, Answer, Cleared, Fault
<1>20. CASE SaveRestored
  <2>1. /\ fs' = fs /\ \A o \in Ops \ {cur} : journal'[o] = journal[o]
        /\ journal'[cur].kind = "unlock"
    BY <1>20, <1>t DEF SaveRestored, Save, SaveFails, Entry
  <2>2. pc' \notin {"rUnstage", "rDeletePartial"}
    BY <1>20 DEF SaveRestored, Go
  <2> QED BY <2>1, <2>2
<1>21. CASE DeleteWork
  BY <1>21, <1>t DEF DeleteWork, Gone, Stuck, Fault
<1>22. CASE DeleteVault
  BY <1>22, <1>t DEF DeleteVault, Gone, Go, Answer, Stuck, memory, Cleared, Fault
<1>23. CASE ForgetUnlock
  BY <1>23, <1>t DEF ForgetUnlock, Forget, Answer, ForgetFails, Cleared, Fault
<1>24. CASE RPlace
  <2>1. ~Cold(cur)
    BY <1>24 DEF RPlace, Step, Sound, LockTrue, Cold
  <2> QED BY <1>24, <1>t, <1>o, <2>1 DEF RPlace, Rename, Fault, Go, Skip, memory
<1>25. CASE RDeleteStaged
  BY <1>25, <1>t DEF RDeleteStaged, RDelete, Gone, Go, Stuck, Skip, memory, Fault
<1>26. CASE RUnstage
  BY <1>26, <1>t DEF RUnstage, Rename, Go, Skip, memory, Fault
<1>27. CASE RDeletePartial
  BY <1>27, <1>t DEF RDeletePartial, RDelete, Gone, Go, Stuck, Skip, memory, Fault
<1>28. CASE RDeleteVault
  BY <1>28, <1>t DEF RDeleteVault, RDelete, Gone, Go, Stuck, Skip, memory, Fault
<1>29. CASE RDeleteWork
  BY <1>29, <1>t DEF RDeleteWork, RDelete, Gone, Go, Stuck, Skip, memory, Fault
<1>30. CASE RAbort
  BY <1>30, <1>t DEF RAbort, RDelete, Gone, Go, Stuck, Skip, memory, Fault
<1>31. CASE RForget
  BY <1>31, <1>t DEF RForget, Forget, ForgetFails, Skip, Fault
<1> QED BY <1>1, <1>2, <1>3, <1>4, <1>5, <1>6, <1>7, <1>8, <1>9, <1>10, <1>11, <1>12,
   <1>13, <1>14, <1>15, <1>16, <1>17, <1>18, <1>19, <1>20, <1>21, <1>22, <1>23, <1>24,
   <1>25, <1>26, <1>27, <1>28, <1>29, <1>30, <1>31 DEF Working, Running

(* So does everything else. *)
LEMMA PlaceFreeOther ==
    /\ TypeOK /\ Accounted /\ Calm /\ Sound /\ PlaceFree
    /\ Request \/ DeleteChild \/ Start \/ Recovered \/ Pick \/ Crash \/ Quit \/ Others
    => PlaceFree'
<1> SUFFICES ASSUME TypeOK, Accounted, Calm, Sound, PlaceFree,
                    Request \/ DeleteChild \/ Start \/ Recovered \/ Pick \/ Crash \/ Quit \/ Others
             PROVE  PlaceFree'
  OBVIOUS
<1> USE PathTypes, Apart, FinalApart, NoEntryKind DEF PlaceFree, Exists
<1>t. \A o \in Ops : journal[o].kind = "lock" => journal[o].vault \in Names
  BY DEF TypeOK, JournalOK, Pending
<1>1. CASE Request
  <2>1. PICK n \in Names, v \in Names : StartLock(n, v) \/ StartUnlock(n, v)
    BY <1>1 DEF Request
  <2>2. next \in Ops /\ fs' = fs /\ pc' \in {"stage", "restore"}
    BY <2>1 DEF StartLock, StartUnlock
  <2>3. \A o \in Ops : journal'[o] = journal[o] \/ journal'[o].phase = "started"
    BY <2>1, <2>2 DEF StartLock, StartUnlock, Save, TypeOK, JournalOK
  <2> QED BY <2>2, <2>3
<1>2. CASE DeleteChild
  <2>1. /\ journal' = journal /\ pc' = pc /\ cur' = cur /\ pc \in Busy /\ cur \in Ops
    BY <1>2, BusyTypes, WorkingBusy DEF DeleteChild, memory
  <2>2. ASSUME NEW o \in Ops, journal[o].kind = "lock", journal[o].phase # "started",
               Exists(Partial(o))
        PROVE  Deleting # Partial(o)
    <3>1. CASE pc \in {"backPartial", "rDeletePartial"}
      <4>1. journal[cur].phase = "started" \/ ~Exists(Partial(cur))
        BY <3>1 DEF Sound, LockTrue, RollbackSteps
      <4> QED BY <2>1, <2>2, <3>1, <4>1 DEF Deleting
    <3> QED BY <2>1, <2>2, <3>1, <1>2, BusyTypes DEF Deleting, DeleteChild
  <2>3. /\ \A p \in Paths : fs'[p] # None => fs[p] # None
        /\ \A p \in Paths \ {Deleting} : fs'[p] = fs[p]
    BY <1>2, TornOnly
  <2> QED BY <1>t, <2>1, <2>2, <2>3
<1>3. CASE Start \/ Recovered \/ Pick \/ Crash \/ Quit
  <2>1. CASE Pick
    <3>1. journal' = journal /\ fs' = fs
      BY <2>1 DEF Pick
    <3>2. pc' = "rUnstage" => ~VaultReady(cur') /\ cur' \in todo /\ journal[cur'].kind = "lock"
      BY <2>1 DEF Pick
    <3>3. todo \subseteq Ops /\ \A o \in Ops : journal[o].phase \in Phases
      BY DEF TypeOK, MemoryOK, JournalOK, Pending, Entry
    <3>4. pc' # "rDeletePartial"
      BY <2>1 DEF Pick
    <3> QED BY <3>1, <3>2, <3>3, <3>4 DEF VaultReady, Phases
  <2> QED BY <1>3, <2>1 DEF Start, Recovered, Crash, Quit, Stop
<1>4. CASE Others
  <2>1. \A o \in Ops, n \in Names : /\ fs'[Partial(o)] = fs[Partial(o)]
                                    /\ fs'[Vault(n)] = fs[Vault(n)]
    BY <1>4 DEF Others, CreateItem, CreateVault, Create, Edit, MoveItem, MoveVault, Move, Calm,
       Act, TypeOK
  <2>2. pc \in {"rUnstage", "rDeletePartial"} => cur \in Ops
    BY BusyTypes DEF Busy, PcValues, RecoverySteps
  <2> QED BY <1>t, <1>4, <2>1, <2>2 DEF Others, memory
<1> QED BY <1>1, <1>2, <1>3, <1>4

(* Only folders get into a vault that is a folder. *)
LEMMA FoldersWorking == Step /\ Swept /\ PlaceFree /\ FoldersOnly /\ Working => FoldersOnly'
<1> SUFFICES ASSUME Step, Swept, PlaceFree, FoldersOnly, Working PROVE FoldersOnly'
  OBVIOUS
<1> USE StepFacts, PathTypes, Apart, FinalApart DEF FoldersOnly, NoFile, Exists
<1>t. fs \in [Paths -> Content] /\ Calm
  BY DEF Step, TypeOK
<1>n. None.data \notin Files /\ None.form # "folder" /\ ~None.whole
  BY DataAssumption DEF None
<1>1. CASE Stage
  BY <1>1, <1>t, <1>n DEF Stage, Rename
<1>2. CASE StageFails
  BY <1>2, <1>t, <1>n DEF StageFails, RenameFails, Fault
<1>3. CASE WritePart
  BY <1>3, <1>t, <1>n DEF WritePart
<1>4. CASE WriteAll
  <2>1. Style = "flkd" => fs[Partial(cur)].data \notin Files
    BY <1>4 DEF WriteAll, Complete, Step, Sound, LockTrue, Source, FromScan
  <2> QED BY <1>4, <1>t, <2>1 DEF WriteAll
<1>5. CASE SaveVerified
  BY <1>5, <1>t, <1>n DEF SaveVerified, Save
<1>6. CASE Place
  <2>1. fs[Partial(cur)].whole
    BY <1>6 DEF Place, Step, Sound, LockTrue
  <2> QED BY <1>6, <1>t, <1>n, <2>1 DEF Place, Rename
<1>7. CASE LockFails
  BY <1>7, <1>t, <1>n DEF LockFails, RenameFails, Fault
<1>8. CASE SaveCommitted
  BY <1>8, <1>t, <1>n DEF SaveCommitted, Save, SaveFails
<1>9. CASE DeleteStaged
  BY <1>9, <1>t, <1>n DEF DeleteStaged, Gone, Stuck, Fault
<1>10. CASE ForgetLock
  BY <1>10, <1>t, <1>n DEF ForgetLock, Forget, ForgetFails, Fault
<1>11. CASE BackPartial
  BY <1>11, <1>t, <1>n DEF BackPartial, Gone, Stuck, Fault
<1>12. CASE BackItem
  BY <1>12, <1>t, <1>n DEF BackItem, Rename, Fault
<1>13. CASE BackForget
  BY <1>13, <1>t, <1>n DEF BackForget, Forget, ForgetFails, Fault
<1>14. CASE RestorePart
  BY <1>14, <1>t, <1>n DEF RestorePart
<1>15. CASE RestoreAll
  BY <1>15, <1>t, <1>n DEF RestoreAll
<1>16. CASE PutBack
  <2>1. PICK m \in Names :
          /\ fs' = [fs EXCEPT ![Item(m)] = Plain(fs[Restoring(cur)].data),
                             ![Restoring(cur)] = IF fs[Restoring(cur)].data \in Files
                                                 THEN EmptyDir ELSE None]
    BY <1>16, NameAssumption DEF PutBack, FreeNames
  <2>2. \A d : Plain(d).form = "folder" => Plain(d).data \notin Files
    BY DEF Plain
  <2>3. /\ fs'[Item(m)] = Plain(fs[Restoring(cur)].data)
        /\ \A p \in Paths \ {Item(m), Restoring(cur)} : fs'[p] = fs[p]
    BY <1>t, <2>1
  <2> QED BY <2>2, <2>3
<1>17. CASE UnlockFails
  BY <1>17, <1>t, <1>n DEF UnlockFails
<1>18. CASE AbortUnlock
  BY <1>18, <1>t, <1>n DEF AbortUnlock, Gone, Stuck, Fault
<1>19. CASE AbortForget
  BY <1>19, <1>t, <1>n DEF AbortForget, Forget, ForgetFails, Fault
<1>20. CASE SaveRestored
  BY <1>20, <1>t, <1>n DEF SaveRestored, Save, SaveFails
<1>21. CASE DeleteWork
  BY <1>21, <1>t, <1>n DEF DeleteWork, Gone, Stuck, Fault
<1>22. CASE DeleteVault
  BY <1>22, <1>t, <1>n DEF DeleteVault, Gone, Stuck, Fault
<1>23. CASE ForgetUnlock
  BY <1>23, <1>t, <1>n DEF ForgetUnlock, Forget, ForgetFails, Fault
<1>24. CASE RPlace
  <2>1. Exists(Partial(cur)) => fs[Partial(cur)].whole
    BY <1>24 DEF RPlace, Step, Sound, LockTrue, PlaceFree
  <2> QED BY <1>24, <1>t, <1>n, <2>1 DEF RPlace, Rename, Fault
<1>25. CASE RDeleteStaged
  BY <1>25, <1>t, <1>n DEF RDeleteStaged, RDelete, Gone, Stuck, Fault
<1>26. CASE RUnstage
  BY <1>26, <1>t, <1>n DEF RUnstage, Rename, Fault
<1>27. CASE RDeletePartial
  BY <1>27, <1>t, <1>n DEF RDeletePartial, RDelete, Gone, Stuck, Fault
<1>28. CASE RDeleteVault
  BY <1>28, <1>t, <1>n DEF RDeleteVault, RDelete, Gone, Stuck, Fault
<1>29. CASE RDeleteWork
  BY <1>29, <1>t, <1>n DEF RDeleteWork, RDelete, Gone, Stuck, Fault
<1>30. CASE RAbort
  BY <1>30, <1>t, <1>n DEF RAbort, RDelete, Gone, Stuck, Fault
<1>31. CASE RForget
  BY <1>31, <1>t, <1>n DEF RForget, Forget, ForgetFails, Fault
<1> QED BY <1>1, <1>2, <1>3, <1>4, <1>5, <1>6, <1>7, <1>8, <1>9, <1>10, <1>11, <1>12,
   <1>13, <1>14, <1>15, <1>16, <1>17, <1>18, <1>19, <1>20, <1>21, <1>22, <1>23, <1>24,
   <1>25, <1>26, <1>27, <1>28, <1>29, <1>30, <1>31 DEF Working, Running

(* And nothing else puts a file into one. *)
LEMMA FoldersOther ==
    /\ TypeOK /\ Calm /\ FoldersOnly
    /\ Request \/ DeleteChild \/ Start \/ Recovered \/ Pick \/ Crash \/ Quit \/ Others
    => FoldersOnly'
<1> SUFFICES ASSUME TypeOK, Calm, FoldersOnly,
                    Request \/ DeleteChild \/ Start \/ Recovered \/ Pick \/ Crash \/ Quit \/ Others
             PROVE  FoldersOnly'
  OBVIOUS
<1> USE PathTypes, Apart, FinalApart DEF FoldersOnly, NoFile, Exists
<1>1. CASE Request \/ Start \/ Recovered \/ Pick \/ Crash \/ Quit
  BY <1>1 DEF Request, StartLock, StartUnlock, Start, Recovered, Pick, Crash, Quit, Stop
<1>2. CASE DeleteChild
  <2>1. \A p \in Paths : fs'[p].data = fs[p].data /\ fs'[p].form = fs[p].form
    BY <1>2, TornOnly
  <2>2. \A p \in Paths : fs'[p].whole => fs[p].whole
    BY <1>2, TornOnly
  <2> QED BY <2>1, <2>2
<1>3. CASE Others
  <2>1. /\ \A o \in Ops : fs'[Partial(o)] = fs[Partial(o)] /\ fs'[Staged(o)] = fs[Staged(o)]
        /\ \A n \in Names : fs'[Vault(n)] = fs[Vault(n)]
    BY <1>3 DEF Others, CreateItem, CreateVault, Create, Edit, MoveItem, MoveVault, Move, Calm,
       Act, TypeOK
  <2>2. \A d : Plain(d).form = "folder" => Plain(d).data \notin Files
    BY DEF Plain
  <2>3. None.form # "folder"
    BY DEF None
  <2>4. \A n \in Names : fs'[Item(n)].form = "folder" => fs'[Item(n)].data \notin Files
    <3>1. CASE \E d \in Data, n \in Names : CreateItem(d, n)
      BY <3>1, <2>2 DEF CreateItem, Create, TypeOK
    <3>2. CASE \E n, m \in Names : MoveItem(n, m)
      BY <3>2, <2>3 DEF MoveItem, Move, TypeOK
    <3> QED BY <1>3, <3>1, <3>2 DEF Others, CreateVault, Edit, MoveVault, Calm, Act
  <2> QED BY <2>1, <2>4
<1> QED BY <1>1, <1>2, <1>3

(* At first there is nothing but items. *)
LEMMA TidyInit == Init => Swept /\ PlaceFree /\ FoldersOnly
<1> SUFFICES ASSUME Init PROVE Swept /\ PlaceFree /\ FoldersOnly
  OBVIOUS
<1>1. /\ \A o \in Ops : fs[Staged(o)] = None /\ fs[Partial(o)] = None /\ fs[Restoring(o)] = None
      /\ \A n \in Names : fs[Vault(n)] = None
      /\ \A n \in Names : fs[Item(n)] = None \/ \E d : fs[Item(n)] = Plain(d)
  BY PathTypes DEF Init, Staged, Partial, Restoring, Vault, Item
<1>2. /\ None.data \notin Files /\ None.form # "folder"
      /\ \A d : Plain(d).form = "folder" => Plain(d).data \notin Files
  BY DataAssumption DEF None, Plain
<1>3. \A o \in Ops : journal[o].kind = "none"
  BY DEF Init, NoEntry
<1>4. pc = "idle"
  BY DEF Init
<1> QED BY <1>1, <1>2, <1>3, <1>4 DEF Swept, PlaceFree, FoldersOnly, NoFile, Exists, AtNoStaged,
           AtNoPartial, AtNoRestoring

(* Nothing is left behind: when the app is idle and its journal is empty, there *)
(* is no staged original, no partial vault and no work folder anywhere, after   *)
(* whatever locks, exports, failures, crashes and recoveries (LockOperation,    *)
(* UnlockOperation, DriveOperations, JournalRecovery).                          *)
THEOREM NothingLeft == ASSUME Calm PROVE Spec => []Tidy
<1> DEFINE Clean == Swept /\ PlaceFree /\ FoldersOnly
<1>1. Init => Clean
  BY TidyInit
<1>2. TypeOK /\ Accounted /\ Sound /\ Clean /\ [Next]_vars => Clean'
  <2> SUFFICES ASSUME TypeOK, Accounted, Sound, Clean, [Next]_vars PROVE Clean'
    OBVIOUS
  <2>1. CASE UNCHANGED vars
    BY <2>1 DEF vars, Swept, PlaceFree, FoldersOnly, NoFile, Exists
  <2>2. CASE Working
    BY <2>2, SweptWorking, PlaceFreeWorking, FoldersWorking DEF Step
  <2>3. CASE Request \/ DeleteChild \/ Start \/ Recovered \/ Pick \/ Crash \/ Quit \/ Others
    BY <2>3, SweptOther, PlaceFreeOther, FoldersOther
  <2> QED BY <2>1, <2>2, <2>3 DEF Next, Recovery, Working
<1>3. TypeOK /\ Clean => Tidy
  BY DEF Tidy, Swept, Pending
<1> QED BY <1>1, <1>2, <1>3, SoundAlways, PTL DEF Spec

-----------------------------------------------------------------------------
(* A lock that can still fail has the item, complete, in its hands or in its  *)
(* place: nothing before the last steps deletes any of it.                    *)

BeforeDelete == {"write", "verify", "place", "backPartial", "backItem"}

InHand ==
    /\ pc = "stage" => fs[Item(item)].whole
    /\ pc \in BeforeDelete => fs[Staged(cur)].whole
    /\ pc = "backForget" => Exists(Staged(cur)) \/ fs[Item(item)].whole

(* The steps of a lock and its rollback keep it so. *)
LEMMA InHandWorking == TypeOK /\ InHand /\ Working => InHand'
<1> SUFFICES ASSUME TypeOK, InHand, Working PROVE InHand'
  OBVIOUS
<1> USE BusyTypes, WorkingBusy, Apart DEF InHand, BeforeDelete, Exists
<1>t. /\ fs \in [Paths -> Content]
      /\ None.whole = FALSE
  BY DEF TypeOK, None
<1>1. CASE Stage
  BY <1>1, <1>t DEF Stage, Rename, Go, memory
<1>2. CASE WritePart
  BY <1>2, <1>t DEF WritePart, Go, memory
<1>3. CASE WriteAll
  BY <1>3, <1>t DEF WriteAll, Go, memory
<1>4. CASE SaveVerified
  BY <1>4 DEF SaveVerified, Go, memory
<1>5. CASE LockFails
  BY <1>5 DEF LockFails, RenameFails, Go, memory
<1>6. CASE BackPartial
  BY <1>6, <1>t DEF BackPartial, Gone, Stuck, Go, memory
<1>7. CASE BackItem
  BY <1>7, <1>t DEF BackItem, Rename, Go, Answer, memory
<1>8. CASE \/ StageFails \/ Place \/ SaveCommitted \/ DeleteStaged \/ ForgetLock \/ BackForget
           \/ RestorePart \/ RestoreAll \/ PutBack \/ UnlockFails \/ AbortUnlock \/ AbortForget
           \/ SaveRestored \/ DeleteWork \/ DeleteVault \/ ForgetUnlock \/ RPlace
           \/ RDeleteStaged \/ RUnstage \/ RDeletePartial \/ RDeleteVault \/ RDeleteWork
           \/ RAbort \/ RForget
  <2>1. pc' \notin {"stage", "backForget"} \cup BeforeDelete
    BY <1>8, ChoiceAssumption DEF StageFails, Place, SaveCommitted, DeleteStaged, ForgetLock,
       BackForget, RestorePart, RestoreAll, PutBack, UnlockFails, AbortUnlock, AbortForget,
       SaveRestored, DeleteWork, DeleteVault, ForgetUnlock, RPlace, RDeleteStaged, RUnstage,
       RDeletePartial, RDeleteVault, RDeleteWork, RAbort, RForget, RDelete, Go, Answer, Skip
  <2> QED BY <2>1
<1> QED BY <1>1, <1>2, <1>3, <1>4, <1>5, <1>6, <1>7, <1>8 DEF Working, Running

(* So does everything else, if nobody renames the item meanwhile. *)
LEMMA InHandOther ==
    /\ TypeOK /\ InHand /\ "moveItem" \notin Acts
    /\ Request \/ DeleteChild \/ Start \/ Recovered \/ Pick \/ Crash \/ Quit \/ Others
    => InHand'
<1> SUFFICES ASSUME TypeOK, InHand, "moveItem" \notin Acts,
                    Request \/ DeleteChild \/ Start \/ Recovered \/ Pick \/ Crash \/ Quit \/ Others
             PROVE  InHand'
  OBVIOUS
<1> USE PathTypes, Apart DEF InHand, BeforeDelete
<1>t. fs \in [Paths -> Content] /\ None.whole = FALSE
  BY DEF TypeOK, None
<1>1. CASE Request
  BY <1>1 DEF Request, StartLock, StartUnlock
<1>2. CASE DeleteChild
  <2>1. pc' = pc /\ pc \notin {"stage", "write", "verify", "place", "backItem", "backForget"}
    BY <1>2 DEF DeleteChild
  <2>2. pc = "backPartial" => fs'[Staged(cur)] = fs[Staged(cur)] /\ cur' = cur
    BY <1>2, BusyTypes, WorkingBusy, TornOnly DEF DeleteChild, Deleting, memory
  <2> QED BY <2>1, <2>2
<1>3. CASE Start \/ Recovered \/ Pick \/ Crash \/ Quit
  BY <1>3 DEF Start, Recovered, Pick, Crash, Quit, Stop
<1>4. CASE Others
  <2>1. /\ pc' = pc /\ cur' = cur /\ item' = item
        /\ pc \in {"stage", "backForget"} \cup BeforeDelete => cur \in Ops /\ item \in Names
    BY <1>4, BusyTypes DEF Others, memory, Busy, PcValues, LockSteps, RollbackSteps
  <2>2. \A o \in Ops : fs'[Staged(o)] = fs[Staged(o)]
    BY <1>4, <1>t DEF Others, CreateItem, CreateVault, Create, Edit, MoveItem, MoveVault, Move
  <2>3. \A n \in Names : fs[Item(n)].whole => fs'[Item(n)].whole
    <3>1. \A n, m \in Names : Item(n) # Vault(m) /\ (n # m => Item(n) # Item(m))
      BY FinalApart
    <3>2. ASSUME NEW d \in Data, NEW m \in Names, CreateItem(d, m) \/ CreateVault(d, m)
          PROVE  \A n \in Names : fs[Item(n)].whole => fs'[Item(n)].whole
      BY <3>1, <3>2, <1>t DEF CreateItem, CreateVault, Create, Exists
    <3>3. ASSUME NEW e \in Data, NEW m \in Names, Edit(m, e)
          PROVE  \A n \in Names : fs[Item(n)].whole => fs'[Item(n)].whole
      BY <3>1, <3>3, <1>t DEF Edit, Content
    <3>4. ASSUME NEW k \in Names, NEW m \in Names, MoveVault(k, m)
          PROVE  \A n \in Names : fs[Item(n)].whole => fs'[Item(n)].whole
      BY <3>1, <3>4, <1>t DEF MoveVault, Move
    <3> QED BY <1>4, <3>2, <3>3, <3>4 DEF Others, MoveItem, Act
  <2> QED BY <2>1, <2>2, <2>3 DEF Exists
<1> QED BY <1>1, <1>2, <1>3, <1>4

(* A lock that fails does no harm: when it answers with an error, whatever the  *)
(* step that failed (LockOperation.run and _rollback, DriveOperations.lock and  *)
(* _rollbackLock), either its journal entry stays, so that the next start       *)
(* brings the item back, or the item lies complete under its own name; provided *)
(* only that nobody else renames the item away while it is being locked.        *)
THEOREM LockFailsSafely ==
    ASSUME "moveItem" \notin Acts
    PROVE  Spec => FailedLockHarmless
<1>1. Init => InHand
  BY DEF Init, InHand, BeforeDelete
<1>2. TypeOK /\ InHand /\ [Next]_vars => InHand'
  <2> SUFFICES ASSUME TypeOK, InHand, [Next]_vars PROVE InHand'
    OBVIOUS
  <2>1. CASE UNCHANGED vars
    BY <2>1 DEF vars, InHand, Exists
  <2> QED BY <2>1, InHandWorking, InHandOther DEF Next, Recovery, Working
<1>3. TypeOK /\ InHand /\ [Next]_vars =>
        [reply' = "failed" /\ pc' = "idle" /\ pc \in LockSteps \cup RollbackSteps
           => journal'[cur].kind = "lock" \/ fs'[Item(item)].whole]_vars
  <2> SUFFICES ASSUME TypeOK, InHand, Next, reply' = "failed", pc' = "idle",
                      pc \in LockSteps \cup RollbackSteps
               PROVE  journal'[cur].kind = "lock" \/ fs'[Item(item)].whole
    OBVIOUS
  <2>1. journal[cur].kind = "lock"
    BY DEF TypeOK, MemoryOK
  <2>2. CASE StageFails
    BY <2>2 DEF InHand, StageFails, RenameFails
  <2>3. CASE ForgetLock
    BY <2>1, <2>3 DEF ForgetLock, ForgetFails, Answer
  <2>4. CASE BackItem
    BY <2>1, <2>4 DEF BackItem
  <2>5. CASE BackForget
    BY <2>1, <2>5 DEF InHand, BackForget, ForgetFails
  <2>6. CASE DeleteStaged
    BY <2>6 DEF DeleteStaged, Answer, Go
  <2>7. ASSUME ~(StageFails \/ ForgetLock \/ BackItem \/ BackForget \/ DeleteStaged)
        PROVE  FALSE
    <3>1. ~Working
      <4> SUFFICES ASSUME Working PROVE FALSE
        OBVIOUS
      <4>1. CASE Stage \/ WritePart \/ WriteAll \/ SaveVerified \/ Place \/ LockFails \/ SaveCommitted
                 \/ BackPartial
        BY <4>1 DEF Stage, WritePart, WriteAll, SaveVerified, Place, LockFails, SaveCommitted,
           BackPartial, Go
      <4>2. pc \notin UnlockSteps \cup RecoverySteps
        BY DEF LockSteps, RollbackSteps, UnlockSteps, RecoverySteps
      <4> QED BY <2>7, <4>1, <4>2 DEF Working, Running, RestorePart, RestoreAll, PutBack,
             UnlockFails, AbortUnlock, AbortForget, SaveRestored, DeleteWork, DeleteVault,
             ForgetUnlock, RPlace, RDeleteStaged, RUnstage, RDeletePartial, RDeleteVault,
             RDeleteWork, RAbort, RForget, RDelete, UnlockSteps, RecoverySteps
    <3>2. pc # "idle" /\ pc # "down" /\ pc # "pick"
      BY DEF LockSteps, RollbackSteps
    <3>3. ~Request /\ ~Start /\ ~Quit /\ ~Recovered /\ ~Pick
      BY <3>2 DEF Request, StartLock, StartUnlock, Start, Quit, Recovered, Pick
    <3>4. ~DeleteChild /\ ~Crash /\ ~Others
      BY <3>2 DEF DeleteChild, Crash, Stop, Others
    <3> QED BY <3>1, <3>3, <3>4 DEF Next, Recovery, Working
  <2> QED BY <2>2, <2>3, <2>4, <2>5, <2>6, <2>7
<1> QED BY <1>1, <1>2, <1>3, TypeCorrect, PTL DEF Spec, FailedLockHarmless

-----------------------------------------------------------------------------
(* Data is open, moving or sealed once it exists (ItemLife): what each step  *)
(* does to the whole copies under an item name, a lock's name, a vault name. *)

Open(d)   == \E n \in Names : Copy(Item(n), d)
Moving(d) == \E o \in Ops : Copy(Staged(o), d)
Held(d)   == \E n \in Names : Copy(Vault(n), d)

(* What the mapping makes of them. *)
LifeIs(d) ==
    /\ Open(d) => LifeOf(d) = "open"
    /\ ~Open(d) /\ Moving(d) => LifeOf(d) = "moving"
    /\ ~Open(d) /\ ~Moving(d) /\ Held(d) => LifeOf(d) = "sealed"
    /\ ~Open(d) /\ ~Moving(d) /\ ~Held(d) => LifeOf(d) = "absent"

(* The refinement mapping, by role instead of by path. *)
LEMMA LifeFacts == \A d \in Data : LifeIs(d)
<1> SUFFICES ASSUME NEW d \in Data PROVE LifeIs(d)
  OBVIOUS
<1>1. /\ \A n \in Names : /\ Item(n) \in Paths /\ Item(n)[1] = "item"
                          /\ Vault(n) \in Paths /\ Vault(n)[1] = "vault"
      /\ \A o \in Ops : Staged(o) \in Paths /\ Staged(o)[1] = "locking"
  BY PathTypes DEF Item, Vault, Staged
<1>2. ASSUME NEW p \in Paths
      PROVE  \/ \E n \in Names : p = Item(n) \/ p = Vault(n)
             \/ \E o \in Ops : p = Staged(o)
             \/ p[1] \in {"partial", "restoring"}
  BY DEF Paths, Item, Vault, Staged
<1>3. WholeAt(d, "item") <=> Open(d)
  BY <1>1, <1>2 DEF WholeAt, Open, Copy
<1>4. WholeAt(d, "locking") <=> Moving(d)
  BY <1>1, <1>2 DEF WholeAt, Moving, Copy
<1>5. WholeAt(d, "vault") <=> Held(d)
  BY <1>1, <1>2 DEF WholeAt, Held, Copy
<1> QED BY <1>3, <1>4, <1>5 DEF LifeIs, LifeOf

(* The same of the next state. *)
LEMMA LifeFactsNext == \A d \in Data : LifeIs(d)'
<1>1. (\A d \in Data : LifeIs(d))'
  BY LifeFacts, PTL
<1> QED BY <1>1

(* All that lies anywhere came from the user. *)
Known ==
    /\ \A p \in Paths : fs[p].data \in owned \cup {NoData}
    /\ scanned \in owned \cup {NoData}

(* What exists is somewhere. *)
LEMMA KnownIsThere ==
    ASSUME TypeOK, NoDataLoss, NEW d \in owned PROVE Open(d) \/ Moving(d) \/ Held(d)
BY LossInvariant DEF Somewhere, Open, Moving, Held

-----------------------------------------------------------------------------
(* What the steps do to the disk. *)

(* Only the partial vault and the work folder of the operation change. *)
Beside == /\ Only({Partial(cur), Restoring(cur)})
          /\ fs'[Partial(cur)].data \in {fs[Partial(cur)].data, Source, NoData}
          /\ fs'[Restoring(cur)].data \in {fs[Restoring(cur)].data, fs[Vault(vault)].data, NoData}

(* A restored item gets its name. *)
Restores(m) == /\ m \in Names /\ fs[Item(m)] = None /\ fs'[Item(m)] = Plain(fs[Restoring(cur)].data)
               /\ fs'[Restoring(cur)].data = NoData
               /\ Only({Item(m), Restoring(cur)})

(* All that an operation or its recovery does to the disk. *)
Disk ==
    \/ Beside
    \/ Moved(Item(item), Staged(cur))
    \/ \E m \in Names : Moved(Staged(cur), Item(m))
    \/ Moved(Partial(cur), Vault(vault))
    \/ \E m \in Names : Restores(m)
    \/ pc \in {"deleteStaged", "rDeleteStaged"} /\ Lost(Staged(cur))
    \/ pc \in {"deleteVault", "rDeleteVault"} /\ Lost(Vault(vault))

(* Each of its steps does one of these things. *)
LEMMA WorkingOnDisk == ASSUME Step PROVE Disk
<1> USE StepFacts, PathTypes, Apart, FinalApart, NoneEmpty DEF Exists, Only, Disk
<1>t. fs \in [Paths -> Content]
  BY DEF Step, TypeOK
<1>0. UNCHANGED fs => Beside
  BY DEF Beside
<1>1. CASE Stage
  BY <1>1, <1>t DEF Stage, Rename, Moved
<1>2. CASE StageFails
  BY <1>0, <1>2 DEF StageFails, RenameFails
<1>3. CASE WritePart
  BY <1>3, <1>t DEF WritePart, Beside
<1>4. CASE WriteAll
  BY <1>4, <1>t DEF WriteAll, Beside, Content
<1>5. CASE SaveVerified
  BY <1>0, <1>5 DEF SaveVerified
<1>6. CASE Place
  BY <1>6, <1>t DEF Place, Rename, Moved
<1>7. CASE LockFails
  BY <1>0, <1>7 DEF LockFails, RenameFails
<1>8. CASE SaveCommitted
  BY <1>0, <1>8 DEF SaveCommitted
<1>9. CASE DeleteStaged
  BY <1>0, <1>9, <1>t DEF DeleteStaged, Gone, Stuck, Lost
<1>10. CASE ForgetLock
  BY <1>0, <1>10 DEF ForgetLock
<1>11. CASE BackPartial
  BY <1>0, <1>11, <1>t DEF BackPartial, Gone, Stuck, Beside
<1>12. CASE BackItem
  BY <1>0, <1>12, <1>t DEF BackItem, Rename, Moved
<1>13. CASE BackForget
  BY <1>0, <1>13 DEF BackForget
<1>14. CASE RestorePart
  BY <1>14, <1>t DEF RestorePart, Beside
<1>15. CASE RestoreAll
  BY <1>15, <1>t DEF RestoreAll, Beside, Content
<1>16. CASE PutBack
  <2>1. PICK m \in Names :
            /\ fs[Item(m)] = None
            /\ fs' = [fs EXCEPT ![Item(m)] = Plain(fs[Restoring(cur)].data),
                                ![Restoring(cur)] = IF fs[Restoring(cur)].data \in Files
                                                    THEN EmptyDir ELSE None]
    BY <1>16, NameAssumption DEF PutBack, FreeNames
  <2>2. fs'[Restoring(cur)] \in {EmptyDir, None}
    BY <1>t, <2>1
  <2> QED BY <1>t, <2>1, <2>2 DEF Restores
<1>17. CASE UnlockFails
  BY <1>0, <1>17 DEF UnlockFails
<1>18. CASE AbortUnlock
  BY <1>0, <1>18, <1>t DEF AbortUnlock, Gone, Stuck, Beside
<1>19. CASE AbortForget
  BY <1>0, <1>19 DEF AbortForget
<1>20. CASE SaveRestored
  BY <1>0, <1>20 DEF SaveRestored
<1>21. CASE DeleteWork
  BY <1>0, <1>21, <1>t DEF DeleteWork, Gone, Stuck, Beside
<1>22. CASE DeleteVault
  BY <1>0, <1>22, <1>t DEF DeleteVault, Gone, Stuck, Lost
<1>23. CASE ForgetUnlock
  BY <1>0, <1>23 DEF ForgetUnlock
<1>24. CASE RPlace
  BY <1>0, <1>24, <1>t DEF RPlace, Rename, Moved
<1>25. CASE RDeleteStaged
  BY <1>0, <1>25, <1>t DEF RDeleteStaged, RDelete, Gone, Stuck, Lost
<1>26. CASE RUnstage
  <2>1. UNCHANGED fs \/ \E m \in FreeNames(item) : Rename(Staged(cur), Item(m))
    BY <1>26 DEF RUnstage
  <2>2. FreeNames(item) \subseteq Names
    BY NameAssumption DEF FreeNames
  <2> QED BY <1>0, <1>t, <2>1, <2>2 DEF Rename, Moved
<1>27. CASE RDeletePartial
  BY <1>0, <1>27, <1>t DEF RDeletePartial, RDelete, Gone, Stuck, Beside
<1>28. CASE RDeleteVault
  BY <1>0, <1>28, <1>t DEF RDeleteVault, RDelete, Gone, Stuck, Lost
<1>29. CASE RDeleteWork
  BY <1>0, <1>29, <1>t DEF RDeleteWork, RDelete, Gone, Stuck, Beside
<1>30. CASE RAbort
  BY <1>0, <1>30, <1>t DEF RAbort, RDelete, Gone, Stuck, Beside
<1>31. CASE RForget
  BY <1>0, <1>31 DEF RForget
<1> QED BY <1>1, <1>2, <1>3, <1>4, <1>5, <1>6, <1>7, <1>8, <1>9, <1>10, <1>11, <1>12, <1>13,
           <1>14, <1>15, <1>16, <1>17, <1>18, <1>19, <1>20, <1>21, <1>22, <1>23, <1>24, <1>25,
           <1>26, <1>27, <1>28, <1>29, <1>30, <1>31 DEF Step, Working, Running

(* A deletion in the middle. *)
Tears ==
    \/ Beside
    \/ pc \in {"deleteStaged", "rDeleteStaged"} /\ Torn(Staged(cur))
    \/ pc \in {"deleteVault", "rDeleteVault"} /\ Torn(Vault(vault))

(* What is torn is what the operation is deleting. *)
LEMMA DeleteChildOnDisk == ASSUME TypeOK, DeleteChild PROVE Tears /\ cur \in Ops /\ vault \in Names
<1>1. cur \in Ops /\ vault \in Names
  BY BusyTypes, WorkingBusy
<1>2. /\ Tear(Deleting)
      /\ pc \in {"deleteStaged", "rDeleteStaged", "backPartial", "rDeletePartial", "deleteVault",
                 "rDeleteVault", "abort", "deleteWork", "rDeleteWork", "rAbort"}
  BY DEF DeleteChild
<1>3. \/ pc \in {"deleteStaged", "rDeleteStaged"} /\ Torn(Staged(cur))
      \/ pc \in {"deleteVault", "rDeleteVault"} /\ Torn(Vault(vault))
      \/ Torn(Partial(cur)) \/ Torn(Restoring(cur))
  BY <1>1, <1>2, PathTypes, TornEffect DEF Deleting
<1>4. Torn(Partial(cur)) \/ Torn(Restoring(cur)) => Beside
  BY <1>1, PathTypes, Apart DEF Torn, Only, Beside
<1> QED BY <1>1, <1>3, <1>4 DEF Tears

(* Others: under Calm, an item appears or gets another name. *)
Arrives(d, n) == /\ d \in Data \ owned /\ n \in Names /\ fs[Item(n)] = None
                 /\ fs'[Item(n)] = Plain(d) /\ Only({Item(n)}) /\ owned' = owned \cup {d}

(* They do nothing else. *)
LEMMA OthersOnDisk ==
    ASSUME TypeOK, Calm, Others
    PROVE  \/ \E n, m \in Names : Moved(Item(n), Item(m)) /\ owned' = owned
           \/ \E d \in Data, n \in Names : Arrives(d, n)
<1>1. ASSUME NEW d \in Data, NEW n \in Names, CreateItem(d, n) PROVE Arrives(d, n)
  BY <1>1, PathTypes DEF CreateItem, Create, Exists, Arrives, Only, TypeOK
<1>2. ASSUME NEW n \in Names, NEW m \in Names, MoveItem(n, m)
      PROVE  Moved(Item(n), Item(m)) /\ owned' = owned
  BY <1>2, PathTypes, FinalApart DEF MoveItem, Move, Exists, Moved, Only, TypeOK
<1> QED BY <1>1, <1>2 DEF Others, Calm, CreateVault, Edit, MoveVault, Act

(* Nothing on the disk is nobody's. *)
LEMMA KnownWorking == ASSUME Step, Known PROVE Known' /\ owned' = owned
<1>1. owned' = owned /\ scanned' \in {scanned, NoData}
  <2>1. owned' = owned
    BY WorkingRest DEF Step, env
  <2>2. ASSUME NEW r, Go(r) \/ Answer(r) \/ Skip PROVE scanned' \in {scanned, NoData}
    BY <2>2 DEF Go, Answer, Skip, Cleared, memory
  <2>3. PutBack \/ DeleteWork \/ \E r : Go(r) \/ Answer(r) \/ Skip
    <3>1. CASE Stage \/ StageFails \/ WritePart \/ WriteAll \/ SaveVerified \/ Place \/ LockFails
               \/ SaveCommitted \/ DeleteStaged \/ ForgetLock \/ BackPartial \/ BackItem \/ BackForget
      BY <3>1 DEF Stage, StageFails, WritePart, WriteAll, SaveVerified, Place, LockFails,
         SaveCommitted, DeleteStaged, ForgetLock, BackPartial, BackItem, BackForget
    <3>2. CASE RestorePart \/ RestoreAll \/ PutBack \/ UnlockFails \/ AbortUnlock \/ AbortForget
               \/ SaveRestored \/ DeleteWork \/ DeleteVault \/ ForgetUnlock
      BY <3>2 DEF RestorePart, RestoreAll, UnlockFails, AbortUnlock, AbortForget, SaveRestored,
         DeleteVault, ForgetUnlock
    <3>3. CASE RPlace \/ RDeleteStaged \/ RUnstage \/ RDeletePartial \/ RDeleteVault
               \/ RDeleteWork \/ RAbort \/ RForget
      BY <3>3 DEF RPlace, RDeleteStaged, RUnstage, RDeletePartial, RDeleteVault, RDeleteWork,
         RAbort, RForget, RDelete
    <3> QED BY <3>1, <3>2, <3>3 DEF Step, Working, Running
  <2>4. PutBack \/ DeleteWork => scanned' = scanned
    BY DEF PutBack, DeleteWork
  <2> QED BY <2>1, <2>2, <2>3, <2>4
<1>2. fs \in [Paths -> Content] /\ cur \in Ops /\ vault \in Names /\ item \in Names
  BY StepFacts DEF Step, TypeOK
<1>3. Source \in owned \cup {NoData}
  BY <1>2, PathTypes DEF Source, Known
<1>4. \A p \in Paths : fs'[p].data \in owned \cup {NoData}
  <2>1. CASE Beside
    BY <1>2, <1>3, <2>1, PathTypes DEF Beside, Only, Known
  <2>2. ASSUME NEW p \in Paths, NEW q \in Paths, Moved(p, q)
        PROVE  \A r \in Paths : fs'[r].data \in owned \cup {NoData}
    BY <2>2, NoneEmpty DEF Moved, Only, Known
  <2>3. ASSUME NEW p \in Paths, Lost(p)
        PROVE  \A r \in Paths : fs'[r].data \in owned \cup {NoData}
    BY <2>3, NoneEmpty DEF Lost, Only, Known
  <2>4. ASSUME NEW m \in Names, Restores(m)
        PROVE  \A r \in Paths : fs'[r].data \in owned \cup {NoData}
    <3>1. fs'[Item(m)].data = fs[Restoring(cur)].data
      BY <2>4 DEF Restores, Plain
    <3> QED BY <1>2, <2>4, <3>1, PathTypes DEF Restores, Only, Known
  <2> QED BY <1>2, <2>1, <2>2, <2>3, <2>4, PathTypes, WorkingOnDisk DEF Disk
<1> QED BY <1>1, <1>4 DEF Known

(* Nor is it after requests, starts and stops, and what users do. *)
LEMMA KnownOther ==
    ASSUME TypeOK, Calm, Known,
           Request \/ DeleteChild \/ Start \/ Recovered \/ Pick \/ Crash \/ Quit \/ Others
    PROVE  Known'
<1>1. CASE Request
  <2>1. UNCHANGED <<fs, owned>> /\ \/ scanned' = scanned
                                   \/ \E n \in Names : scanned' = fs[Item(n)].data
    BY <1>1 DEF Request, StartLock, StartUnlock, env
  <2> QED BY <2>1, PathTypes DEF Known
<1>2. CASE DeleteChild
  <2>1. UNCHANGED <<owned, scanned>> /\ cur \in Ops /\ vault \in Names
    BY <1>2, DeleteChildOnDisk DEF DeleteChild, memory, env
  <2>2. \A p \in Paths : fs'[p].data = fs[p].data
    BY <1>2, BusyTypes, WorkingBusy DEF DeleteChild, Tear, TypeOK, Content
  <2> QED BY <2>1, <2>2 DEF Known
<1>3. CASE Start \/ Recovered \/ Pick
  BY <1>3 DEF Start, Recovered, Pick, Known, memory, env
<1>4. CASE Crash \/ Quit
  BY <1>4 DEF Crash, Quit, Stop, Cleared, Known, env
<1>5. CASE Others
  <2>1. scanned' = scanned
    BY <1>5 DEF Others, memory
  <2>2. CASE \E n, m \in Names : Moved(Item(n), Item(m)) /\ owned' = owned
    BY <2>1, <2>2, PathTypes, NoneEmpty DEF Moved, Only, Known
  <2>3. CASE \E d \in Data, n \in Names : Arrives(d, n)
    BY <2>1, <2>3, PathTypes DEF Arrives, Only, Known, Plain
  <2> QED BY <1>5, <2>2, <2>3, OthersOnDisk
<1> QED BY <1>1, <1>2, <1>3, <1>4, <1>5

(* Nor at first. *)
LEMMA KnownInit == Init => Known
<1> SUFFICES ASSUME Init PROVE Known
  OBVIOUS
<1>1. PICK at \in [Data -> Names \cup {NoName}] :
        /\ owned = {d \in Data : at[d] # NoName}
        /\ fs = [p \in Paths |-> IF p[1] = "item" /\ \E d \in Data : at[d] = p[2]
                                 THEN Plain(CHOOSE d \in Data : at[d] = p[2]) ELSE None]
  BY DEF Init
<1>2. ASSUME NEW p \in Paths PROVE fs[p].data \in owned \cup {NoData}
  <2>1. CASE p[1] = "item" /\ \E d \in Data : at[d] = p[2]
    <3>1. PICK d \in Data : at[d] = p[2] /\ fs[p] = Plain(d)
      BY <1>1, <2>1
    <3>2. p[2] \in Names
      BY <2>1 DEF Paths
    <3> QED BY <1>1, <3>1, <3>2, NameAssumption DEF Plain
  <2>2. CASE ~(p[1] = "item" /\ \E d \in Data : at[d] = p[2])
    BY <1>1, <2>2, NoneEmpty
  <2> QED BY <2>1, <2>2
<1> QED BY <1>2 DEF Known, Init

(* Every step changes the life of one piece of data at most, in a way that  *)
(* ItemLife has.                                                            *)

Same(d) == (Open(d)' <=> Open(d)) /\ (Moving(d)' <=> Moving(d)) /\ (Held(d)' <=> Held(d))

(* The data comes or comes back, a lock has it, a lock leaves the vault, or *)
(* the vault stays.                                                         *)
LifeTurns(d) ==
    \/ Open(d)'
    \/ (Open(d) \/ Moving(d)) /\ Moving(d)'
    \/ ~Open(d) /\ Moving(d) /\ Held(d)'
    \/ ~Open(d) /\ ~Moving(d) /\ Held(d) /\ Held(d)' /\ ~Moving(d)'

(* Nothing but e turns. *)
OneTurns(e) == \A d \in Data : Same(d) \/ (d = e /\ LifeTurns(d))

(* A lock takes an item away. *)
LEMMA StagedTurns ==
    ASSUME NEW n \in Names, NEW o \in Ops, Moved(Item(n), Staged(o))
    PROVE  \E e : OneTurns(e)
<1>1. /\ \A m \in Names : /\ m # n => fs'[Item(m)] = fs[Item(m)]
                          /\ fs'[Vault(m)] = fs[Vault(m)]
      /\ \A q \in Ops : q # o => fs'[Staged(q)] = fs[Staged(q)]
      /\ fs[Staged(o)] = None /\ fs'[Item(n)] = None /\ fs'[Staged(o)] = fs[Item(n)]
  BY PathTypes, Apart, FinalApart DEF Moved, Only
<1>2. OneTurns(fs[Item(n)].data)
  BY <1>1, NoCopy DEF OneTurns, Same, LifeTurns, Open, Moving, Held, Copy
<1> QED BY <1>2

(* It gives it back. *)
LEMMA BackTurns ==
    ASSUME NEW m \in Names, NEW o \in Ops, Moved(Staged(o), Item(m))
    PROVE  \E e : OneTurns(e)
<1>1. /\ \A n \in Names : /\ n # m => fs'[Item(n)] = fs[Item(n)]
                          /\ fs'[Vault(n)] = fs[Vault(n)]
      /\ \A q \in Ops : q # o => fs'[Staged(q)] = fs[Staged(q)]
      /\ fs[Item(m)] = None /\ fs'[Staged(o)] = None /\ fs'[Item(m)] = fs[Staged(o)]
  BY PathTypes, Apart, FinalApart DEF Moved, Only
<1>2. OneTurns(fs[Staged(o)].data)
  BY <1>1, NoCopy DEF OneTurns, Same, LifeTurns, Open, Moving, Held, Copy
<1> QED BY <1>2

(* The user gives an item another name. *)
LEMMA RenamedTurns ==
    ASSUME NEW n \in Names, NEW m \in Names, Moved(Item(n), Item(m))
    PROVE  \E e : OneTurns(e)
<1>1. /\ \A k \in Names : /\ k # n /\ k # m => fs'[Item(k)] = fs[Item(k)]
                          /\ fs'[Vault(k)] = fs[Vault(k)]
      /\ \A q \in Ops : fs'[Staged(q)] = fs[Staged(q)]
      /\ fs[Item(m)] = None /\ fs'[Item(n)] = None /\ fs'[Item(m)] = fs[Item(n)]
  BY PathTypes, Apart, FinalApart DEF Moved, Only
<1>2. OneTurns(fs[Item(n)].data)
  BY <1>1, NoCopy DEF OneTurns, Same, LifeTurns, Open, Moving, Held, Copy
<1> QED BY <1>2

(* A vault gets its name: a copy of what is there already. *)
LEMMA PlacedTurns ==
    ASSUME TypeOK, NoDataLoss, Known, NEW v \in Names, NEW o \in Ops, Moved(Partial(o), Vault(v))
    PROVE  \E e : OneTurns(e)
<1>1. /\ \A n \in Names : /\ n # v => fs'[Vault(n)] = fs[Vault(n)]
                          /\ fs'[Item(n)] = fs[Item(n)]
      /\ \A q \in Ops : fs'[Staged(q)] = fs[Staged(q)]
      /\ fs[Vault(v)] = None /\ fs'[Vault(v)] = fs[Partial(o)]
  BY PathTypes, Apart, FinalApart DEF Moved, Only
<1>2. PICK e : e = fs[Partial(o)].data
  OBVIOUS
<1>3. e \in Data => Open(e) \/ Moving(e) \/ Held(e)
  BY <1>2, PathTypes, KnownIsThere, DataAssumption DEF Known
<1>4. \A d \in Data : d # e => Same(d)
  BY <1>1, <1>2, NoCopy DEF Same, Open, Moving, Held, Copy
<1>5. (Open(e)' <=> Open(e)) /\ (Moving(e)' <=> Moving(e)) /\ (Held(e) => Held(e)')
  BY <1>1, NoCopy DEF Open, Moving, Held, Copy
<1> QED BY <1>3, <1>4, <1>5 DEF OneTurns, LifeTurns

(* An unlock puts an item in its place. *)
LEMMA RestoredTurns ==
    ASSUME NEW m \in Names, cur \in Ops, Restores(m)
    PROVE  \E e : OneTurns(e)
<1>1. PICK e : e = fs[Restoring(cur)].data
  OBVIOUS
<1>2. /\ \A n \in Names : /\ n # m => fs'[Item(n)] = fs[Item(n)]
                          /\ fs'[Vault(n)] = fs[Vault(n)]
      /\ \A q \in Ops : fs'[Staged(q)] = fs[Staged(q)]
      /\ fs[Item(m)] = None /\ fs'[Item(m)].data = e /\ fs'[Item(m)].whole
  BY <1>1, PathTypes, Apart, FinalApart DEF Restores, Only, Plain
<1>3. OneTurns(e)
  BY <1>2, NoCopy DEF OneTurns, Same, LifeTurns, Open, Moving, Held, Copy
<1> QED BY <1>3

(* The user brings an item. *)
LEMMA ArrivedTurns ==
    ASSUME NEW d \in Data, NEW n \in Names, Arrives(d, n)
    PROVE  \E e : OneTurns(e)
<1>1. /\ \A m \in Names : /\ m # n => fs'[Item(m)] = fs[Item(m)]
                          /\ fs'[Vault(m)] = fs[Vault(m)]
      /\ \A q \in Ops : fs'[Staged(q)] = fs[Staged(q)]
      /\ fs[Item(n)] = None /\ fs'[Item(n)].data = d /\ fs'[Item(n)].whole
  BY PathTypes, Apart, FinalApart DEF Arrives, Only, Plain
<1>2. OneTurns(d)
  BY <1>1, NoCopy DEF OneTurns, Same, LifeTurns, Open, Moving, Held, Copy
<1> QED BY <1>2

(* The end of a lock: the original goes, and its vault is there. *)
LEMMA SealedTurns ==
    ASSUME cur \in Ops, vault \in Names, Lost(Staged(cur)) \/ Torn(Staged(cur)),
           Exists(Staged(cur)) => InVault(Staged(cur), vault)
    PROVE  \E e : OneTurns(e)
<1>1. PICK e : e = fs[Staged(cur)].data
  OBVIOUS
<1>2. /\ \A n \in Names : fs'[Vault(n)] = fs[Vault(n)] /\ fs'[Item(n)] = fs[Item(n)]
      /\ \A q \in Ops : q # cur => fs'[Staged(q)] = fs[Staged(q)]
      /\ ~fs'[Staged(cur)].whole
  BY PathTypes, Apart, NoCopy DEF Lost, Torn, Only
<1>3. fs[Staged(cur)].whole => Held(e)' /\ Moving(e)
  BY <1>1, <1>2, NoCopy DEF Exists, InVault, Held, Moving, Copy
<1>4. \A d \in Data : /\ (Open(d)' <=> Open(d)) /\ (Held(d)' <=> Held(d))
                      /\ d # e \/ ~fs[Staged(cur)].whole => (Moving(d)' <=> Moving(d))
  BY <1>1, <1>2 DEF Open, Moving, Held, Copy
<1> QED BY <1>3, <1>4 DEF OneTurns, Same, LifeTurns

(* The end of an unlock: the vault goes, and what it held is back. *)
LEMMA OpenedTurns ==
    ASSUME cur \in Ops, vault \in Names, Lost(Vault(vault)) \/ Torn(Vault(vault)),
           Exists(Vault(vault)) => InItems(vault)
    PROVE  \E e : OneTurns(e)
<1>1. PICK e : e = fs[Vault(vault)].data
  OBVIOUS
<1>2. /\ \A n \in Names : /\ n # vault => fs'[Vault(n)] = fs[Vault(n)]
                          /\ fs'[Item(n)] = fs[Item(n)]
      /\ \A q \in Ops : fs'[Staged(q)] = fs[Staged(q)]
      /\ ~fs'[Vault(vault)].whole
  BY PathTypes, Apart, FinalApart, NoCopy DEF Lost, Torn, Only
<1>3. fs[Vault(vault)].whole => Open(e)'
  BY <1>1, <1>2, NoCopy DEF Exists, InItems, Open, Copy
<1>4. \A d \in Data : /\ (Open(d)' <=> Open(d)) /\ (Moving(d)' <=> Moving(d))
                      /\ d # e \/ ~fs[Vault(vault)].whole => (Held(d)' <=> Held(d))
  BY <1>1, <1>2 DEF Open, Moving, Held, Copy
<1> QED BY <1>3, <1>4 DEF OneTurns, Same, LifeTurns

(* What happens under other names makes no difference. *)
LEMMA BesideTurns ==
    ASSUME (cur \in Ops /\ Beside) \/ UNCHANGED fs
    PROVE  \E e : OneTurns(e)
<1>1. /\ \A n \in Names : fs'[Item(n)] = fs[Item(n)] /\ fs'[Vault(n)] = fs[Vault(n)]
      /\ \A q \in Ops : fs'[Staged(q)] = fs[Staged(q)]
  BY PathTypes, Apart DEF Beside, Only
<1>2. OneTurns(NoData)
  BY <1>1 DEF OneTurns, Same, Open, Moving, Held, Copy
<1> QED BY <1>2

(* Every step is one of these. *)
LEMMA StepTurns ==
    ASSUME TypeOK, Accounted, Sound, Calm, Known, [Next]_vars
    PROVE  \E e : OneTurns(e)
<1>1. CASE Working
  <2>1. Step /\ Sound /\ NoDataLoss
    BY <1>1 DEF Step, Sound
  <2>2. cur \in Ops /\ vault \in Names /\ item \in Names
    BY <2>1, StepFacts
  <2>3. /\ pc \in {"deleteStaged", "rDeleteStaged"} /\ Exists(Staged(cur)) => InVault(Staged(cur), vault)
        /\ pc \in {"deleteVault", "rDeleteVault"} /\ Exists(Vault(vault)) => InItems(vault)
    BY DEF Sound, LockTrue, UnlockTrue
  <2>4. Disk
    BY <2>1, WorkingOnDisk
  <2> QED BY <2>1, <2>2, <2>3, <2>4, StagedTurns, BackTurns, PlacedTurns, RestoredTurns, SealedTurns,
             OpenedTurns, BesideTurns DEF Disk
<1>2. CASE DeleteChild
  <2>1. Tears /\ cur \in Ops /\ vault \in Names
    BY <1>2, DeleteChildOnDisk
  <2>2. /\ pc \in {"deleteStaged", "rDeleteStaged"} /\ Exists(Staged(cur)) => InVault(Staged(cur), vault)
        /\ pc \in {"deleteVault", "rDeleteVault"} /\ Exists(Vault(vault)) => InItems(vault)
    BY DEF Sound, LockTrue, UnlockTrue
  <2> QED BY <2>1, <2>2, SealedTurns, OpenedTurns, BesideTurns DEF Tears
<1>3. CASE Others
  <2>1. \/ \E n, m \in Names : Moved(Item(n), Item(m))
        \/ \E d \in Data, n \in Names : Arrives(d, n)
    BY <1>3, OthersOnDisk
  <2> QED BY <2>1, RenamedTurns, ArrivedTurns
<1>4. CASE Request \/ Start \/ Recovered \/ Pick \/ Crash \/ Quit \/ UNCHANGED vars
  <2>1. UNCHANGED fs
    BY <1>4 DEF Request, StartLock, StartUnlock, Start, Recovered, Pick, Crash, Quit, Stop, vars
  <2> QED BY <2>1, BesideTurns
<1> QED BY <1>1, <1>2, <1>3, <1>4 DEF Next, Recovery, Working

(* What the disk says of each piece of data. *)
Lives == [d \in Data |-> LifeOf(d)]

(* As the mapping sees it, that is a step of ItemLife, or none. *)
LEMMA StepIsLife ==
    ASSUME NEW e, OneTurns(e)
    PROVE  [Life!Next]_Lives
<1>1. \A d \in Data : Same(d) => LifeOf(d)' = LifeOf(d)
  <2> SUFFICES ASSUME NEW d \in Data, Same(d) PROVE LifeOf(d)' = LifeOf(d)
    OBVIOUS
  <2>1. LifeIs(d) /\ LifeIs(d)'
    BY LifeFacts, LifeFactsNext
  <2> QED BY <2>1 DEF Same, LifeIs
<1>2. CASE \A d \in Data : Same(d)
  BY <1>1, <1>2 DEF Lives
<1>3. CASE ~\A d \in Data : Same(d)
  <2>1. e \in Data /\ LifeTurns(e) /\ \A d \in Data : d # e => LifeOf(d)' = LifeOf(d)
    BY <1>1, <1>3 DEF OneTurns
  <2>2. LifeIs(e) /\ LifeIs(e)'
    BY <2>1, LifeFacts, LifeFactsNext
  <2>3. PICK old, new : old = LifeOf(e) /\ new = LifeOf(e)'
    OBVIOUS
  <2>4. \/ old = new
        \/ <<old, new>> \in {<<"absent", "open">>, <<"open", "moving">>, <<"moving", "open">>,
                             <<"moving", "sealed">>, <<"sealed", "open">>}
    BY <2>1, <2>2, <2>3 DEF LifeIs, LifeTurns
  <2>5. Lives[e] = old /\ Lives' = [Lives EXCEPT ![e] = new]
    BY <2>1, <2>3 DEF Lives
  <2>6. CASE old = new
    BY <2>5, <2>6 DEF Lives
  <2>7. CASE old # new
    BY <2>1, <2>4, <2>5, <2>7 DEF Life!Next, Life!Arrive, Life!Begin, Life!Abandon, Life!Seal,
       Life!Restore, Life!Change, Lives
  <2> QED BY <2>6, <2>7
<1> QED BY <1>2, <1>3

(* A disk says of every piece of data where it is. *)
LEMMA InitIsLife == Life!Init
<1>1. \A d \in Data : LifeOf(d) \in {"absent", "open", "moving", "sealed"}
  BY DEF LifeOf
<1> QED BY <1>1 DEF Life!Init

(* Locking and unlocking implement ItemLife step by step: through every write  *)
(* that fails, crash, recovery and rename by the user, each piece of data that *)
(* exists is open, on its way, or in a vault; no step changes more than one;   *)
(* only what a lock has taken away is ever left to its vault alone.            *)
THEOREM StepsAreLife == ASSUME Calm PROVE Spec => LifeSteps
<1>1. Init => Known
  BY KnownInit
<1>2. TypeOK /\ Accounted /\ Sound /\ Known /\ [Next]_vars => Known' /\ [Life!Next]_Lives
  <2> SUFFICES ASSUME TypeOK, Accounted, Sound, Known, [Next]_vars PROVE Known' /\ [Life!Next]_Lives
    OBVIOUS
  <2>1. UNCHANGED vars => Known'
    BY DEF vars, Known
  <2>2. Working => Known'
    BY KnownWorking DEF Step
  <2>3. Request \/ DeleteChild \/ Start \/ Recovered \/ Pick \/ Crash \/ Quit \/ Others => Known'
    BY KnownOther
  <2>4. Known'
    BY <2>1, <2>2, <2>3 DEF Next, Recovery, Working
  <2> QED BY <2>4, StepTurns, StepIsLife
<1> QED BY <1>1, <1>2, InitIsLife, SoundAlways, PTL DEF Spec, LifeSteps, Life!Spec, Lives
=============================================================================
