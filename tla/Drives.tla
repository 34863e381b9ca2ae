--------------------------------- MODULE Drives ---------------------------------
(***************************************************************************)
(* The drive helper: requests of the app on threads of their own, the      *)
(* table of mounted vaults with a thread that serves each drive, and the   *)
(* jobs that copy a folder into a vault or back (native/drive/src/main.rs, *)
(* drives/windows.rs, jobs.rs).  It composes DriveHandler, what programs   *)
(* do on the drives, and TreeCopy, the job.                                *)
(*                                                                         *)
(* A drive goes by the id of the request that mounted it.  Timeouts are    *)
(* steps that may come at any time while what they wait for has not        *)
(* happened.                                                               *)
(***************************************************************************)
EXTENDS DriveHandler, TreeCopy

CONSTANTS Plans,     \* what may happen in a run: see MCDrives
          Letters,   \* drive letters, preferred ones first
          Main,      \* the main thread, as the caller of unmount
          None

\* A plan is sound: the main thread is no request, and what requests name is
\* what there is.
SoundPlan(p) ==
    /\ Main # None /\ {Main, None} \cap DOMAIN p.commands = {}
    /\ \A id \in DOMAIN p.commands :
          LET c == p.commands[id]
          IN  /\ c.cmd \in {"mount", "unmount", "import", "export", "cancel"}
              /\ c.vault \in Vaults /\ c.vault # None
              /\ c.cmd = "cancel" => c.target \in DOMAIN p.commands
    /\ p.start \in Things /\ IsTree(p.source)

ASSUME PlansAssumption == \A p \in Plans : SoundPlan(p)

VARIABLES plan,      \* the plan of this run: [commands, faults, programs, start]
          main,      \* "reading" requests, "closing" the drives, "gone"
          queue,     \* the vaults unmount_all still has to unmount
          req,       \* caller -> how far it is, and its local variables
          running,   \* Jobs: id of a running request -> its cancel flag
          mounts,    \* Drives.mounts: vault -> [drive, letter, ready, thread]
          mounting,  \* who holds the lock "mounting"
          drive,     \* drive -> how far the thread that serves it is
          ready,     \* drive -> what was sent to the channel "ready"
          sent       \* unmounted events sent: a set of drives

helperVars == <<plan, main, queue, req, running, mounts, mounting, drive, ready, sent>>
vars == <<helperVars, handlerVars, copyVars>>
quiet == UNCHANGED <<handlerVars, copyVars>>

Ids        == DOMAIN plan.commands
Cmd(id)    == IF id = Main THEN "unmountAll" ELSE plan.commands[id].cmd
Vault(id)  == req[id].vault
Fault(f)   == f \in plan.faults
Drop(f, ks)  == [k \in DOMAIN f \ ks |-> f[k]]

At(id, at)   == req[id].at = at
GoesTo(id, at) == req' = [req EXCEPT ![id].at = at]
\* The work of a request is done; what is left is to say so.
Ends(id, result) == req' = [req EXCEPT ![id].at = "answer", ![id].result = result]

Served(d) == drive[d] \in {"serving", "asked"}
ServedAt(letter) == {d \in DOMAIN drive : Served(d) /\ req[d].letter = letter}

-------------------------------------------------------------------------------
(* main.rs: a request is read, and runs on a thread of its own. *)

Receive(id) ==
    /\ main = "reading" /\ At(id, "unsent") /\ Cmd(id) # "cancel"
    /\ GoesTo(id, "spawned")
    /\ UNCHANGED <<plan, main, queue, running, mounts, mounting, drive, ready, sent>> /\ quiet

\* Cancel is answered at once, and only finds requests that have begun.
Cancel(id) ==
    /\ main = "reading" /\ At(id, "unsent") /\ Cmd(id) = "cancel"
    /\ LET target == plan.commands[id].target
       IN  /\ ~At(target, "unsent")
           /\ running' = IF target \in DOMAIN running THEN Put(running, target, TRUE) ELSE running
    /\ req' = [req EXCEPT ![id].at = "replied"]
    /\ UNCHANGED <<plan, main, queue, mounts, mounting, drive, ready, sent>> /\ quiet

Start(id) ==
    /\ At(id, "spawned") /\ main # "gone"
    /\ running' = Put(running, id, FALSE)
    /\ GoesTo(id, "begin")
    /\ UNCHANGED <<plan, main, queue, mounts, mounting, drive, ready, sent>> /\ quiet

Finish(id) == running' = Drop(running, {id})

Answer(id) ==
    /\ At(id, "answer") /\ main # "gone"
    /\ Finish(id)
    /\ GoesTo(id, IF id = Main THEN "unsent" ELSE "replied")
    /\ UNCHANGED <<plan, main, queue, mounts, mounting, drive, ready, sent>> /\ quiet

CancelAll == [id \in DOMAIN running |-> TRUE]

\* stdin is closed: cancel_all, then unmount_all takes the vaults of the table.
StdinCloses ==
    /\ main = "reading" /\ Fault("close")
    /\ main' = "closing"
    /\ running' = CancelAll
    /\ queue' = DOMAIN mounts
    /\ UNCHANGED <<plan, req, mounts, mounting, drive, ready, sent>> /\ quiet

UnmountNext(vault) ==
    /\ main = "closing" /\ At(Main, "unsent") /\ vault \in queue
    /\ queue' = queue \ {vault}
    /\ req' = [req EXCEPT ![Main].at = "begin", ![Main].vault = vault]
    /\ UNCHANGED <<plan, main, running, mounts, mounting, drive, ready, sent>> /\ quiet

\* The process ends, and with it every thread and drive.
Exit ==
    /\ main = "closing" /\ At(Main, "unsent") /\ queue = {}
    /\ main' = "gone"
    /\ drive' = [d \in DOMAIN drive |-> "gone"]
    /\ handles' = <<>> /\ marked' = {} /\ openFiles' = [d \in DOMAIN openFiles |-> 0]
    /\ UNCHANGED <<plan, queue, req, running, mounts, mounting, ready, sent, item, copyVars>>

-------------------------------------------------------------------------------
(* Drives::mount. *)

FreeLetters == {i \in DOMAIN Letters : ServedAt(Letters[i]) = {}}
FirstFree(i) == i \in FreeLetters /\ \A j \in FreeLetters : i <= j

NoMountingLock == TRUE
MountingFree   == mounting = None

\* Under the lock "mounting": the vault is open already, no letter is free, or
\* the header, the key or the data folder are of no use.
MountRefused(id) ==
    /\ At(id, "begin") /\ Cmd(id) = "mount" /\ main # "gone"
    /\ MountingFree
    /\ Vault(id) \in DOMAIN mounts \/ FreeLetters = {} \/ Fault("refuse")
    /\ Ends(id, "failed")
    /\ UNCHANGED <<plan, main, queue, running, mounts, mounting, drive, ready, sent>> /\ quiet

\* The vault is in the table, not ready, and the thread for its drive starts.
Mount(id) ==
    /\ At(id, "begin") /\ Cmd(id) = "mount" /\ main # "gone"
    /\ MountingFree
    /\ Vault(id) \notin DOMAIN mounts
    /\ \E i \in DOMAIN Letters :
          /\ FirstFree(i)
          /\ req' = [req EXCEPT ![id].at = "keep", ![id].letter = Letters[i]]
          /\ mounts' = Put(mounts, Vault(id), [drive |-> id, letter |-> Letters[i],
                                               ready |-> FALSE, thread |-> None])
    /\ mounting' = id
    /\ drive' = [drive EXCEPT ![id] = "starting"]
    /\ UNCHANGED <<plan, main, queue, running, ready, sent>> /\ quiet

\* The table takes the thread's handle, unless the drive ended already.
KeepThread(id) ==
    /\ At(id, "keep") /\ main # "gone"
    /\ LET kept == Vault(id) \in DOMAIN mounts
       IN  /\ mounts' = IF kept THEN [mounts EXCEPT ![Vault(id)].thread = id] ELSE mounts
           /\ req' = [req EXCEPT ![id].at = "wait", ![id].thread = IF kept THEN None ELSE id]
    /\ UNCHANGED <<plan, main, queue, running, mounting, drive, ready, sent>> /\ quiet

MountReady(id) ==
    /\ At(id, "wait") /\ ready[id] = "ready" /\ main # "gone"
    /\ mounting' = None
    /\ IF Vault(id) \in DOMAIN mounts
       THEN mounts' = [mounts EXCEPT ![Vault(id)].ready = TRUE] /\ Ends(id, "ok")
       ELSE UNCHANGED mounts /\ Ends(id, "failed")
    /\ UNCHANGED <<plan, main, queue, running, drive, ready, sent>> /\ quiet

\* The thread's handle, of the mount the table has by now.
Stored(id) == IF Vault(id) \in DOMAIN mounts THEN mounts[Vault(id)].thread ELSE None

\* forget: out of the table; then its thread is waited for.
Forget(id) ==
    /\ mounts' = Drop(mounts, {Vault(id)})
    /\ req' = [req EXCEPT ![id].at = "join", ![id].thread = IF @ # None THEN @ ELSE Stored(id)]

MountFails(id) ==
    /\ At(id, "wait") /\ ready[id] = "failed" /\ main # "gone"
    /\ Forget(id)
    /\ UNCHANGED <<plan, main, queue, running, mounting, drive, ready, sent>> /\ quiet

\* unmount_point: Dokany is asked to remove the drive at that letter, if there
\* is one.
Ask(letter) == [d \in DOMAIN drive |-> IF d \in ServedAt(letter) THEN "asked" ELSE drive[d]]

MountTimesOut(id) ==
    /\ At(id, "wait") /\ ready[id] = "nothing" /\ Fault("slowMount") /\ main # "gone"
    /\ drive' = Ask(req[id].letter)
    /\ Forget(id)
    /\ UNCHANGED <<plan, main, queue, running, mounting, ready, sent>> /\ quiet

\* The thread of a mount that failed has ended.
JoinLocked(id) ==
    /\ At(id, "join") /\ main # "gone"
    /\ req[id].thread # None => drive[req[id].thread] = "finished"
    /\ Ends(id, "failed")
    /\ UNCHANGED <<plan, main, queue, running, mounts, mounting, drive, ready, sent>> /\ quiet

Join(id) ==
    /\ At(id, "join") /\ main # "gone"
    /\ req[id].thread # None => drive[req[id].thread] = "finished"
    /\ mounting' = None
    /\ Ends(id, "failed")
    /\ UNCHANGED <<plan, main, queue, running, mounts, drive, ready, sent>> /\ quiet

-------------------------------------------------------------------------------
(* The thread of a drive: serve and ended. *)

\* Dokany has the drive and calls "mounted".
Serve(d) ==
    /\ drive[d] = "starting"
    /\ drive' = [drive EXCEPT ![d] = "serving"]
    /\ ready' = [ready EXCEPT ![d] = "ready"]
    /\ UNCHANGED <<plan, main, queue, req, running, mounts, mounting, sent>> /\ quiet

ServeFails(d) ==
    /\ drive[d] = "starting" /\ Fault("refuse")
    /\ drive' = [drive EXCEPT ![d] = "ending"]
    /\ ready' = [ready EXCEPT ![d] = "failed"]
    /\ UNCHANGED <<plan, main, queue, req, running, mounts, mounting, sent>> /\ quiet

Leaves(d) ==
    /\ drive' = [drive EXCEPT ![d] = "ending"]
    /\ Disconnect(d)
    /\ UNCHANGED <<plan, main, queue, req, running, mounts, mounting, ready, sent, copyVars>>

Closes(d)    == drive[d] = "asked" /\ Leaves(d)
IsEjected(d) == Fault("eject") /\ Served(d) /\ Leaves(d)

\* Only a drive that was ready in the table is missed by the app.
TellsAll(d) == Vault(d) \in DOMAIN mounts
Tells(d)    == Vault(d) \in DOMAIN mounts /\ mounts[Vault(d)].ready

\* ended: out of the table, and, if it was ready, the app is told.
Ended(d) ==
    /\ drive[d] = "ending"
    /\ drive' = [drive EXCEPT ![d] = IF Tells(d) THEN "telling" ELSE "finished"]
    /\ mounts' = Drop(mounts, {Vault(d)})
    /\ UNCHANGED <<plan, main, queue, req, running, mounting, ready, sent>> /\ quiet

Tell(d) ==
    /\ drive[d] = "telling"
    /\ drive' = [drive EXCEPT ![d] = "finished"]
    /\ sent' = sent \cup {d}
    /\ UNCHANGED <<plan, main, queue, req, running, mounts, mounting, ready>> /\ quiet

-------------------------------------------------------------------------------
(* Drives::unmount, of a request or of unmount_all (by force). *)

Unmounts(id) == Cmd(id) \in {"unmount", "unmountAll"}
ByForce(id)    == id = Main \/ plan.commands[id].force

Unmount(id) ==
    /\ At(id, "begin") /\ Unmounts(id) /\ main # "gone"
    /\ IF Vault(id) \in DOMAIN mounts /\ mounts[Vault(id)].ready
       THEN req' = [req EXCEPT ![id].at = IF ByForce(id) THEN "take" ELSE "count",
                               ![id].letter = mounts[Vault(id)].letter,
                               ![id].drive = mounts[Vault(id)].drive]
       ELSE Ends(id, "failed")
    /\ UNCHANGED <<plan, main, queue, running, mounts, mounting, drive, ready, sent>> /\ quiet

\* no_open_files, for up to IN_USE_GRACE.
NoOpenFiles(id) ==
    /\ At(id, "count") /\ main # "gone"
    /\ openFiles[req[id].drive] = 0
    /\ GoesTo(id, "take")
    /\ UNCHANGED <<plan, main, queue, running, mounts, mounting, drive, ready, sent>> /\ quiet

InUse(id) ==
    /\ At(id, "count") /\ main # "gone"
    /\ openFiles[req[id].drive] > 0
    /\ Ends(id, "inUse")
    /\ UNCHANGED <<plan, main, queue, running, mounts, mounting, drive, ready, sent>> /\ quiet

TakeThread(id) ==
    /\ At(id, "take") /\ main # "gone"
    /\ req' = [req EXCEPT ![id].at = "ask", ![id].thread = Stored(id)]
    /\ mounts' = IF Vault(id) \in DOMAIN mounts
                 THEN [mounts EXCEPT ![Vault(id)].thread = None] ELSE mounts
    /\ UNCHANGED <<plan, main, queue, running, mounting, drive, ready, sent>> /\ quiet

\* Without a thread to wait for, that is all.
AskToClose(id) ==
    /\ At(id, "ask") /\ main # "gone"
    /\ drive' = Ask(req[id].letter)
    /\ IF req[id].thread # None THEN GoesTo(id, "close") ELSE Ends(id, "ok")
    /\ UNCHANGED <<plan, main, queue, running, mounts, mounting, ready, sent>> /\ quiet

Closed(id) ==
    /\ At(id, "close") /\ main # "gone"
    /\ drive[req[id].thread] = "finished"
    /\ Ends(id, "ok")
    /\ UNCHANGED <<plan, main, queue, running, mounts, mounting, drive, ready, sent>> /\ quiet

\* After UNMOUNT_TIMEOUT the handle goes back to the table.
NotClosed(id) ==
    /\ At(id, "close") /\ Fault("slowClose") /\ main # "gone"
    /\ drive[req[id].thread] # "finished"
    /\ mounts' = IF Vault(id) \in DOMAIN mounts
                 THEN [mounts EXCEPT ![Vault(id)].thread = req[id].thread] ELSE mounts
    /\ Ends(id, "failed")
    /\ UNCHANGED <<plan, main, queue, running, mounting, drive, ready, sent>> /\ quiet

-------------------------------------------------------------------------------
(* Imports and exports. *)

BeginJob(id) ==
    /\ At(id, "begin") /\ Cmd(id) \in {"import", "export"} /\ main # "gone"
    /\ Begin(Cmd(id))
    /\ GoesTo(id, "work")
    /\ UNCHANGED <<plan, main, queue, running, mounts, mounting, drive, ready, sent, handlerVars>>

WorkOn(id) ==
    /\ At(id, "work") /\ main # "gone"
    /\ IF walk.phase \in {"ok", "failed"} THEN Ends(id, walk.phase) /\ UNCHANGED copyVars
       ELSE Step(running[id]) /\ UNCHANGED req
    /\ UNCHANGED <<plan, main, queue, running, mounts, mounting, drive, ready, sent, handlerVars>>

-------------------------------------------------------------------------------
(* Programs on the drives that are served, and the user in the plain folder. *)

Programs ==
    /\ \E d \in DOMAIN drive : Served(d) /\ plan.programs
                               /\ HandlerStep([id |-> d, vault |-> req[d].vault])
    /\ UNCHANGED <<helperVars, copyVars>>

User == main # "gone" /\ UserStep /\ UNCHANGED <<helperVars, handlerVars>>

-------------------------------------------------------------------------------
New(vault) == [at |-> "unsent", vault |-> vault, letter |-> None, drive |-> None,
               thread |-> None, result |-> "none"]

Init ==
    /\ plan \in Plans
    /\ main = "reading" /\ queue = {} /\ running = <<>>
    /\ req = Put([id \in Ids |-> New(plan.commands[id].vault)], Main, New(None))
    /\ mounts = <<>> /\ mounting = None /\ sent = {}
    /\ drive = [id \in {i \in Ids : Cmd(i) = "mount"} |-> "none"]
    /\ ready = [d \in DOMAIN drive |-> "nothing"]
    /\ item = [v \in Vaults |-> plan.start] /\ handles = <<>> /\ marked = {}
    /\ openFiles = [d \in DOMAIN drive |-> 0]
    /\ source = plan.source /\ copy = <<>> /\ walk = NoWalk /\ edits = plan.edits

RequestStep(id) ==
    \/ Start(id) \/ Answer(id)
    \/ MountRefused(id) \/ Mount(id) \/ KeepThread(id) \/ MountReady(id) \/ MountFails(id) \/ MountTimesOut(id)
    \/ Join(id)
    \/ Unmount(id) \/ NoOpenFiles(id) \/ InUse(id) \/ TakeThread(id) \/ AskToClose(id)
    \/ Closed(id) \/ NotClosed(id)
    \/ BeginJob(id) \/ WorkOn(id)

DriveStep(d) == Serve(d) \/ ServeFails(d) \/ Closes(d) \/ Ended(d) \/ Tell(d)

\* What the helper does by itself.
ThreadStep ==
    \/ \E id \in DOMAIN req : RequestStep(id)
    \/ \E d \in DOMAIN drive : DriveStep(d)
    \/ \E v \in queue : UnmountNext(v)
    \/ Exit

Next ==
    \/ \E id \in Ids : Receive(id) \/ Cancel(id)
    \/ StdinCloses
    \/ ThreadStep
    \/ \E d \in DOMAIN drive : IsEjected(d)
    \/ Programs \/ User

Spec == Init /\ [][Next]_vars

\* While a thread of the helper can go on, one of them does, and Dokany starts
\* a drive, or fails to, and removes it when it is asked to.  No thread can go
\* on for ever, so fairness to each of them would say no more.
FairSpec == Spec /\ WF_vars(ThreadStep)

-------------------------------------------------------------------------------
(* Properties. *)

\* Every drive that is served is in the table, under its vault and letter, so
\* that unmount and unmount_all find it: but for one whose mount timed out
\* (windows.rs:217) there is never a drive nobody can close.  Two drives never
\* serve one vault or one letter (windows.rs:101).
TableTrue ==
    \A d \in DOMAIN drive : Served(d) /\ ~At(d, "join") =>
        /\ Vault(d) \in DOMAIN mounts
        /\ mounts[Vault(d)].drive = d /\ mounts[Vault(d)].letter = req[d].letter
        /\ ServedAt(req[d].letter) = {d}

\* The app is told of the end of exactly those drives whose mount succeeded:
\* the mount's thread and the drive's own thread agree, whoever comes first
\* (windows.rs:205 and 243).
EndsTold ==
    \A d \in DOMAIN drive :
        /\ d \in sent => req[d].result = "ok"
        /\ drive[d] = "finished" /\ req[d].result = "ok" => d \in sent

\* Every request is answered, whatever runs at the same time and whoever holds
\* "mounting", or the helper ends; only a mount that timed out may wait for
\* its thread for ever, and with it those after it (windows.rs:217-224).
Stuck    == \E d \in DOMAIN drive : At(d, "join") /\ drive[d] = "serving"
Taken(id)   == id \in Ids /\ At(id, "spawned")
Replied(id) == id \in Ids /\ At(id, "replied")
Answered ==
    \A id \in UNION {DOMAIN p.commands : p \in Plans} :
        Taken(id) ~> (Replied(id) \/ main = "gone" \/ Stuck)
=================================================================================
