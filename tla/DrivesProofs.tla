------------------------------ MODULE DrivesProofs ------------------------------
(***************************************************************************)
(* What Drives and DriveHandler promise, proved for every set of plans,    *)
(* vaults, letters and handles.                                            *)
(***************************************************************************)
EXTENDS Drives, FiniteSetTheorems, TLAPS

\* The vaults of failing mounts are mounted by one request, or closed by none:
\* the app sends one request of a vault at a time, and without this an unmount
\* can outlive its drive and take the thread of the next mount from the table
\* (windows.rs:272), which that mount needs when it fails (windows.rs:230).
MayFail(p)   == "refuse" \in p.faults \/ "slowMount" \in p.faults
MountsOf(p, v) == {id \in DOMAIN p.commands : p.commands[id].cmd = "mount"
                                              /\ p.commands[id].vault = v}
UnmountsOf(p, v) == {id \in DOMAIN p.commands : p.commands[id].cmd = "unmount"
                                                /\ p.commands[id].vault = v}
SteadyPlan(p) ==
    MayFail(p) => \A v \in Vaults :
        \/ \A d, e \in MountsOf(p, v) : d = e
        \/ UnmountsOf(p, v) = {} /\ "close" \notin p.faults
Steady == \A p \in Plans : SteadyPlan(p)

-------------------------------------------------------------------------------
(* The inductive invariant of the table of mounts.                         *)

DriveIds == {id \in Ids : plan.commands[id].cmd = "mount"}
ReqIds   == Ids \cup {Main}
Steps == {"unsent", "spawned", "begin", "keep", "wait", "join", "count", "take", "ask",
          "close", "work", "answer", "replied"}
Results == {"none", "ok", "failed", "inUse"}
DriveStates == {"none", "starting", "serving", "asked", "ending", "telling", "finished", "gone"}
LetterSet == {Letters[i] : i \in DOMAIN Letters} \cup {None}
Request == [at : Steps, vault : Vaults \cup {None}, letter : LetterSet,
            drive : DriveIds \cup {None}, thread : DriveIds \cup {None}, result : Results]
Entries == [drive : DriveIds, letter : LetterSet, ready : BOOLEAN, thread : DriveIds \cup {None}]

\* Everything has its type, and the requests of a plan their vaults.
TypesTrue ==
    /\ plan \in Plans /\ main \in {"reading", "closing", "gone"}
    /\ req \in [ReqIds -> Request]
    /\ \A id \in Ids : req[id].vault = plan.commands[id].vault
    /\ queue \subseteq Vaults /\ DOMAIN mounts \subseteq Vaults
    /\ mounts \in [DOMAIN mounts -> Entries]
    /\ mounting \in DriveIds \cup {None}
    /\ drive \in [DriveIds -> DriveStates]
    /\ ready \in [DriveIds -> {"nothing", "ready", "failed"}]
    /\ sent \subseteq DriveIds

InMount(d)  == req[d].at \in {"keep", "wait", "join"}
Before(d)   == req[d].at \in {"unsent", "spawned", "begin"}
Alive(d)    == drive[d] \in {"starting", "serving", "asked", "ending"}
Listed(d)   == Vault(d) \in DOMAIN mounts /\ mounts[Vault(d)].drive = d

\* How far a request is fits its command, and its drive how far its mount is.
PhasesTrue ==
    /\ \A id \in ReqIds : InMount(id) => id \in DriveIds
    /\ \A d \in DriveIds : ~At(d, "work")
    /\ \A id \in ReqIds : req[id].at \in {"count", "take", "ask", "close"}
                            => Unmounts(id) /\ Vault(id) \in Vaults
    /\ main # "gone" /\ \A d \in DriveIds : drive[d] # "gone"
    /\ \A d \in DriveIds : Before(d) => drive[d] = "none"
    /\ \A d \in DriveIds : Before(d) \/ InMount(d) => req[d].result = "none"
    /\ \A d \in DriveIds : InMount(d) => drive[d] \notin {"none", "telling"}

\* "mounting" is held by the one mount under way, and only its drive starts.
LockTrue ==
    /\ \A d \in DriveIds : InMount(d) <=> mounting = d
    /\ \A d \in DriveIds : drive[d] = "starting" => mounting = d
    /\ \A d \in DriveIds : drive[d] \in {"none", "starting"} => ready[d] = "nothing"

\* The table has the drives that are alive, but for one of a mount that failed.
ListTrue ==
    /\ \A d \in DriveIds : Alive(d) /\ ~At(d, "join") => Listed(d)
    /\ \A d \in DriveIds : At(d, "join") => Vault(d) \notin DOMAIN mounts
    /\ \A d \in DriveIds : Listed(d) =>
          /\ Alive(d) /\ ~At(d, "join")
          /\ mounts[Vault(d)].letter = req[d].letter
          /\ mounts[Vault(d)].ready <=> req[d].result = "ok"
    /\ \A d \in DriveIds : InMount(d) /\ Vault(d) \in DOMAIN mounts => Listed(d)
    /\ \A v \in DOMAIN mounts : Vault(mounts[v].drive) = v

\* A drive starts at a letter nothing is served at.
LettersTrue ==
    /\ \A d \in DriveIds : drive[d] = "starting" => ServedAt(req[d].letter) = {}
    /\ \A d, e \in DriveIds :
          Served(d) /\ Served(e) /\ req[d].letter = req[e].letter => d = e

\* The thread of a mount that may fail is with the mount, or in the table.
ThreadsTrue ==
    /\ \A d \in DriveIds : Before(d) \/ At(d, "keep") => req[d].thread = None
    /\ \A d \in DriveIds : At(d, "wait") => req[d].thread \in {None, d}
    /\ \A d \in DriveIds : At(d, "join") => req[d].thread = d \/ drive[d] = "finished"
    /\ \A d \in DriveIds :
          MayFail(plan) /\ At(d, "wait") /\ Listed(d) => mounts[Vault(d)].thread = d

\* An unmount that has begun found a drive whose mount had succeeded.
UnmountsTrue ==
    /\ \A id \in ReqIds : req[id].at \in {"count", "take", "ask", "close"} =>
          /\ req[id].drive \in DriveIds
          /\ Vault(req[id].drive) = Vault(id) /\ req[req[id].drive].result = "ok"
    /\ main = "reading" => At(Main, "unsent")
    /\ main # "reading" => Fault("close")
    /\ \A d \in DriveIds : ready[d] = "failed" => Fault("refuse")

\* The drives the app was told of.
ToldTrue ==
    /\ \A d \in DriveIds : drive[d] = "telling" => req[d].result = "ok"
    /\ \A d \in DriveIds : drive[d] = "finished" /\ req[d].result = "ok" => d \in sent
    /\ \A d \in sent : req[d].result = "ok"

Ongoing ==
    /\ TypesTrue /\ PhasesTrue /\ LockTrue /\ ListTrue /\ LettersTrue /\ ThreadsTrue
    /\ UnmountsTrue /\ ToldTrue

AllGone ==
    /\ TypesTrue /\ main = "gone"
    /\ \A d \in DriveIds : drive[d] = "gone"
    /\ \A d \in sent : req[d].result = "ok"

TableInv == Ongoing \/ AllGone

-------------------------------------------------------------------------------
\* What the plan says of the requests.
LEMMA PlanFacts ==
    ASSUME TypesTrue
    PROVE  /\ SoundPlan(plan) /\ Main \notin Ids /\ None \notin ReqIds /\ DriveIds \subseteq Ids
           /\ \A id \in Ids : Vault(id) = plan.commands[id].vault /\ Vault(id) \in Vaults
           /\ \A id \in ReqIds : Cmd(id) = "mount" <=> id \in DriveIds
           /\ \A id \in DriveIds : ~Unmounts(id)
           /\ Main \in ReqIds /\ Ids \subseteq ReqIds /\ None \notin DriveIds
  BY PlansAssumption DEF TypesTrue, SoundPlan, Ids, DriveIds, ReqIds, Vault, Cmd, Unmounts

LEMMA SamePlan ==
    plan' = plan => /\ DriveIds' = DriveIds /\ ReqIds' = ReqIds /\ Ids' = Ids
                    /\ Entries' = Entries /\ Request' = Request
  BY DEF DriveIds, ReqIds, Ids, Entries, Request

InUnmount(id) == req[id].at \in {"count", "take", "ask", "close"}

\* What a step of request id leaves alone of the requests.
Moves(id, a, r) ==
    /\ req' \in [ReqIds -> Request]
    /\ \A i \in ReqIds : i # id => req'[i] = req[i]
    /\ req'[id].at = a /\ req'[id].result = r /\ req'[id].vault = req[id].vault

SameVars(id) == /\ req'[id].letter = req[id].letter
                /\ req'[id].drive = req[id].drive /\ req'[id].thread = req[id].thread

\* What GoesTo and Ends do to a request.
LEMMA Going ==
    ASSUME NEW id \in ReqIds, req \in [ReqIds -> Request], NEW a \in Steps, GoesTo(id, a)
    PROVE  Moves(id, a, req[id].result) /\ SameVars(id)
<1>1. req[id] \in Request /\ DOMAIN req = ReqIds
  OBVIOUS
<1>2. [req[id] EXCEPT !.at = a] \in Request
  BY <1>1 DEF Request
<1> QED BY <1>1, <1>2 DEF GoesTo, Moves, SameVars, Request

LEMMA Ending ==
    ASSUME NEW id \in ReqIds, req \in [ReqIds -> Request], NEW r \in Results, Ends(id, r)
    PROVE  Moves(id, "answer", r) /\ SameVars(id)
<1>1. req[id] \in Request /\ DOMAIN req = ReqIds
  OBVIOUS
<1>2. [req[id] EXCEPT !.at = "answer", !.result = r] \in Request
  BY <1>1 DEF Request, Steps
<1> QED BY <1>1, <1>2 DEF Ends, Moves, SameVars, Request

\* The table after a step that marks an entry as ready, or changes its thread.
LEMMA Ticks ==
    ASSUME mounts \in [DOMAIN mounts -> Entries], NEW v,
           IF v \in DOMAIN mounts THEN mounts' = [mounts EXCEPT ![v].ready = TRUE]
           ELSE UNCHANGED mounts
    PROVE  /\ DOMAIN mounts' = DOMAIN mounts /\ mounts' \in [DOMAIN mounts' -> Entries]
           /\ \A w \in DOMAIN mounts : w # v => mounts'[w] = mounts[w]
           /\ v \in DOMAIN mounts => /\ mounts'[v].ready = TRUE
                                     /\ mounts'[v].drive = mounts[v].drive
                                     /\ mounts'[v].letter = mounts[v].letter
                                     /\ mounts'[v].thread = mounts[v].thread
<1>1. CASE v \in DOMAIN mounts
  <2>1. mounts[v] \in Entries
    BY <1>1
  <2>2. [mounts[v] EXCEPT !.ready = TRUE] \in Entries
    BY <2>1 DEF Entries
  <2> QED BY <1>1, <2>1, <2>2 DEF Entries
<1> QED BY <1>1

LEMMA Takes ==
    ASSUME mounts \in [DOMAIN mounts -> Entries], NEW v, NEW t \in DriveIds \cup {None},
           mounts' = IF v \in DOMAIN mounts THEN [mounts EXCEPT ![v].thread = t] ELSE mounts
    PROVE  /\ DOMAIN mounts' = DOMAIN mounts /\ mounts' \in [DOMAIN mounts' -> Entries]
           /\ \A w \in DOMAIN mounts : w # v => mounts'[w] = mounts[w]
           /\ v \in DOMAIN mounts => /\ mounts'[v].thread = t
                                     /\ mounts'[v].drive = mounts[v].drive
                                     /\ mounts'[v].letter = mounts[v].letter
                                     /\ mounts'[v].ready = mounts[v].ready
<1>1. CASE v \in DOMAIN mounts
  <2>1. mounts[v] \in Entries
    BY <1>1
  <2>2. [mounts[v] EXCEPT !.thread = t] \in Entries
    BY <2>1 DEF Entries
  <2> QED BY <1>1, <2>1, <2>2 DEF Entries
<1> QED BY <1>1

\* The table, the drives and the main thread are left alone.
SameTable == UNCHANGED <<plan, main, queue, mounts, mounting, drive, ready, sent>>

\* A request that moves on, without a table or drive that changes.
LEMMA MovesKeep ==
    ASSUME Ongoing, NEW id \in ReqIds, NEW a \in Steps, NEW r \in Results,
           Moves(id, a, r), SameVars(id), SameTable,
           ~InMount(id), a \notin {"keep", "wait", "join"},
           a \in {"count", "take", "ask", "close"} => InUnmount(id),
           id \in DriveIds => a # "work",
           id \in DriveIds /\ a \in {"unsent", "spawned", "begin"} => Before(id)
            /\ r = req[id].result,
           id \in DriveIds /\ r # req[id].result => Before(id) /\ r = "failed",
           id = Main /\ main = "reading" => a = "unsent"
    PROVE  Ongoing'
<1> USE DEF DriveIds, ReqIds
<1>1. UNCHANGED <<plan, main, queue, mounts, mounting, drive, ready, sent>> /\ Ids' = Ids
  BY DEF SameTable, Ids
<1>2. TypesTrue'
  BY <1>1 DEF Ongoing, TypesTrue, Entries, Request, Moves
<1>3. PhasesTrue'
  BY <1>1 DEF Ongoing, PhasesTrue, InMount, Before, InUnmount, Unmounts, Cmd, Moves, Vault, At
<1>4. LockTrue'
  BY <1>1 DEF Ongoing, LockTrue, InMount, Moves
<1>5. ListTrue'
  BY <1>1 DEF Ongoing, ListTrue, PhasesTrue, InMount, Before, Listed, Alive, TypesTrue, Entries,
     Moves, SameVars, Vault, At
<1>6. LettersTrue'
  BY <1>1 DEF Ongoing, LettersTrue, ServedAt, Served, TypesTrue, Moves, SameVars
<1>7. ThreadsTrue'
  BY <1>1 DEF Ongoing, ThreadsTrue, Listed, Before, Moves, SameVars, Vault, At
<1>8. UnmountsTrue'
  BY <1>1 DEF Ongoing, UnmountsTrue, PhasesTrue, InUnmount, Fault, Moves, SameVars, Vault, At
<1>9. ToldTrue'
  BY <1>1 DEF Ongoing, ToldTrue, PhasesTrue, TypesTrue, Moves
<1> QED BY <1>2, <1>3, <1>4, <1>5, <1>6, <1>7, <1>8, <1>9 DEF Ongoing

\* The steps of a request that leave the table and the drives alone.
LEMMA QuietSteps ==
    ASSUME Ongoing, NEW id \in ReqIds,
           \/ id \in Ids /\ (Receive(id) \/ Cancel(id))
           \/ Start(id) \/ Answer(id) \/ MountRefused(id) \/ NoOpenFiles(id) \/ InUse(id)
           \/ Closed(id) \/ BeginJob(id) \/ WorkOn(id)
    PROVE  Ongoing'
<1> USE DEF Steps, Results
<1>1. TypesTrue /\ req \in [ReqIds -> Request] /\ req[id] \in Request
  BY DEF Ongoing, TypesTrue
<1>2. req[id].result \in Results
  BY <1>1 DEF Request
<1>3. /\ InMount(id) => id \in DriveIds
      /\ id \in DriveIds => ~At(id, "work") /\ ~InUnmount(id)
      /\ id \notin DriveIds => ~InMount(id)
      /\ main = "reading" => At(Main, "unsent")
      /\ id \in Ids => id # Main
  BY PlanFacts DEF Ongoing, PhasesTrue, UnmountsTrue, InUnmount
<1>4. CASE id \in Ids /\ Receive(id)
  <2>1. Moves(id, "spawned", req[id].result) /\ SameVars(id)
    BY <1>4, <1>1, Going DEF Receive
  <2>2. SameTable
    BY <1>4 DEF Receive, SameTable
  <2> QED BY <1>4, <1>1, <1>2, <1>3, <2>1, <2>2, PlanFacts, MovesKeep
          DEF Receive, At, InMount, InUnmount, Before
<1>5. CASE id \in Ids /\ Cancel(id)
  <2>1. Moves(id, "replied", req[id].result) /\ SameVars(id)
    BY <1>5, <1>1, Going DEF Cancel, GoesTo
  <2>2. SameTable
    BY <1>5 DEF Cancel, SameTable
  <2> QED BY <1>5, <1>1, <1>2, <1>3, <2>1, <2>2, PlanFacts, MovesKeep
          DEF Cancel, At, InMount, InUnmount, Before
<1>6. CASE Start(id)
  <2>1. Moves(id, "begin", req[id].result) /\ SameVars(id)
    BY <1>6, <1>1, Going DEF Start
  <2>2. SameTable
    BY <1>6 DEF Start, SameTable
  <2> QED BY <1>6, <1>1, <1>2, <1>3, <2>1, <2>2, PlanFacts, MovesKeep
          DEF Start, At, InMount, InUnmount, Before
<1>7. CASE Answer(id)
  <2>1. Moves(id, IF id = Main THEN "unsent" ELSE "replied", req[id].result) /\ SameVars(id)
    BY <1>7, <1>1, Going DEF Answer
  <2>2. SameTable
    BY <1>7 DEF Answer, SameTable
  <2> QED BY <1>7, <1>1, <1>2, <1>3, <2>1, <2>2, PlanFacts, MovesKeep
          DEF Answer, At, InMount, InUnmount, Before
<1>8. CASE MountRefused(id)
  <2>1. Moves(id, "answer", "failed") /\ SameVars(id)
    BY <1>8, <1>1, Ending DEF MountRefused
  <2>2. SameTable
    BY <1>8 DEF MountRefused, SameTable
  <2> QED BY <1>8, <1>1, <1>2, <1>3, <2>1, <2>2, PlanFacts, MovesKeep
          DEF MountRefused, At, InMount, InUnmount, Before
<1>9. CASE NoOpenFiles(id)
  <2>1. Moves(id, "take", req[id].result) /\ SameVars(id)
    BY <1>9, <1>1, Going DEF NoOpenFiles
  <2>2. SameTable
    BY <1>9 DEF NoOpenFiles, SameTable
  <2> QED BY <1>9, <1>1, <1>2, <1>3, <2>1, <2>2, PlanFacts, MovesKeep
          DEF NoOpenFiles, At, InMount, InUnmount, Before
<1>10. CASE InUse(id)
  <2>1. Moves(id, "answer", "inUse") /\ SameVars(id)
    BY <1>10, <1>1, Ending DEF InUse
  <2>2. SameTable
    BY <1>10 DEF InUse, SameTable
  <2> QED BY <1>10, <1>1, <1>2, <1>3, <2>1, <2>2, PlanFacts, MovesKeep
          DEF InUse, At, InMount, InUnmount, Before
<1>11. CASE Closed(id)
  <2>1. Moves(id, "answer", "ok") /\ SameVars(id)
    BY <1>11, <1>1, Ending DEF Closed
  <2>2. SameTable
    BY <1>11 DEF Closed, SameTable
  <2> QED BY <1>11, <1>1, <1>2, <1>3, <2>1, <2>2, PlanFacts, MovesKeep
          DEF Closed, At, InMount, InUnmount, Before
<1>12. CASE BeginJob(id)
  <2>1. Moves(id, "work", req[id].result) /\ SameVars(id)
    BY <1>12, <1>1, Going DEF BeginJob
  <2>2. SameTable
    BY <1>12 DEF BeginJob, SameTable
  <2> QED BY <1>12, <1>1, <1>2, <1>3, <2>1, <2>2, PlanFacts, MovesKeep
          DEF BeginJob, At, InMount, InUnmount, Before
<1>13. CASE WorkOn(id) /\ walk.phase \in {"ok", "failed"}
  <2>1. Moves(id, "answer", walk.phase) /\ SameVars(id)
    BY <1>13, <1>1, Ending DEF WorkOn
  <2>2. SameTable
    BY <1>13 DEF WorkOn, SameTable
  <2> QED BY <1>13, <1>1, <1>2, <1>3, <2>1, <2>2, PlanFacts, MovesKeep
          DEF WorkOn, At, InMount, InUnmount, Before
<1>14. CASE WorkOn(id) /\ walk.phase \notin {"ok", "failed"}
  <2>1. Moves(id, "work", req[id].result) /\ SameVars(id)
    BY <1>14, <1>1 DEF WorkOn, Moves, SameVars, At
  <2>2. SameTable
    BY <1>14 DEF WorkOn, SameTable
  <2> QED BY <1>14, <1>1, <1>2, <1>3, <2>1, <2>2, PlanFacts, MovesKeep
          DEF WorkOn, At, InMount, InUnmount, Before
<1> QED BY <1>4, <1>5, <1>6, <1>7, <1>8, <1>9, <1>10, <1>11, <1>12, <1>13, <1>14

-------------------------------------------------------------------------------
(* The steps that change the table or a drive, one at a time. *)

LEMMA MountFailsKeeps ==
    ASSUME Ongoing, NEW id \in ReqIds, MountFails(id) PROVE Ongoing'
<1>1. TypesTrue /\ (\A v \in DOMAIN mounts : mounts[v].drive \in DriveIds)
      /\ req[id] \in Request /\ DOMAIN req = ReqIds /\ None \notin DriveIds
      /\ DriveIds \subseteq Ids /\ ReqIds = Ids \cup {Main} /\ Main \notin Ids
  BY PlanFacts DEF Ongoing, TypesTrue, Entries, ReqIds
<1>2. id \in DriveIds /\ mounting = id /\ At(id, "wait") /\ ready[id] = "failed"
      /\ MayFail(plan) /\ req[id].result = "none" /\ id \in Ids
  BY <1>1 DEF MountFails, Ongoing, PhasesTrue, LockTrue, InMount, UnmountsTrue, Fault, MayFail, At
<1>3. UNCHANGED <<plan, main, queue, mounting, drive, ready, sent>>
      /\ DriveIds' = DriveIds /\ ReqIds' = ReqIds /\ Ids' = Ids /\ Entries' = Entries
          /\ Request' = Request
  BY SamePlan DEF MountFails
<1>4. /\ DOMAIN mounts' = DOMAIN mounts \ {Vault(id)}
      /\ \A v \in DOMAIN mounts' : mounts'[v] = mounts[v]
      /\ mounts' \in [DOMAIN mounts' -> Entries]
  BY <1>1 DEF MountFails, Forget, Drop, TypesTrue
<1>5. Stored(id) \in DriveIds \cup {None}
  BY <1>1 DEF TypesTrue, Entries, Stored
<1>6. /\ Moves(id, "join", "none") /\ req'[id].letter = req[id].letter
          /\ req'[id].drive = req[id].drive
      /\ req'[id].thread = IF req[id].thread # None THEN req[id].thread ELSE Stored(id)
  BY <1>1, <1>2, <1>5 DEF MountFails, Forget, TypesTrue, Request, Steps, Moves
<1>7. TypesTrue'
  BY <1>1, <1>3, <1>4, <1>6 DEF TypesTrue, Moves
<1>8. PhasesTrue'
  BY <1>1, <1>2, <1>3, <1>4, <1>5, <1>6 DEF Ongoing, PhasesTrue, InMount, Before, Unmounts, Cmd,
     Vault, At, Moves
<1>9. LockTrue'
  BY <1>1, <1>2, <1>3, <1>4, <1>6 DEF Ongoing, LockTrue, InMount, Moves
<1>10. ListTrue'
  BY <1>1, <1>2, <1>3, <1>4, <1>5, <1>6 DEF Ongoing, ListTrue, InMount, Listed, Alive, Vault, At,
     Moves
<1>11. LettersTrue'
  BY <1>1, <1>2, <1>3, <1>6 DEF Ongoing, LettersTrue, ServedAt, Served, TypesTrue, Moves
<1>12. ThreadsTrue'
  BY <1>1, <1>2, <1>3, <1>4, <1>5, <1>6 DEF Ongoing, ThreadsTrue, ListTrue, LockTrue, PhasesTrue,
     Listed, Alive, Before, TypesTrue, DriveStates, At, Stored, Moves
<1>13. UnmountsTrue'
  BY <1>1, <1>2, <1>3, <1>4, <1>5, <1>6 DEF Ongoing, UnmountsTrue, Fault, Vault, At, Moves
<1>14. ToldTrue'
  BY <1>1, <1>2, <1>3, <1>4, <1>6 DEF Ongoing, ToldTrue, TypesTrue, Moves
<1> QED BY <1>7, <1>8, <1>9, <1>10, <1>11, <1>12, <1>13, <1>14 DEF Ongoing

LEMMA MountTimesOutKeeps ==
    ASSUME Ongoing, NEW id \in ReqIds, MountTimesOut(id) PROVE Ongoing'
<1>1. TypesTrue /\ (\A v \in DOMAIN mounts : mounts[v].drive \in DriveIds)
      /\ req[id] \in Request /\ DOMAIN req = ReqIds /\ None \notin DriveIds
      /\ DriveIds \subseteq Ids /\ ReqIds = Ids \cup {Main} /\ Main \notin Ids
  BY PlanFacts DEF Ongoing, TypesTrue, Entries, ReqIds
<1>2. id \in DriveIds /\ mounting = id /\ At(id, "wait")
      /\ MayFail(plan) /\ req[id].result = "none" /\ id \in Ids
  BY <1>1 DEF MountTimesOut, Ongoing, PhasesTrue, LockTrue, InMount, Fault, MayFail, At
<1>3. UNCHANGED <<plan, main, queue, mounting, ready, sent>>
      /\ DriveIds' = DriveIds /\ ReqIds' = ReqIds /\ Ids' = Ids /\ Entries' = Entries
          /\ Request' = Request
  BY SamePlan DEF MountTimesOut
<1>4. /\ DOMAIN mounts' = DOMAIN mounts \ {Vault(id)}
      /\ \A v \in DOMAIN mounts' : mounts'[v] = mounts[v]
      /\ mounts' \in [DOMAIN mounts' -> Entries]
  BY <1>1 DEF MountTimesOut, Forget, Drop, TypesTrue
<1>5. Stored(id) \in DriveIds \cup {None}
  BY <1>1 DEF TypesTrue, Entries, Stored
<1>6. /\ Moves(id, "join", "none") /\ req'[id].letter = req[id].letter
          /\ req'[id].drive = req[id].drive
      /\ req'[id].thread = IF req[id].thread # None THEN req[id].thread ELSE Stored(id)
  BY <1>1, <1>2, <1>5 DEF MountTimesOut, Forget, TypesTrue, Request, Steps, Moves
<1>7. \A d \in DriveIds : drive'[d] = IF Served(d)
       /\ req[d].letter = req[id].letter THEN "asked" ELSE drive[d]
  BY <1>1 DEF MountTimesOut, Ask, TypesTrue, ServedAt
<1>8. drive' \in [DriveIds -> DriveStates]
  BY <1>1 DEF MountTimesOut, Ask, TypesTrue, DriveStates
<1>9. TypesTrue'
  BY <1>1, <1>2, <1>3, <1>4, <1>6, <1>8 DEF TypesTrue, Moves
<1>10. PhasesTrue'
  BY <1>1, <1>2, <1>3, <1>4, <1>5, <1>6, <1>7, <1>8 DEF Ongoing, PhasesTrue, InMount, Before,
     Unmounts, Cmd, Vault, At, Moves, Served
<1>11. LockTrue'
  BY <1>1, <1>2, <1>3, <1>4, <1>5, <1>6, <1>7 DEF Ongoing, LockTrue, InMount, Moves
<1>12. ListTrue'
  BY <1>1, <1>2, <1>3, <1>4, <1>5, <1>6, <1>7, <1>8 DEF Ongoing, ListTrue, InMount, Listed, Alive,
     Vault, At, Moves, Served
<1>13. LettersTrue'
  BY <1>1, <1>2, <1>3, <1>4, <1>5, <1>6, <1>7, <1>8 DEF Ongoing, LettersTrue, ServedAt, Served,
     TypesTrue, Moves
<1>14. ThreadsTrue'
  BY <1>1, <1>2, <1>3, <1>4, <1>5, <1>6, <1>7, <1>8 DEF Ongoing, ThreadsTrue, ListTrue, LockTrue,
     PhasesTrue, Listed, Alive, Before, DriveStates, At, Stored, Moves, Served
<1>15. UnmountsTrue'
  BY <1>1, <1>2, <1>3, <1>4, <1>5, <1>6, <1>7, <1>8 DEF Ongoing, UnmountsTrue, Fault, Vault, At,
     Moves
<1>16. ToldTrue'
  BY <1>1, <1>2, <1>3, <1>4, <1>5, <1>6, <1>7 DEF Ongoing, ToldTrue, TypesTrue, Moves
<1> QED BY <1>9, <1>10, <1>11, <1>12, <1>13, <1>14, <1>15, <1>16 DEF Ongoing

LEMMA JoinKeeps ==
    ASSUME Ongoing, NEW id \in ReqIds, Join(id) PROVE Ongoing'
<1>1. TypesTrue /\ (\A v \in DOMAIN mounts : mounts[v].drive \in DriveIds)
      /\ req[id] \in Request /\ DOMAIN req = ReqIds /\ None \notin DriveIds
      /\ DriveIds \subseteq Ids /\ ReqIds = Ids \cup {Main} /\ Main \notin Ids
  BY PlanFacts DEF Ongoing, TypesTrue, Entries, ReqIds
<1>2. id \in DriveIds /\ mounting = id /\ At(id, "join") /\ drive[id] = "finished"
  BY <1>1 DEF Join, Ongoing, PhasesTrue, LockTrue, InMount, At, ThreadsTrue
<1>3. UNCHANGED <<plan, main, queue, mounts, drive, ready, sent>> /\ mounting' = None
      /\ DriveIds' = DriveIds /\ ReqIds' = ReqIds /\ Ids' = Ids /\ Entries' = Entries
          /\ Request' = Request
  BY SamePlan DEF Join
<1>4. Moves(id, "answer", "failed") /\ SameVars(id)
  BY <1>1, Ending DEF TypesTrue, Join, Results
<1>5. TypesTrue'
  BY <1>1, <1>3, <1>4 DEF TypesTrue, Moves
<1>6. PhasesTrue'
  BY <1>1, <1>2, <1>3, <1>4 DEF Ongoing, PhasesTrue, InMount, Before, Unmounts, Cmd, Vault, At,
     Moves
<1>7. LockTrue'
  BY <1>1, <1>2, <1>3, <1>4 DEF Ongoing, LockTrue, InMount, Moves
<1>8. ListTrue'
  BY <1>1, <1>2, <1>3, <1>4 DEF Ongoing, ListTrue, InMount, Listed, Alive, Vault, At, Moves
<1>9. LettersTrue'
  BY <1>1, <1>2, <1>3, <1>4 DEF Ongoing, LettersTrue, ServedAt, Served, TypesTrue, Moves
<1>10. ThreadsTrue'
  BY <1>1, <1>2, <1>3, <1>4 DEF Ongoing, ThreadsTrue, ListTrue, LockTrue, PhasesTrue, Listed,
     Before, At, Moves
<1>11. UnmountsTrue'
  BY <1>1, <1>2, <1>3, <1>4 DEF Ongoing, UnmountsTrue, PhasesTrue, InMount, Fault, Vault, At, Moves
<1>12. ToldTrue'
  BY <1>1, <1>2, <1>3, <1>4 DEF Ongoing, ToldTrue, PhasesTrue, TypesTrue, InMount, At, Moves
<1> QED BY <1>5, <1>6, <1>7, <1>8, <1>9, <1>10, <1>11, <1>12 DEF Ongoing

LEMMA MountReadyKeeps ==
    ASSUME Ongoing, NEW id \in ReqIds, MountReady(id) PROVE Ongoing'
<1>1. TypesTrue /\ (\A v \in DOMAIN mounts : mounts[v].drive \in DriveIds)
      /\ req[id] \in Request /\ DOMAIN req = ReqIds /\ None \notin DriveIds
      /\ DriveIds \subseteq Ids /\ ReqIds = Ids \cup {Main} /\ Main \notin Ids
  BY PlanFacts DEF Ongoing, TypesTrue, Entries, ReqIds
<1>2. id \in DriveIds /\ mounting = id /\ At(id, "wait") /\ id \in Ids /\ Vault(id) \in Vaults
      /\ drive[id] # "starting" /\ (Vault(id) \in DOMAIN mounts => Listed(id) /\ Alive(id))
  BY PlanFacts DEF MountReady, Ongoing, PhasesTrue, LockTrue, InMount, At, ListTrue
<1>3. UNCHANGED <<plan, main, queue, drive, ready, sent>> /\ mounting' = None
      /\ DriveIds' = DriveIds /\ ReqIds' = ReqIds /\ Ids' = Ids /\ Entries' = Entries
          /\ Request' = Request
  BY SamePlan DEF MountReady
<1>4. /\ DOMAIN mounts' = DOMAIN mounts
      /\ \A v \in DOMAIN mounts : v # Vault(id) => mounts'[v] = mounts[v]
      /\ Vault(id) \in DOMAIN mounts =>
            /\ mounts'[Vault(id)].ready = TRUE /\ mounts'[Vault(id)].drive = mounts[Vault(id)].drive
            /\ mounts'[Vault(id)].letter = mounts[Vault(id)].letter
                /\ mounts'[Vault(id)].thread = mounts[Vault(id)].thread
      /\ mounts' \in [DOMAIN mounts' -> Entries]
  BY <1>1, Ticks DEF MountReady, TypesTrue
<1>5. Moves(id, "answer", IF Vault(id) \in DOMAIN mounts THEN "ok" ELSE "failed") /\ SameVars(id)
  BY <1>1, Ending DEF TypesTrue, MountReady, Results
<1>6. TypesTrue'
  BY <1>1, <1>3, <1>4, <1>5 DEF TypesTrue, Moves
<1>7. PhasesTrue'
  BY <1>1, <1>2, <1>3, <1>4, <1>5 DEF Ongoing, PhasesTrue, InMount, Before, Unmounts, Cmd, Vault,
     At, Moves
<1>8. LockTrue'
  BY <1>1, <1>2, <1>3, <1>4, <1>5 DEF Ongoing, LockTrue, InMount, Moves
<1>9. ListTrue'
  BY <1>1, <1>2, <1>3, <1>4, <1>5 DEF Ongoing, ListTrue, InMount, Listed, Alive, Vault, At, Moves,
     SameVars
<1>10. LettersTrue'
  BY <1>1, <1>2, <1>3, <1>5 DEF Ongoing, LettersTrue, ServedAt, Served, TypesTrue, Moves, SameVars
<1>11. ThreadsTrue'
  BY <1>1, <1>2, <1>3, <1>4, <1>5 DEF Ongoing, ThreadsTrue, ListTrue, LockTrue, PhasesTrue,
     Listed, Before, Vault, At, Moves
<1>12. UnmountsTrue'
  BY <1>1, <1>2, <1>3, <1>4, <1>5 DEF Ongoing, UnmountsTrue, PhasesTrue, InMount, Fault, Vault,
     At, Moves
<1>13. ToldTrue'
  BY <1>1, <1>2, <1>3, <1>4, <1>5 DEF Ongoing, ToldTrue, PhasesTrue, TypesTrue, InMount, At,
     Moves, Alive
<1> QED BY <1>6, <1>7, <1>8, <1>9, <1>10, <1>11, <1>12, <1>13 DEF Ongoing

LEMMA KeepThreadKeeps ==
    ASSUME Ongoing, NEW id \in ReqIds, KeepThread(id) PROVE Ongoing'
<1>1. TypesTrue /\ (\A v \in DOMAIN mounts : mounts[v].drive \in DriveIds)
      /\ req[id] \in Request /\ DOMAIN req = ReqIds /\ None \notin DriveIds
      /\ DriveIds \subseteq Ids /\ ReqIds = Ids \cup {Main} /\ Main \notin Ids
  BY PlanFacts DEF Ongoing, TypesTrue, Entries, ReqIds
<1>2. id \in DriveIds /\ mounting = id /\ At(id, "keep") /\ id \in Ids /\ Vault(id) \in Vaults
  BY PlanFacts DEF KeepThread, Ongoing, PhasesTrue, LockTrue, InMount, At
<1>3. UNCHANGED <<plan, main, queue, drive, ready, sent, mounting>>
      /\ DriveIds' = DriveIds /\ ReqIds' = ReqIds /\ Ids' = Ids /\ Entries' = Entries
          /\ Request' = Request
  BY SamePlan DEF KeepThread
<1>4. /\ DOMAIN mounts' = DOMAIN mounts
      /\ \A v \in DOMAIN mounts : v # Vault(id) => mounts'[v] = mounts[v]
      /\ Vault(id) \in DOMAIN mounts =>
            /\ mounts'[Vault(id)].ready = mounts[Vault(id)].ready
                /\ mounts'[Vault(id)].drive = mounts[Vault(id)].drive
            /\ mounts'[Vault(id)].letter = mounts[Vault(id)].letter
                /\ mounts'[Vault(id)].thread = id
      /\ mounts' \in [DOMAIN mounts' -> Entries]
  BY <1>1, <1>2, Takes DEF KeepThread, TypesTrue
<1>5. /\ Moves(id, "wait", req[id].result) /\ req'[id].letter = req[id].letter
          /\ req'[id].drive = req[id].drive
      /\ req'[id].thread = IF Vault(id) \in DOMAIN mounts THEN None ELSE id
  BY <1>1 DEF KeepThread, Moves, Request, Steps, TypesTrue
<1>6. TypesTrue'
  BY <1>1, <1>3, <1>4, <1>5 DEF TypesTrue, Moves
<1>7. PhasesTrue'
  BY <1>1, <1>2, <1>3, <1>4, <1>5 DEF Ongoing, PhasesTrue, InMount, Before, Unmounts, Cmd, Vault,
     At, Moves
<1>8. LockTrue'
  BY <1>1, <1>2, <1>3, <1>5 DEF Ongoing, LockTrue, InMount, Moves
<1>9. ListTrue'
  BY <1>1, <1>2, <1>3, <1>4, <1>5 DEF Ongoing, ListTrue, InMount, Listed, Alive, Vault, At, Moves
<1>10. LettersTrue'
  BY <1>1, <1>2, <1>3, <1>5 DEF Ongoing, LettersTrue, ServedAt, Served, TypesTrue, Moves
<1>11. ThreadsTrue'
  BY <1>1, <1>2, <1>3, <1>4, <1>5 DEF Ongoing, ThreadsTrue, ListTrue, LockTrue, PhasesTrue,
     Listed, Before, At, MayFail, Moves
<1>12. UnmountsTrue'
  BY <1>1, <1>2, <1>3, <1>4, <1>5 DEF Ongoing, UnmountsTrue, Fault, Vault, At, Moves
<1>13. ToldTrue'
  BY <1>1, <1>2, <1>3, <1>5 DEF Ongoing, ToldTrue, TypesTrue, At, Moves
<1> QED BY <1>6, <1>7, <1>8, <1>9, <1>10, <1>11, <1>12, <1>13 DEF Ongoing

LEMMA MountKeeps ==
    ASSUME Ongoing, NEW id \in ReqIds, Mount(id) PROVE Ongoing'
<1>1. TypesTrue /\ (\A v \in DOMAIN mounts : mounts[v].drive \in DriveIds)
      /\ req[id] \in Request /\ DOMAIN req = ReqIds /\ None \notin DriveIds
      /\ DriveIds \subseteq Ids /\ ReqIds = Ids \cup {Main} /\ Main \notin Ids
  BY PlanFacts DEF Ongoing, TypesTrue, Entries, ReqIds
<1>2. id \in DriveIds /\ mounting = None /\ At(id, "begin") /\ id \in Ids /\ Vault(id) \in Vaults
      /\ Vault(id) \notin DOMAIN mounts /\ drive[id] = "none" /\ req[id].result = "none"
          /\ req[id].thread = None
      /\ \A d \in DriveIds : ~InMount(d)
  BY PlanFacts DEF Mount, MountingFree, Ongoing, PhasesTrue, LockTrue, ThreadsTrue, Before, At
<1>3. UNCHANGED <<plan, main, queue, ready, sent>> /\ mounting' = id
      /\ DriveIds' = DriveIds /\ ReqIds' = ReqIds /\ Ids' = Ids /\ Entries' = Entries
          /\ Request' = Request
  BY SamePlan DEF Mount
<1>4. PICK i \in DOMAIN Letters :
          /\ FirstFree(i)
          /\ req' = [req EXCEPT ![id].at = "keep", ![id].letter = Letters[i]]
          /\ mounts' = Put(mounts, Vault(id), [drive |-> id, letter |-> Letters[i],
                                               ready |-> FALSE, thread |-> None])
  BY DEF Mount
<1>5. Letters[i] \in LetterSet /\ ServedAt(Letters[i]) = {}
  BY <1>4 DEF LetterSet, FirstFree, FreeLetters
<1>6. /\ DOMAIN mounts' = DOMAIN mounts \cup {Vault(id)}
      /\ \A v \in DOMAIN mounts : mounts'[v] = mounts[v]
      /\ mounts'[Vault(id)] = [drive |-> id, letter |-> Letters[i], ready |-> FALSE, thread |-> None]
      /\ mounts' \in [DOMAIN mounts' -> Entries]
  BY <1>1, <1>2, <1>4, <1>5 DEF Put, TypesTrue, Entries
<1>7. Moves(id, "keep", req[id].result) /\ req'[id].letter = Letters[i]
      /\ req'[id].drive = req[id].drive /\ req'[id].thread = None
  BY <1>1, <1>2, <1>4, <1>5 DEF Moves, Request, Steps, TypesTrue
<1>8. drive' \in [DriveIds -> DriveStates] /\ drive'[id] = "starting"
       /\ \A d \in DriveIds : d # id => drive'[d] = drive[d]
  BY <1>1, <1>2 DEF Mount, TypesTrue, DriveStates
<1>9. TypesTrue'
  BY <1>1, <1>2, <1>3, <1>6, <1>7, <1>8 DEF TypesTrue, Moves
<1>10. PhasesTrue'
  BY <1>1, <1>2, <1>3, <1>5, <1>6, <1>7, <1>8 DEF Ongoing, PhasesTrue, InMount, Before, Unmounts,
     Cmd, Vault, At, Moves
<1>11. LockTrue'
  BY <1>1, <1>2, <1>3, <1>5, <1>6, <1>7, <1>8 DEF Ongoing, LockTrue, InMount, Moves
<1>12. ListTrue'
  BY <1>1, <1>2, <1>3, <1>5, <1>6, <1>7, <1>8 DEF Ongoing, ListTrue, InMount, Listed, Alive,
     Vault, At, Moves
<1>13. LettersTrue'
  BY <1>1, <1>2, <1>3, <1>5, <1>7, <1>8 DEF Ongoing, LettersTrue, ServedAt, Served, TypesTrue, Moves
<1>14. ThreadsTrue'
  BY <1>1, <1>2, <1>3, <1>5, <1>6, <1>7, <1>8 DEF Ongoing, ThreadsTrue, ListTrue, LockTrue,
     PhasesTrue, Listed, Before, At, MayFail, Moves
<1>15. UnmountsTrue'
  BY <1>1, <1>2, <1>3, <1>5, <1>6, <1>7, <1>8 DEF Ongoing, UnmountsTrue, Fault, Vault, At, Moves
<1>16. ToldTrue'
  BY <1>1, <1>2, <1>3, <1>5, <1>6, <1>7, <1>8 DEF Ongoing, ToldTrue, TypesTrue, Moves
<1> QED BY <1>9, <1>10, <1>11, <1>12, <1>13, <1>14, <1>15, <1>16 DEF Ongoing

\* While a mount that may fail waits, no unmount of its vault has begun.
LEMMA NoneWaits ==
    ASSUME Ongoing, Steady, NEW id \in ReqIds, InUnmount(id), NEW d \in DriveIds,
           MayFail(plan), At(d, "wait")
    PROVE  Vault(d) # Vault(id)
<1> SUFFICES ASSUME Vault(d) = Vault(id) PROVE FALSE
  OBVIOUS
<1>1. TypesTrue /\ plan \in Plans /\ SteadyPlan(plan)
  BY DEF Ongoing, TypesTrue, Steady
<1>2. /\ req[id].drive \in DriveIds /\ Vault(req[id].drive) = Vault(id)
      /\ req[req[id].drive].result = "ok" /\ Unmounts(id)
  BY DEF Ongoing, UnmountsTrue, InUnmount, PhasesTrue
<1>3. req[d].result = "none" /\ Vault(d) \in Vaults /\ d \in Ids
  BY PlanFacts DEF Ongoing, PhasesTrue, InMount, At
<1>4. d \in MountsOf(plan, Vault(d)) /\ req[id].drive \in MountsOf(plan, Vault(d))
  BY <1>1, <1>2, PlanFacts DEF MountsOf, DriveIds, Ids
<1>5. UnmountsOf(plan, Vault(d)) = {} /\ "close" \notin plan.faults
  BY <1>1, <1>2, <1>3, <1>4 DEF SteadyPlan
<1>6. CASE id = Main
  BY <1>5, <1>6 DEF Ongoing, UnmountsTrue, InUnmount, Fault, At
<1>7. CASE id \in Ids
  BY <1>1, <1>2, <1>5, <1>7, PlanFacts DEF UnmountsOf, Unmounts, Cmd, Ids, SoundPlan
<1> QED BY <1>6, <1>7 DEF ReqIds

LEMMA TakeThreadKeeps ==
    ASSUME Ongoing, Steady, NEW id \in ReqIds, TakeThread(id) PROVE Ongoing'
<1>1. TypesTrue /\ (\A v \in DOMAIN mounts : mounts[v].drive \in DriveIds)
      /\ req[id] \in Request /\ DOMAIN req = ReqIds /\ None \notin DriveIds
      /\ DriveIds \subseteq Ids /\ ReqIds = Ids \cup {Main} /\ Main \notin Ids
  BY PlanFacts DEF Ongoing, TypesTrue, Entries, ReqIds
<1>2. At(id, "take") /\ InUnmount(id) /\ id \notin DriveIds /\ Stored(id) \in DriveIds \cup {None}
  BY PlanFacts DEF TakeThread, Ongoing, PhasesTrue, At, InUnmount, Stored, TypesTrue, Entries
<1>3. UNCHANGED <<plan, main, queue, mounting, drive, ready, sent>>
      /\ DriveIds' = DriveIds /\ ReqIds' = ReqIds /\ Ids' = Ids /\ Entries' = Entries
          /\ Request' = Request
  BY SamePlan DEF TakeThread
<1>4. /\ DOMAIN mounts' = DOMAIN mounts /\ mounts' \in [DOMAIN mounts' -> Entries]
      /\ \A w \in DOMAIN mounts : w # Vault(id) => mounts'[w] = mounts[w]
      /\ Vault(id) \in DOMAIN mounts =>
            /\ mounts'[Vault(id)].thread = None
            /\ mounts'[Vault(id)].drive = mounts[Vault(id)].drive
            /\ mounts'[Vault(id)].letter = mounts[Vault(id)].letter
            /\ mounts'[Vault(id)].ready = mounts[Vault(id)].ready
  BY <1>1, Takes DEF TakeThread, TypesTrue
<1>5. /\ Moves(id, "ask", req[id].result)
      /\ req'[id].drive = req[id].drive
  BY <1>1 DEF TakeThread, Moves, Request, Steps, TypesTrue
<1>6. \A d \in DriveIds : MayFail(plan) /\ At(d, "wait") => Vault(d) # Vault(id)
  BY <1>2, NoneWaits
<1>7. TypesTrue'
  BY <1>1, <1>3, <1>4, <1>5 DEF TypesTrue, Moves
<1>8. PhasesTrue'
  BY <1>1, <1>2, <1>3, <1>4, <1>5, <1>6 DEF Ongoing, PhasesTrue, InMount, Before, Unmounts, Cmd,
     Vault, At, Moves
<1>9. LockTrue'
  BY <1>1, <1>2, <1>3, <1>4, <1>5 DEF Ongoing, LockTrue, InMount, Moves
<1>10. ListTrue'
  BY <1>1, <1>2, <1>3, <1>4, <1>5, <1>6 DEF Ongoing, ListTrue, InMount, Listed, Alive, Vault, At,
     Moves
<1>11. LettersTrue'
  BY <1>1, <1>2, <1>3, <1>4, <1>5 DEF Ongoing, LettersTrue, ServedAt, Served, TypesTrue, Moves
<1>12. ThreadsTrue'
  BY <1>1, <1>2, <1>3, <1>4, <1>5, <1>6 DEF Ongoing, ThreadsTrue, ListTrue, LockTrue, PhasesTrue,
     Listed, Before, At, Moves
<1>13. UnmountsTrue'
  BY <1>1, <1>2, <1>3, <1>4, <1>5, <1>6 DEF Ongoing, UnmountsTrue, Fault, Vault, At, Moves
<1>14. ToldTrue'
  BY <1>1, <1>2, <1>3, <1>4, <1>5 DEF Ongoing, ToldTrue, TypesTrue, Moves
<1> QED BY <1>7, <1>8, <1>9, <1>10, <1>11, <1>12, <1>13, <1>14 DEF Ongoing

LEMMA NotClosedKeeps ==
    ASSUME Ongoing, Steady, NEW id \in ReqIds, NotClosed(id) PROVE Ongoing'
<1>1. TypesTrue /\ (\A v \in DOMAIN mounts : mounts[v].drive \in DriveIds)
      /\ req[id] \in Request /\ DOMAIN req = ReqIds /\ None \notin DriveIds
      /\ DriveIds \subseteq Ids /\ ReqIds = Ids \cup {Main} /\ Main \notin Ids
  BY PlanFacts DEF Ongoing, TypesTrue, Entries, ReqIds
<1>2. At(id, "close") /\ InUnmount(id) /\ id \notin DriveIds
       /\ req[id].thread \in DriveIds \cup {None}
  BY <1>1, PlanFacts DEF NotClosed, Ongoing, PhasesTrue, At, InUnmount, Request
<1>3. UNCHANGED <<plan, main, queue, mounting, drive, ready, sent>>
      /\ DriveIds' = DriveIds /\ ReqIds' = ReqIds /\ Ids' = Ids /\ Entries' = Entries
          /\ Request' = Request
  BY SamePlan DEF NotClosed
<1>4. /\ DOMAIN mounts' = DOMAIN mounts /\ mounts' \in [DOMAIN mounts' -> Entries]
      /\ \A w \in DOMAIN mounts : w # Vault(id) => mounts'[w] = mounts[w]
      /\ Vault(id) \in DOMAIN mounts =>
            /\ mounts'[Vault(id)].thread = req[id].thread
            /\ mounts'[Vault(id)].drive = mounts[Vault(id)].drive
            /\ mounts'[Vault(id)].letter = mounts[Vault(id)].letter
            /\ mounts'[Vault(id)].ready = mounts[Vault(id)].ready
  BY <1>1, <1>2, Takes DEF NotClosed, TypesTrue
<1>5. Moves(id, "answer", "failed") /\ SameVars(id)
  BY <1>1, Ending DEF TypesTrue, NotClosed, Results
<1>6. \A d \in DriveIds : MayFail(plan) /\ At(d, "wait") => Vault(d) # Vault(id)
  BY <1>2, NoneWaits
<1>7. TypesTrue'
  BY <1>1, <1>3, <1>4, <1>5 DEF TypesTrue, Moves
<1>8. PhasesTrue'
  BY <1>1, <1>2, <1>3, <1>4, <1>5, <1>6 DEF Ongoing, PhasesTrue, InMount, Before, Unmounts, Cmd,
     Vault, At, Moves
<1>9. LockTrue'
  BY <1>1, <1>2, <1>3, <1>4, <1>5 DEF Ongoing, LockTrue, InMount, Moves
<1>10. ListTrue'
  BY <1>1, <1>2, <1>3, <1>4, <1>5, <1>6 DEF Ongoing, ListTrue, InMount, Listed, Alive, Vault, At,
     Moves
<1>11. LettersTrue'
  BY <1>1, <1>2, <1>3, <1>4, <1>5 DEF Ongoing, LettersTrue, ServedAt, Served, TypesTrue, Moves
<1>12. ThreadsTrue'
  BY <1>1, <1>2, <1>3, <1>4, <1>5, <1>6 DEF Ongoing, ThreadsTrue, ListTrue, LockTrue, PhasesTrue,
     Listed, Before, Vault, At, Moves, SameVars
<1>13. UnmountsTrue'
  BY <1>1, <1>2, <1>3, <1>4, <1>5, <1>6 DEF Ongoing, UnmountsTrue, Fault, Vault, At, Moves
<1>14. ToldTrue'
  BY <1>1, <1>2, <1>3, <1>4, <1>5 DEF Ongoing, ToldTrue, TypesTrue, Moves
<1> QED BY <1>7, <1>8, <1>9, <1>10, <1>11, <1>12, <1>13, <1>14 DEF Ongoing

LEMMA AskToCloseKeeps ==
    ASSUME Ongoing, NEW id \in ReqIds, AskToClose(id) PROVE Ongoing'
<1>1. TypesTrue /\ (\A v \in DOMAIN mounts : mounts[v].drive \in DriveIds)
      /\ req[id] \in Request /\ DOMAIN req = ReqIds /\ None \notin DriveIds
      /\ DriveIds \subseteq Ids /\ ReqIds = Ids \cup {Main} /\ Main \notin Ids
  BY PlanFacts DEF Ongoing, TypesTrue, Entries, ReqIds
<1>2. At(id, "ask") /\ InUnmount(id) /\ id \notin DriveIds
  BY PlanFacts DEF AskToClose, Ongoing, PhasesTrue, At, InUnmount
<1>3. UNCHANGED <<plan, main, queue, mounting, mounts, ready, sent>>
      /\ DriveIds' = DriveIds /\ ReqIds' = ReqIds /\ Ids' = Ids /\ Entries' = Entries
          /\ Request' = Request
  BY SamePlan DEF AskToClose
<1>4. Moves(id, IF req[id].thread # None THEN "close" ELSE "answer",
            IF req[id].thread # None THEN req[id].result ELSE "ok") /\ SameVars(id)
  BY <1>1, Going, Ending DEF TypesTrue, AskToClose, Results, Steps
<1>5. \A d \in DriveIds : drive'[d] = IF Served(d)
       /\ req[d].letter = req[id].letter THEN "asked" ELSE drive[d]
  BY <1>1 DEF AskToClose, Ask, TypesTrue, ServedAt
<1>6. drive' \in [DriveIds -> DriveStates]
  BY <1>1 DEF AskToClose, Ask, TypesTrue, DriveStates
<1>7. TypesTrue'
  BY <1>1, <1>2, <1>3, <1>4, <1>6 DEF TypesTrue, Moves
<1>8. PhasesTrue'
  BY <1>1, <1>2, <1>3, <1>4, <1>5, <1>6 DEF Ongoing, PhasesTrue, InMount, Before, Unmounts, Cmd,
     Vault, At, Moves, Served
<1>9. LockTrue'
  BY <1>1, <1>2, <1>3, <1>4, <1>5, <1>6 DEF Ongoing, LockTrue, InMount, Moves
<1>10. ListTrue'
  BY <1>1, <1>2, <1>3, <1>4, <1>5, <1>6 DEF Ongoing, ListTrue, LockTrue, InMount, Listed, Alive,
     Vault, At, Moves, Served
<1>11. LettersTrue'
  BY <1>1, <1>2, <1>3, <1>4, <1>5, <1>6 DEF Ongoing, LettersTrue, ServedAt, Served, TypesTrue, Moves
<1>12. ThreadsTrue'
  BY <1>1, <1>2, <1>3, <1>4, <1>5, <1>6 DEF Ongoing, ThreadsTrue, ListTrue, LockTrue, PhasesTrue,
     Listed, Alive, Before, Vault, At, Moves, Served
<1>13. UnmountsTrue'
  BY <1>1, <1>2, <1>3, <1>4, <1>5, <1>6 DEF Ongoing, UnmountsTrue, PhasesTrue, Fault, Vault, At,
     Moves, SameVars
<1>14. ToldTrue'
  BY <1>1, <1>2, <1>3, <1>4, <1>5, <1>6 DEF Ongoing, ToldTrue, TypesTrue, Moves
<1> QED BY <1>7, <1>8, <1>9, <1>10, <1>11, <1>12, <1>13, <1>14 DEF Ongoing

LEMMA UnmountFindsKeeps ==
    ASSUME Ongoing, NEW id \in ReqIds, Unmount(id),
           Vault(id) \in DOMAIN mounts, mounts[Vault(id)].ready PROVE Ongoing'
<1>1. TypesTrue /\ (\A v \in DOMAIN mounts : mounts[v].drive \in DriveIds)
      /\ req[id] \in Request /\ DOMAIN req = ReqIds /\ None \notin DriveIds
      /\ DriveIds \subseteq Ids /\ ReqIds = Ids \cup {Main} /\ Main \notin Ids
  BY PlanFacts DEF Ongoing, TypesTrue, Entries, ReqIds
<1>2. At(id, "begin") /\ Unmounts(id) /\ id \notin DriveIds /\ Vault(id) \in Vaults
  BY <1>1, PlanFacts DEF Unmount, TypesTrue
<1>3. mounts[Vault(id)] \in Entries /\ mounts[Vault(id)].drive \in DriveIds
       /\ mounts[Vault(id)].letter \in LetterSet
  BY <1>1 DEF TypesTrue, Entries
<1>4. UNCHANGED <<plan, main, queue, mounting, mounts, ready, sent, drive>>
      /\ DriveIds' = DriveIds /\ ReqIds' = ReqIds /\ Ids' = Ids /\ Entries' = Entries
          /\ Request' = Request
  BY SamePlan DEF Unmount
<1>5. /\ Moves(id, IF ByForce(id) THEN "take" ELSE "count", req[id].result)
      /\ req'[id].drive = mounts[Vault(id)].drive
  BY <1>1, <1>3 DEF Unmount, Moves, Request, Steps, TypesTrue
<1>6. Vault(req'[id].drive) = Vault(id) /\ req[req'[id].drive].result = "ok" /\ req'[id].drive # id
  BY <1>1, <1>2, <1>5 DEF Ongoing, ListTrue, Listed
<1>7. id = Main => main # "reading"
  BY <1>2 DEF Ongoing, UnmountsTrue, At
<1>8. TypesTrue'
  BY <1>1, <1>2, <1>4, <1>5 DEF TypesTrue, Moves
<1>9. PhasesTrue'
  BY <1>1, <1>2, <1>3, <1>4, <1>5, <1>6, <1>7 DEF Ongoing, PhasesTrue, InMount, Before, Unmounts,
     Cmd, Vault, At, Moves
<1>10. LockTrue'
  BY <1>1, <1>2, <1>3, <1>4, <1>5, <1>6 DEF Ongoing, LockTrue, InMount, Moves
<1>11. ListTrue'
  BY <1>1, <1>2, <1>3, <1>4, <1>5, <1>6, <1>7 DEF Ongoing, ListTrue, InMount, Listed, Alive,
     Vault, At, Moves
<1>12. LettersTrue'
  BY <1>1, <1>2, <1>3, <1>4, <1>5 DEF Ongoing, LettersTrue, ServedAt, Served, TypesTrue, Moves
<1>13. ThreadsTrue'
  BY <1>1, <1>2, <1>3, <1>4, <1>5, <1>6, <1>7 DEF Ongoing, ThreadsTrue, ListTrue, LockTrue,
     PhasesTrue, Listed, Before, At, MayFail, Moves
<1>14. UnmountsTrue'
  BY <1>1, <1>2, <1>3, <1>4, <1>5, <1>6, <1>7 DEF Ongoing, UnmountsTrue, Fault, Vault, At, Moves
<1>15. ToldTrue'
  BY <1>1, <1>2, <1>3, <1>4, <1>5, <1>6 DEF Ongoing, ToldTrue, TypesTrue, Moves
<1> QED BY <1>8, <1>9, <1>10, <1>11, <1>12, <1>13, <1>14, <1>15 DEF Ongoing

LEMMA UnmountNextKeeps ==
    ASSUME Ongoing, NEW v \in queue, UnmountNext(v) PROVE Ongoing'
<1>1. TypesTrue /\ (\A w \in DOMAIN mounts : mounts[w].drive \in DriveIds)
      /\ req[Main] \in Request /\ DOMAIN req = ReqIds /\ None \notin DriveIds
      /\ DriveIds \subseteq Ids /\ ReqIds = Ids \cup {Main} /\ Main \notin Ids /\ v \in Vaults
  BY PlanFacts DEF Ongoing, TypesTrue, Entries, ReqIds
<1>2. main = "closing" /\ At(Main, "unsent")
  BY DEF UnmountNext
<1>3. UNCHANGED <<plan, main, mounting, mounts, ready, sent, drive>>
      /\ DriveIds' = DriveIds /\ ReqIds' = ReqIds /\ Ids' = Ids /\ Entries' = Entries
          /\ Request' = Request
  BY SamePlan DEF UnmountNext
<1>4. queue' \subseteq queue
  BY DEF UnmountNext
<1>5. /\ req' \in [ReqIds -> Request] /\ req'[Main].at = "begin"
      /\ \A i \in ReqIds : i # Main => req'[i] = req[i]
  BY <1>1 DEF UnmountNext, Request, Steps, TypesTrue
<1>6. TypesTrue'
  BY <1>1, <1>3, <1>4, <1>5 DEF TypesTrue
<1>7. PhasesTrue'
  BY <1>1, <1>2, <1>3, <1>4, <1>5 DEF Ongoing, PhasesTrue, InMount, Before, Unmounts, Cmd, Vault, At
<1>8. LockTrue'
  BY <1>1, <1>2, <1>3, <1>5 DEF Ongoing, LockTrue, InMount
<1>9. ListTrue'
  BY <1>1, <1>2, <1>3, <1>4, <1>5 DEF Ongoing, ListTrue, InMount, Listed, Alive, Vault, At
<1>10. LettersTrue'
  BY <1>1, <1>3, <1>5 DEF Ongoing, LettersTrue, ServedAt, Served, TypesTrue
<1>11. ThreadsTrue'
  BY <1>1, <1>2, <1>3, <1>4, <1>5 DEF Ongoing, ThreadsTrue, ListTrue, LockTrue, Listed, Before, At
<1>12. UnmountsTrue'
  BY <1>1, <1>2, <1>3, <1>4, <1>5 DEF Ongoing, UnmountsTrue, Fault, Vault
<1>13. ToldTrue'
  BY <1>1, <1>2, <1>3, <1>5 DEF Ongoing, ToldTrue, TypesTrue
<1> QED BY <1>6, <1>7, <1>8, <1>9, <1>10, <1>11, <1>12, <1>13 DEF Ongoing

LEMMA ServeKeeps ==
    ASSUME Ongoing, NEW d \in DriveIds, Serve(d) PROVE Ongoing'
<1>1. TypesTrue /\ (\A v \in DOMAIN mounts : mounts[v].drive \in DriveIds)
      /\ DOMAIN req = ReqIds /\ None \notin DriveIds
      /\ DriveIds \subseteq Ids /\ ReqIds = Ids \cup {Main} /\ Main \notin Ids
  BY PlanFacts DEF Ongoing, TypesTrue, Entries, ReqIds
<1>2. drive[d] = "starting"
  BY DEF Serve
<1>3. UNCHANGED <<plan, main, queue, req, mounts, mounting, sent>>
      /\ DriveIds' = DriveIds /\ ReqIds' = ReqIds /\ Ids' = Ids /\ Entries' = Entries
          /\ Request' = Request
  BY SamePlan DEF Serve
<1>4. drive' \in [DriveIds -> DriveStates] /\ drive'[d] = "serving"
      /\ \A e \in DriveIds : e # d => drive'[e] = drive[e]
  BY <1>1 DEF Serve, TypesTrue, DriveStates
<1>5. ready' \in [DriveIds -> {"nothing", "ready", "failed"}] /\ ready'[d] = "ready"
      /\ \A e \in DriveIds : e # d => ready'[e] = ready[e]
  BY <1>1 DEF Serve, TypesTrue
<1>6. TypesTrue'
  BY <1>1, <1>3, <1>4, <1>5 DEF TypesTrue
<1>7. PhasesTrue'
  BY <1>1, <1>2, <1>3, <1>4 DEF Ongoing, PhasesTrue, InMount, Before, Unmounts, Cmd, Vault, At
<1>8. LockTrue'
  BY <1>1, <1>2, <1>3, <1>4, <1>5 DEF Ongoing, LockTrue, InMount
<1>9. ListTrue'
  BY <1>1, <1>2, <1>3, <1>4, <1>5 DEF Ongoing, ListTrue, InMount, Listed, Alive, Vault, At
<1>10. LettersTrue'
  BY <1>1, <1>2, <1>3, <1>4 DEF Ongoing, LettersTrue, ServedAt, Served, TypesTrue, LockTrue
<1>11. ThreadsTrue'
  BY <1>1, <1>2, <1>3, <1>4, <1>5 DEF Ongoing, ThreadsTrue, ListTrue, LockTrue, Listed, Before, At
<1>12. UnmountsTrue'
  BY <1>1, <1>2, <1>3, <1>4, <1>5 DEF Ongoing, UnmountsTrue, Fault, Vault, At
<1>13. ToldTrue'
  BY <1>1, <1>2, <1>3, <1>4 DEF Ongoing, ToldTrue
<1> QED BY <1>6, <1>7, <1>8, <1>9, <1>10, <1>11, <1>12, <1>13 DEF Ongoing

LEMMA ServeFailsKeeps ==
    ASSUME Ongoing, NEW d \in DriveIds, ServeFails(d) PROVE Ongoing'
<1>1. TypesTrue /\ (\A v \in DOMAIN mounts : mounts[v].drive \in DriveIds)
      /\ DOMAIN req = ReqIds /\ None \notin DriveIds
      /\ DriveIds \subseteq Ids /\ ReqIds = Ids \cup {Main} /\ Main \notin Ids
  BY PlanFacts DEF Ongoing, TypesTrue, Entries, ReqIds
<1>2. drive[d] = "starting" /\ Fault("refuse")
  BY DEF ServeFails
<1>3. UNCHANGED <<plan, main, queue, req, mounts, mounting, sent>>
      /\ DriveIds' = DriveIds /\ ReqIds' = ReqIds /\ Ids' = Ids /\ Entries' = Entries
          /\ Request' = Request
  BY SamePlan DEF ServeFails
<1>4. drive' \in [DriveIds -> DriveStates] /\ drive'[d] = "ending"
      /\ \A e \in DriveIds : e # d => drive'[e] = drive[e]
  BY <1>1 DEF ServeFails, TypesTrue, DriveStates
<1>5. ready' \in [DriveIds -> {"nothing", "ready", "failed"}] /\ ready'[d] = "failed"
      /\ \A e \in DriveIds : e # d => ready'[e] = ready[e]
  BY <1>1 DEF ServeFails, TypesTrue
<1>6. TypesTrue'
  BY <1>1, <1>3, <1>4, <1>5 DEF TypesTrue
<1>7. PhasesTrue'
  BY <1>1, <1>2, <1>3, <1>4 DEF Ongoing, PhasesTrue, InMount, Before, Unmounts, Cmd, Vault, At
<1>8. LockTrue'
  BY <1>1, <1>2, <1>3, <1>4, <1>5 DEF Ongoing, LockTrue, InMount
<1>9. ListTrue'
  BY <1>1, <1>2, <1>3, <1>4, <1>5 DEF Ongoing, ListTrue, InMount, Listed, Alive, Vault, At
<1>10. LettersTrue'
  BY <1>1, <1>3, <1>4 DEF Ongoing, LettersTrue, ServedAt, Served, TypesTrue
<1>11. ThreadsTrue'
  BY <1>1, <1>2, <1>3, <1>4, <1>5 DEF Ongoing, ThreadsTrue, ListTrue, LockTrue, Listed, Before, At
<1>12. UnmountsTrue'
  BY <1>1, <1>2, <1>3, <1>4, <1>5 DEF Ongoing, UnmountsTrue, Fault, Vault, At
<1>13. ToldTrue'
  BY <1>1, <1>2, <1>3, <1>4 DEF Ongoing, ToldTrue
<1> QED BY <1>6, <1>7, <1>8, <1>9, <1>10, <1>11, <1>12, <1>13 DEF Ongoing

LEMMA LeavesKeeps ==
    ASSUME Ongoing, NEW d \in DriveIds, Served(d), Leaves(d) PROVE Ongoing'
<1>1. TypesTrue /\ (\A v \in DOMAIN mounts : mounts[v].drive \in DriveIds)
      /\ DOMAIN req = ReqIds /\ None \notin DriveIds
      /\ DriveIds \subseteq Ids /\ ReqIds = Ids \cup {Main} /\ Main \notin Ids
  BY PlanFacts DEF Ongoing, TypesTrue, Entries, ReqIds
<1>2. drive[d] \in {"serving", "asked"}
  BY DEF Served
<1>3. UNCHANGED <<plan, main, queue, req, mounts, mounting, sent, ready>>
      /\ DriveIds' = DriveIds /\ ReqIds' = ReqIds /\ Ids' = Ids /\ Entries' = Entries
          /\ Request' = Request
  BY SamePlan DEF Leaves
<1>4. drive' \in [DriveIds -> DriveStates] /\ drive'[d] = "ending"
      /\ \A e \in DriveIds : e # d => drive'[e] = drive[e]
  BY <1>1 DEF Leaves, TypesTrue, DriveStates
<1>5. TypesTrue'
  BY <1>1, <1>3, <1>4 DEF TypesTrue
<1>6. PhasesTrue'
  BY <1>1, <1>2, <1>3, <1>4 DEF Ongoing, PhasesTrue, InMount, Before, Unmounts, Cmd, Vault, At
<1>7. LockTrue'
  BY <1>1, <1>3, <1>4 DEF Ongoing, LockTrue, InMount
<1>8. ListTrue'
  BY <1>1, <1>2, <1>3, <1>4 DEF Ongoing, ListTrue, InMount, Listed, Alive, Vault, At
<1>9. LettersTrue'
  BY <1>3, <1>4 DEF Ongoing, LettersTrue, ServedAt, Served, TypesTrue
<1>10. ThreadsTrue'
  BY <1>1, <1>2, <1>3, <1>4 DEF Ongoing, ThreadsTrue, ListTrue, LockTrue, Listed, Before, At
<1>11. UnmountsTrue'
  BY <1>1, <1>2, <1>3, <1>4 DEF Ongoing, UnmountsTrue, Fault, Vault, At
<1>12. ToldTrue'
  BY <1>1, <1>3, <1>4 DEF Ongoing, ToldTrue
<1> QED BY <1>5, <1>6, <1>7, <1>8, <1>9, <1>10, <1>11, <1>12 DEF Ongoing

LEMMA EndedKeeps ==
    ASSUME Ongoing, NEW d \in DriveIds, Ended(d) PROVE Ongoing'
<1>1. TypesTrue /\ (\A v \in DOMAIN mounts : mounts[v].drive \in DriveIds)
      /\ DOMAIN req = ReqIds /\ None \notin DriveIds
      /\ DriveIds \subseteq Ids /\ ReqIds = Ids \cup {Main} /\ Main \notin Ids
  BY PlanFacts DEF Ongoing, TypesTrue, Entries, ReqIds
<1>2. drive[d] = "ending"
  BY DEF Ended
<1>3. UNCHANGED <<plan, main, queue, req, mounting, sent, ready>>
      /\ DriveIds' = DriveIds /\ ReqIds' = ReqIds /\ Ids' = Ids /\ Entries' = Entries
          /\ Request' = Request
  BY SamePlan DEF Ended
<1>4. /\ DOMAIN mounts' = DOMAIN mounts \ {Vault(d)}
      /\ \A v \in DOMAIN mounts' : mounts'[v] = mounts[v]
      /\ mounts' \in [DOMAIN mounts' -> Entries]
  BY <1>1 DEF Ended, Drop, TypesTrue
<1>5. Tells(d) <=> req[d].result = "ok"
  BY <1>2 DEF Tells, Ongoing, ListTrue, Listed, Alive, At, PhasesTrue, InMount
<1>6. drive' \in [DriveIds -> DriveStates]
       /\ drive'[d] = (IF req[d].result = "ok" THEN "telling" ELSE "finished")
      /\ \A e \in DriveIds : e # d => drive'[e] = drive[e]
  BY <1>1, <1>5 DEF Ended, TypesTrue, DriveStates
<1>7. TypesTrue'
  BY <1>1, <1>3, <1>4, <1>6 DEF TypesTrue
<1>8. PhasesTrue'
  BY <1>1, <1>2, <1>3, <1>4, <1>6 DEF Ongoing, PhasesTrue, InMount, Before, Unmounts, Cmd, Vault, At
<1>9. LockTrue'
  BY <1>1, <1>2, <1>3, <1>6 DEF Ongoing, LockTrue, InMount
<1>10. ListTrue'
  BY <1>1, <1>2, <1>3, <1>4, <1>6 DEF Ongoing, ListTrue, InMount, Listed, Alive, Vault, At
<1>11. LettersTrue'
  BY <1>1, <1>3, <1>6 DEF Ongoing, LettersTrue, ServedAt, Served, TypesTrue
<1>12. ThreadsTrue'
  BY <1>1, <1>2, <1>3, <1>4, <1>6 DEF Ongoing, ThreadsTrue, ListTrue, LockTrue, Listed, Before, At
<1>13. UnmountsTrue'
  BY <1>1, <1>2, <1>3, <1>4, <1>6 DEF Ongoing, UnmountsTrue, Fault, Vault, At
<1>14. ToldTrue'
  BY <1>1, <1>2, <1>3, <1>6 DEF Ongoing, ToldTrue
<1> QED BY <1>7, <1>8, <1>9, <1>10, <1>11, <1>12, <1>13, <1>14 DEF Ongoing

LEMMA TellKeeps ==
    ASSUME Ongoing, NEW d \in DriveIds, Tell(d) PROVE Ongoing'
<1>1. TypesTrue /\ (\A v \in DOMAIN mounts : mounts[v].drive \in DriveIds)
      /\ DOMAIN req = ReqIds /\ None \notin DriveIds
      /\ DriveIds \subseteq Ids /\ ReqIds = Ids \cup {Main} /\ Main \notin Ids
  BY PlanFacts DEF Ongoing, TypesTrue, Entries, ReqIds
<1>2. drive[d] = "telling" /\ sent' = sent \cup {d}
  BY DEF Tell
<1>3. UNCHANGED <<plan, main, queue, req, mounting, mounts, ready>>
      /\ DriveIds' = DriveIds /\ ReqIds' = ReqIds /\ Ids' = Ids /\ Entries' = Entries
          /\ Request' = Request
  BY SamePlan DEF Tell
<1>4. drive' \in [DriveIds -> DriveStates] /\ drive'[d] = "finished"
      /\ \A e \in DriveIds : e # d => drive'[e] = drive[e]
  BY <1>1 DEF Tell, TypesTrue, DriveStates
<1>5. TypesTrue'
  BY <1>1, <1>2, <1>3, <1>4 DEF TypesTrue
<1>6. PhasesTrue'
  BY <1>1, <1>2, <1>3, <1>4 DEF Ongoing, PhasesTrue, InMount, Before, Unmounts, Cmd, Vault, At
<1>7. LockTrue'
  BY <1>1, <1>3, <1>4 DEF Ongoing, LockTrue, InMount
<1>8. ListTrue'
  BY <1>1, <1>2, <1>3, <1>4 DEF Ongoing, ListTrue, InMount, Listed, Alive, Vault, At
<1>9. LettersTrue'
  BY <1>3, <1>4 DEF Ongoing, LettersTrue, ServedAt, Served, TypesTrue
<1>10. ThreadsTrue'
  BY <1>1, <1>2, <1>3, <1>4 DEF Ongoing, ThreadsTrue, ListTrue, LockTrue, Listed, Before, At
<1>11. UnmountsTrue'
  BY <1>1, <1>2, <1>3, <1>4 DEF Ongoing, UnmountsTrue, Fault, Vault, At
<1>12. ToldTrue'
  BY <1>1, <1>2, <1>3, <1>4 DEF Ongoing, ToldTrue
<1> QED BY <1>5, <1>6, <1>7, <1>8, <1>9, <1>10, <1>11, <1>12 DEF Ongoing

LEMMA StdinClosesKeeps ==
    ASSUME Ongoing, StdinCloses PROVE Ongoing'
<1>1. TypesTrue /\ (\A v \in DOMAIN mounts : mounts[v].drive \in DriveIds)
      /\ DOMAIN req = ReqIds /\ None \notin DriveIds
      /\ DriveIds \subseteq Ids /\ ReqIds = Ids \cup {Main} /\ Main \notin Ids
  BY PlanFacts DEF Ongoing, TypesTrue, Entries, ReqIds
<1>2. main' = "closing" /\ main = "reading" /\ queue' \subseteq Vaults /\ Fault("close")
  BY <1>1 DEF StdinCloses, TypesTrue
<1>3. UNCHANGED <<plan, req, mounting, mounts, ready, sent, drive>>
      /\ DriveIds' = DriveIds /\ ReqIds' = ReqIds /\ Ids' = Ids /\ Entries' = Entries
          /\ Request' = Request
  BY SamePlan DEF StdinCloses
<1>4. TypesTrue'
  BY <1>1, <1>2, <1>3 DEF TypesTrue
<1>5. PhasesTrue'
  BY <1>1, <1>2, <1>3 DEF Ongoing, PhasesTrue, InMount, Before, Unmounts, Cmd, Vault, At
<1>6. LockTrue'
  BY <1>3 DEF Ongoing, LockTrue, InMount
<1>7. ListTrue'
  BY <1>1, <1>2, <1>3 DEF Ongoing, ListTrue, InMount, Listed, Alive, Vault, At
<1>8. LettersTrue'
  BY <1>3 DEF Ongoing, LettersTrue, ServedAt, Served
<1>9. ThreadsTrue'
  BY <1>1, <1>2, <1>3 DEF Ongoing, ThreadsTrue, ListTrue, LockTrue, Listed, Before, At
<1>10. UnmountsTrue'
  BY <1>1, <1>2, <1>3 DEF Ongoing, UnmountsTrue, Fault, Vault
<1>11. ToldTrue'
  BY <1>3 DEF Ongoing, ToldTrue
<1> QED BY <1>4, <1>5, <1>6, <1>7, <1>8, <1>9, <1>10, <1>11 DEF Ongoing

-------------------------------------------------------------------------------
(* The invariant, and what it means. *)

LEMMA TableInit == Init => Ongoing
<1> SUFFICES ASSUME Init PROVE Ongoing
  OBVIOUS
<1>1. plan \in Plans /\ SoundPlan(plan) /\ main = "reading" /\ queue = {} /\ mounts = <<>>
      /\ mounting = None /\ sent = {}
  BY PlansAssumption DEF Init
<1>2. Main \notin Ids /\ None \notin Ids /\ Main # None
      /\ \A id \in Ids : plan.commands[id].vault \in Vaults
  BY <1>1 DEF SoundPlan, Ids
<1>3. DriveIds = {i \in Ids : Cmd(i) = "mount"} /\ DOMAIN drive = DriveIds
  BY <1>2 DEF Cmd, DriveIds, Init
<1>4. /\ drive \in [DriveIds -> DriveStates] /\ \A d \in DriveIds : drive[d] = "none"
      /\ ready \in [DriveIds -> {"nothing", "ready", "failed"}]
      /\ \A d \in DriveIds : ready[d] = "nothing"
  BY <1>3 DEF Init, DriveStates
<1>5. \A v \in Vaults \cup {None} : New(v) \in Request
  BY DEF New, Request, Steps, Results, LetterSet
<1>6. /\ \A id \in Ids : req[id] = New(plan.commands[id].vault)
      /\ req[Main] = New(None)
      /\ req \in [ReqIds -> Request]
  BY <1>2, <1>5 DEF Init, Put, ReqIds
<1>7. /\ \A id \in ReqIds : At(id, "unsent") /\ req[id].result = "none" /\ req[id].thread = None
      /\ \A id \in Ids : req[id].vault = plan.commands[id].vault
  BY <1>6 DEF New, At, ReqIds
<1>8. DriveIds \subseteq ReqIds /\ DOMAIN mounts = {}
  BY <1>1 DEF DriveIds, ReqIds
<1>9. TypesTrue
  BY <1>1, <1>4, <1>6, <1>7, <1>8 DEF TypesTrue
<1>10. PhasesTrue /\ LockTrue /\ ListTrue /\ ToldTrue
  BY <1>1, <1>2, <1>4, <1>7, <1>8 DEF PhasesTrue, LockTrue, ListTrue, ToldTrue, At, InMount,
     Before, Alive,
     Listed, ReqIds
<1>11. LettersTrue /\ ThreadsTrue /\ UnmountsTrue
  BY <1>1, <1>4, <1>7, <1>8 DEF LettersTrue, ThreadsTrue, UnmountsTrue, At, Served, Listed, ReqIds
<1> QED BY <1>9, <1>10, <1>11 DEF Ongoing

\* Steps of programs and of the user, and stuttering.
LEMMA HelperStill == ASSUME Ongoing, UNCHANGED helperVars PROVE Ongoing'
<1>1. UNCHANGED <<plan, main, queue, req, mounts, mounting, drive, ready, sent>>
  BY DEF helperVars
<1>2. TypesTrue'
  BY <1>1 DEF Ongoing, TypesTrue, DriveIds, ReqIds, Ids, Entries, Request
<1>3. PhasesTrue'
  BY <1>1 DEF Ongoing, PhasesTrue, DriveIds, ReqIds, Ids, InMount, Before, At, Vault, Unmounts, Cmd
<1>4. LockTrue'
  BY <1>1 DEF Ongoing, LockTrue, DriveIds, Ids, InMount
<1>5. ListTrue'
  BY <1>1 DEF Ongoing, ListTrue, DriveIds, Ids, InMount, Alive, Listed, At, Vault
<1>6. LettersTrue' /\ ThreadsTrue' /\ UnmountsTrue' /\ ToldTrue'
  BY <1>1 DEF Ongoing, LettersTrue, ThreadsTrue, UnmountsTrue, ToldTrue, DriveIds, ReqIds, Ids,
     ServedAt, Served, Before, Listed, At, Vault, MayFail, Fault
<1> QED BY <1>2, <1>3, <1>4, <1>5, <1>6 DEF Ongoing

LEMMA ExitEnds == ASSUME Ongoing, Exit PROVE AllGone'
<1>1. UNCHANGED <<plan, queue, req, mounts, mounting, ready, sent>> /\ main' = "gone" /\ Ids' = Ids
  BY DEF Exit, Ids
<1>2. drive' \in [DriveIds -> DriveStates] /\ \A d \in DriveIds : drive'[d] = "gone"
  BY DEF Ongoing, TypesTrue, Exit, DriveStates
<1> QED BY <1>1, <1>2 DEF AllGone, Ongoing, TypesTrue, ToldTrue, DriveIds, ReqIds, Entries, Request

\* A request's step, and one of a drive.
LEMMA RequestKeeps ==
    ASSUME Ongoing, Steady, NEW id \in ReqIds, RequestStep(id) PROVE Ongoing'
<1>1. CASE Unmount(id)
  <2>1. CASE Vault(id) \in DOMAIN mounts /\ mounts[Vault(id)].ready
    BY <1>1, <2>1, UnmountFindsKeeps
  <2>2. CASE ~(Vault(id) \in DOMAIN mounts /\ mounts[Vault(id)].ready)
    <3>1. TypesTrue /\ req \in [ReqIds -> Request]
      BY DEF Ongoing, TypesTrue
    <3>2. Moves(id, "answer", "failed") /\ SameVars(id) /\ SameTable /\ At(id, "begin")
           /\ Unmounts(id)
      BY <1>1, <2>2, <3>1, Ending DEF Unmount, SameTable, Results
    <3>3. id \notin DriveIds /\ (main = "reading" => At(Main, "unsent"))
      BY <3>1, <3>2, PlanFacts DEF Ongoing, UnmountsTrue
    <3> QED BY <3>2, <3>3, MovesKeep DEF InMount, InUnmount, At, Steps, Results
  <2> QED BY <2>1, <2>2
<1> QED BY <1>1, QuietSteps, MountKeeps, KeepThreadKeeps, MountReadyKeeps, MountFailsKeeps,
           MountTimesOutKeeps, JoinKeeps, TakeThreadKeeps, AskToCloseKeeps, NotClosedKeeps
        DEF RequestStep

LEMMA DriveKeeps ==
    ASSUME Ongoing, NEW d \in DriveIds, DriveStep(d) \/ IsEjected(d) PROVE Ongoing'
  BY ServeKeeps, ServeFailsKeeps, LeavesKeeps, EndedKeeps, TellKeeps
  DEF DriveStep, IsEjected, Closes, Served

LEMMA TableStep ==
    ASSUME TableInv, Steady, [Next]_vars PROVE TableInv'
<1>1. TypesTrue /\ DOMAIN req = ReqIds /\ DOMAIN drive = DriveIds /\ Ids \subseteq ReqIds
  BY PlanFacts DEF TableInv, Ongoing, AllGone, TypesTrue
<1>2. CASE Ongoing
  <2>1. CASE \E id \in Ids : Receive(id) \/ Cancel(id)
    BY <1>1, <1>2, <2>1, QuietSteps DEF TableInv
  <2>2. CASE StdinCloses
    BY <1>2, <2>2, StdinClosesKeeps DEF TableInv
  <2>3. CASE ThreadStep
    BY <1>1, <1>2, <2>3, RequestKeeps, DriveKeeps, UnmountNextKeeps, ExitEnds DEF TableInv,
       ThreadStep
  <2>4. CASE \E d \in DOMAIN drive : IsEjected(d)
    BY <1>1, <1>2, <2>4, DriveKeeps DEF TableInv
  <2>5. CASE Programs \/ User \/ UNCHANGED vars
    <3>1. UNCHANGED helperVars
      BY <2>5 DEF Programs, User, vars
    <3> QED BY <1>2, <3>1, HelperStill DEF TableInv
  <2> QED BY <2>1, <2>2, <2>3, <2>4, <2>5 DEF Next
<1>3. CASE AllGone
  <2>1. main = "gone" /\ \A d \in DriveIds : drive[d] = "gone"
    BY <1>3 DEF AllGone
  <2>2. UNCHANGED helperVars
    <3>1. \A id : ~Receive(id) /\ ~Cancel(id) /\ ~RequestStep(id)
      BY <2>1 DEF Receive, Cancel, RequestStep, Start, Answer, MountRefused, Mount, KeepThread,
         MountReady,
         MountFails, MountTimesOut, Join, Unmount, NoOpenFiles, InUse, TakeThread, AskToClose, Closed,
         NotClosed, BeginJob, WorkOn
    <3>2. \A d \in DriveIds : ~DriveStep(d) /\ ~IsEjected(d)
      BY <2>1 DEF DriveStep, IsEjected, Serve, ServeFails, Closes, Ended, Tell, Served
    <3>3. ~StdinCloses /\ ~Exit /\ \A v : ~UnmountNext(v)
      BY <2>1 DEF StdinCloses, Exit, UnmountNext
    <3> QED BY <1>1, <3>1, <3>2, <3>3 DEF Next, ThreadStep, Programs, User, vars
  <2>3. UNCHANGED <<plan, main, queue, req, mounts, mounting, drive, ready, sent>> /\ Ids' = Ids
    BY <2>2 DEF helperVars, Ids
  <2> QED BY <1>3, <2>3 DEF TableInv, AllGone, TypesTrue, DriveIds, ReqIds, Entries, Request
<1> QED BY <1>2, <1>3 DEF TableInv

LEMMA TableAlways == ASSUME Steady PROVE Spec => []TableInv
<1>1. Init => TableInv
  BY TableInit DEF TableInv
<1>2. TableInv /\ [Next]_vars => TableInv'
  BY TableStep
<1> QED BY <1>1, <1>2, PTL DEF Spec

LEMMA TableMeans == TableInv => TableTrue
<1> SUFFICES ASSUME TableInv, NEW d \in DOMAIN drive, Served(d), ~At(d, "join")
             PROVE  /\ Vault(d) \in DOMAIN mounts
                    /\ mounts[Vault(d)].drive = d /\ mounts[Vault(d)].letter = req[d].letter
                    /\ ServedAt(req[d].letter) = {d}
  BY DEF TableTrue
<1>1. DOMAIN drive = DriveIds /\ Ongoing
  BY DEF TableInv, Ongoing, AllGone, TypesTrue, Served
<1>2. Listed(d) /\ mounts[Vault(d)].letter = req[d].letter
  BY <1>1 DEF Ongoing, ListTrue, Alive, Served
<1>3. \A e \in DriveIds : Served(e) /\ req[e].letter = req[d].letter => e = d
  BY <1>1 DEF Ongoing, LettersTrue
<1> QED BY <1>1, <1>2, <1>3 DEF Listed, ServedAt

LEMMA ToldMeans == TableInv => EndsTold
  BY DEF TableInv, Ongoing, AllGone, TypesTrue, ToldTrue, EndsTold

\* Every drive that is served is in the table, under its vault and its letter,
\* and alone at that letter, whatever fails and whoever closes it (mount_now,
\* forget and ended of windows.rs).
THEOREM TableIsTrue == ASSUME Steady PROVE Spec => []TableTrue
  BY TableAlways, TableMeans, PTL

\* The app is told of the end of exactly those drives whose mount succeeded
\* (mount_now and ended of windows.rs, which race).
THEOREM EndsAreTold == ASSUME Steady PROVE Spec => []EndsTold
  BY TableAlways, ToldMeans, PTL

-------------------------------------------------------------------------------
(* The handles of the programs.                                            *)

ItemFields   == {"kind", "no", "readOnly", "data"}
HandleFields == {"drive", "vault", "kind", "no", "access", "inUse", "cleaned"}
ReqFields    == {"at", "vault", "letter", "drive", "thread", "result"}

\* Requests keep their vaults, and there is a thread for every mount.
Basics ==
    /\ plan \in Plans /\ DOMAIN drive = DriveIds
    /\ DOMAIN req = ReqIds /\ \A id \in ReqIds : DOMAIN req[id] = ReqFields
    /\ \A id \in Ids : req[id].vault = plan.commands[id].vault

InUseOn(d) == {h \in DOMAIN handles : handles[h].drive = d /\ handles[h].inUse}

\* A handle is of a file or folder of its drive's vault, and counts until it is
\* cleaned.
HandlesTrue ==
    /\ DOMAIN item = Vaults /\ \A v \in Vaults : DOMAIN item[v] = ItemFields
    /\ IsFiniteSet(DOMAIN handles)
    /\ \A h \in DOMAIN handles :
          /\ DOMAIN handles[h] = HandleFields
          /\ handles[h].drive \in DriveIds
          /\ handles[h].vault = plan.commands[handles[h].drive].vault
          /\ handles[h].inUse \in BOOLEAN /\ handles[h].cleaned \in BOOLEAN
          /\ handles[h].inUse <=> /\ ~handles[h].cleaned /\ handles[h].kind = "file"
                                  /\ handles[h].access # "look"
    /\ openFiles \in [DriveIds -> Nat]
    /\ \A d \in DriveIds : openFiles[d] = Cardinality(InUseOn(d))

HandlesInv == Basics /\ HandlesTrue

LEMMA BasicFacts ==
    ASSUME Basics
    PROVE  /\ SoundPlan(plan) /\ Main \notin Ids /\ DriveIds \subseteq Ids /\ Ids \subseteq ReqIds
           /\ \A d \in DriveIds : req[d].vault = plan.commands[d].vault /\ req[d].vault \in Vaults
  BY PlansAssumption DEF Basics, SoundPlan, Ids, DriveIds, ReqIds

\* What a step may do to one request.
Touches(id) ==
    /\ DOMAIN req' = DOMAIN req
    /\ \A i \in ReqIds : i # id => req'[i] = req[i]
    /\ DOMAIN req'[id] = ReqFields /\ (id # Main => req'[id].vault = req[id].vault)

LEMMA RequestTouches ==
    ASSUME Basics, NEW id \in ReqIds,
           RequestStep(id) \/ Receive(id) \/ Cancel(id)
    PROVE  Touches(id) /\ plan' = plan /\ DOMAIN drive' = DOMAIN drive
<1> USE DEF Touches, Basics, ReqFields, GoesTo, Ends, quiet
<1>0. DOMAIN req = ReqIds /\ DOMAIN req[id] = ReqFields
  OBVIOUS
<1>1. CASE Start(id)
  BY <1>0, <1>1 DEF Start
<1>2. CASE Answer(id)
  BY <1>0, <1>2 DEF Answer
<1>3. CASE MountRefused(id)
  BY <1>0, <1>3 DEF MountRefused
<1>4. CASE Mount(id)
  BY <1>0, <1>4 DEF Mount
<1>5. CASE KeepThread(id)
  BY <1>0, <1>5 DEF KeepThread
<1>6. CASE MountReady(id)
  BY <1>0, <1>6 DEF MountReady
<1>7. CASE MountFails(id)
  BY <1>0, <1>7 DEF MountFails, Forget
<1>8. CASE MountTimesOut(id)
  BY <1>0, <1>8 DEF MountTimesOut, Forget, Ask
<1>9. CASE Join(id)
  BY <1>0, <1>9 DEF Join
<1>10. CASE Unmount(id)
  BY <1>0, <1>10 DEF Unmount
<1>11. CASE NoOpenFiles(id)
  BY <1>0, <1>11 DEF NoOpenFiles
<1>12. CASE InUse(id)
  BY <1>0, <1>12 DEF InUse
<1>13. CASE TakeThread(id)
  BY <1>0, <1>13 DEF TakeThread
<1>14. CASE AskToClose(id)
  BY <1>0, <1>14 DEF AskToClose, Ask
<1>15. CASE Closed(id)
  BY <1>0, <1>15 DEF Closed
<1>16. CASE NotClosed(id)
  BY <1>0, <1>16 DEF NotClosed
<1>17. CASE BeginJob(id)
  BY <1>0, <1>17 DEF BeginJob
<1>18. CASE WorkOn(id)
  BY <1>0, <1>18 DEF WorkOn
<1>19. CASE Receive(id)
  BY <1>0, <1>19 DEF Receive
<1>20. CASE Cancel(id)
  BY <1>0, <1>20 DEF Cancel
<1> QED BY <1>1, <1>2, <1>3, <1>4, <1>5, <1>6, <1>7, <1>8, <1>9, <1>10, <1>11, <1>12, <1>13,
   <1>14, <1>15, <1>16, <1>17, <1>18, <1>19, <1>20 DEF RequestStep

LEMMA BasicsInit == Init => Basics
<1> SUFFICES ASSUME Init PROVE Basics
  OBVIOUS
<1>1. plan \in Plans /\ SoundPlan(plan)
  BY PlansAssumption DEF Init
<1>2. Main \notin Ids
  BY <1>1 DEF SoundPlan, Ids
<1>3. DOMAIN drive = DriveIds
  BY <1>2 DEF Cmd, DriveIds, Init
<1>4. /\ \A id \in Ids : req[id] = New(plan.commands[id].vault)
      /\ req[Main] = New(None) /\ DOMAIN req = ReqIds
  BY <1>2 DEF Init, Put, ReqIds
<1> QED BY <1>1, <1>3, <1>4 DEF Basics, New, ReqFields, ReqIds

LEMMA BasicsStep == ASSUME Basics, [Next]_vars PROVE Basics' /\ plan' = plan
<1> SUFFICES plan' = plan /\ DOMAIN drive' = DOMAIN drive /\ \E id \in ReqIds : Touches(id)
  BY BasicFacts DEF Basics, Touches, DriveIds, ReqIds, Ids
<1>1. DOMAIN req = ReqIds /\ DOMAIN drive = DriveIds /\ Ids \subseteq ReqIds /\ Main \in ReqIds
      /\ \A id \in ReqIds : DOMAIN req[id] = ReqFields
  BY DEF Basics, ReqIds
<1>2. CASE \E id \in Ids : Receive(id) \/ Cancel(id)
  BY <1>1, <1>2, RequestTouches
<1>3. CASE \E id \in ReqIds : RequestStep(id)
  BY <1>1, <1>3, RequestTouches
<1>4. CASE \E v \in queue : UnmountNext(v)
  <2>1. Touches(Main)
    BY <1>1, <1>4 DEF UnmountNext, Touches, ReqFields
  <2> QED BY <1>1, <1>4, <2>1 DEF UnmountNext
<1>5. CASE UNCHANGED <<plan, req>> /\ DOMAIN drive' = DOMAIN drive
  BY <1>1, <1>5 DEF Touches
<1>6. ASSUME NEW d \in DriveIds, DriveStep(d) \/ IsEjected(d)
      PROVE  UNCHANGED <<plan, req>> /\ DOMAIN drive' = DOMAIN drive
  BY <1>6 DEF DriveStep, IsEjected, Serve, ServeFails, Closes, Leaves, Ended, Tell
<1>7. StdinCloses \/ Exit \/ Programs \/ User \/ UNCHANGED vars
          => UNCHANGED <<plan, req>> /\ DOMAIN drive' = DOMAIN drive
  BY DEF StdinCloses, Exit, Programs, User, vars, helperVars
<1> QED BY <1>1, <1>2, <1>3, <1>4, <1>5, <1>6, <1>7 DEF Next, ThreadStep

\* Only programs, the end of a drive and that of the process touch the handles.
LEMMA HandlersKept ==
    ASSUME Basics, [Next]_vars
    PROVE  \/ UNCHANGED handlerVars
           \/ \E d \in DriveIds : Disconnect(d)
           \/ UNCHANGED item /\ handles' = <<>> /\ openFiles' = [d \in DOMAIN openFiles |-> 0]
           \/ \E d \in DriveIds : HandlerStep([id |-> d, vault |-> plan.commands[d].vault])
<1> USE DEF quiet
<1>1. DOMAIN drive = DriveIds /\ \A d \in DriveIds : req[d].vault = plan.commands[d].vault
  BY BasicFacts DEF Basics
<1>2. ASSUME NEW id, Receive(id) \/ Cancel(id) \/ UnmountNext(id) \/ StdinCloses
      PROVE UNCHANGED handlerVars
  BY <1>2 DEF Receive, Cancel, UnmountNext, StdinCloses
<1>3. ASSUME NEW id, RequestStep(id) PROVE UNCHANGED handlerVars
  BY <1>3 DEF RequestStep, Start, Answer, MountRefused, Mount, KeepThread, MountReady,
     MountFails, MountTimesOut, Join, Unmount, NoOpenFiles, InUse, TakeThread, AskToClose, Closed,
     NotClosed, BeginJob, WorkOn
<1>4. ASSUME NEW d \in DriveIds, DriveStep(d) \/ IsEjected(d)
      PROVE UNCHANGED handlerVars \/ Disconnect(d)
  BY <1>4 DEF DriveStep, IsEjected, Serve, ServeFails, Closes, Leaves, Ended, Tell
<1>5. Exit => UNCHANGED item /\ handles' = <<>> /\ openFiles' = [d \in DOMAIN openFiles |-> 0]
  BY DEF Exit
<1>6. Programs => \E d \in DriveIds : HandlerStep([id |-> d, vault |-> plan.commands[d].vault])
  BY <1>1 DEF Programs
<1>7. User \/ UNCHANGED vars => UNCHANGED handlerVars
  BY DEF User, vars
<1> QED BY <1>1, <1>2, <1>3, <1>4, <1>5, <1>6, <1>7 DEF Next, ThreadStep

\* A handle that is cleaned, or closed, counts no more.
LEMMA ReleaseCounts ==
    ASSUME HandlesInv, NEW h \in DOMAIN handles, Release(h)
    PROVE  /\ openFiles' \in [DriveIds -> Nat]
           /\ \A d \in DriveIds : openFiles'[d] = Cardinality(InUseOn(d) \ {h})
<1> DEFINE dh == handles[h].drive
<1>1. dh \in DriveIds /\ handles[h].inUse \in BOOLEAN /\ openFiles \in [DriveIds -> Nat]
      /\ \A d \in DriveIds : openFiles[d] = Cardinality(InUseOn(d))
  BY DEF HandlesInv, HandlesTrue
<1>2. openFiles' = [openFiles EXCEPT ![dh] = IF handles[h].inUse THEN openFiles[dh] - 1
       ELSE openFiles[dh]]
  BY <1>1 DEF Release
<1>3. \A d \in DriveIds : IsFiniteSet(InUseOn(d))
  BY FS_Subset DEF HandlesInv, HandlesTrue, InUseOn
<1>4. CASE handles[h].inUse
  <2>1. h \in InUseOn(dh) /\ \A d \in DriveIds : d # dh => InUseOn(d) \ {h} = InUseOn(d)
    BY <1>4 DEF InUseOn
  <2>2. Cardinality(InUseOn(dh) \ {h}) = Cardinality(InUseOn(dh)) - 1
        /\ IsFiniteSet(InUseOn(dh) \ {h})
    BY <1>1, <1>3, <2>1, FS_RemoveElement
  <2>3. openFiles[dh] - 1 \in Nat
    BY <1>1, <2>2, FS_CardinalityType
  <2> QED BY <1>1, <1>2, <1>4, <2>1, <2>2, <2>3
<1>5. CASE ~handles[h].inUse
  <2>1. \A d \in DriveIds : InUseOn(d) \ {h} = InUseOn(d)
    BY <1>5 DEF InUseOn
  <2> QED BY <1>1, <1>2, <1>5, <2>1
<1> QED BY <1>1, <1>4, <1>5

\* A new handle counts if it is of a file, to read or to write.
LEMMA OpensCounts ==
    ASSUME HandlesInv, NEW d \in DriveIds, NEW h, h \notin DOMAIN handles, NEW kind, NEW no,
           NEW access \in {"look", "read", "write"}, NEW delete,
           Opens(h, [id |-> d, vault |-> plan.commands[d].vault], kind, no, access, delete),
           plan' = plan, DOMAIN item' = Vaults, \A v \in Vaults : DOMAIN item'[v] = ItemFields
    PROVE  HandlesTrue'
<1> DEFINE data == kind = "file" /\ access \in {"read", "write"}
           new  == [drive |-> d, vault |-> plan.commands[d].vault, kind |-> kind, no |-> no,
                    access |-> access, inUse |-> data, cleaned |-> FALSE]
<1>1. /\ handles' = [x \in DOMAIN handles \cup {h} |-> IF x # h THEN handles[x] ELSE new]
      /\ openFiles' = [openFiles EXCEPT ![d] = IF data THEN openFiles[d] + 1 ELSE openFiles[d]]
  BY DEF Opens, DataAccess, HandlesInv, HandlesTrue
<1>2. /\ IsFiniteSet(DOMAIN handles) /\ openFiles \in [DriveIds -> Nat] /\ DriveIds' = DriveIds
      /\ \A e \in DriveIds : openFiles[e] = Cardinality(InUseOn(e))
  BY SamePlan DEF HandlesInv, HandlesTrue
<1>3. IsFiniteSet(DOMAIN handles') /\ DOMAIN handles' = DOMAIN handles \cup {h}
  BY <1>1, <1>2, FS_AddElement
<1>4. \A x \in DOMAIN handles' :
          /\ DOMAIN handles'[x] = HandleFields
          /\ handles'[x].drive \in DriveIds
          /\ handles'[x].vault = plan.commands[handles'[x].drive].vault
          /\ handles'[x].inUse \in BOOLEAN /\ handles'[x].cleaned \in BOOLEAN
          /\ handles'[x].inUse <=> /\ ~handles'[x].cleaned /\ handles'[x].kind = "file"
                                   /\ handles'[x].access # "look"
  <2>1. ASSUME NEW x \in DOMAIN handles PROVE x \in DOMAIN handles' /\ handles'[x] = handles[x]
    BY <1>1
  <2>2. handles'[h] = new
    BY <1>1
  <2>3. DOMAIN new = HandleFields /\ new.drive = d /\ new.inUse = data /\ new.cleaned = FALSE
        /\ new.kind = kind /\ new.access = access /\ new.vault = plan.commands[d].vault
    BY DEF HandleFields
  <2>4. data \in BOOLEAN /\ (data <=> kind = "file" /\ access # "look")
    OBVIOUS
  <2> HIDE DEF new, data
  <2> TAKE x \in DOMAIN handles'
  <2>5. CASE x = h
    BY <2>2, <2>3, <2>4, <2>5
  <2>6. CASE x # h
    BY <1>3, <2>1, <2>6 DEF HandlesInv, HandlesTrue
  <2> QED BY <2>5, <2>6
<1>5. \A e \in DriveIds : InUseOn(e)' = IF e = d /\ data THEN InUseOn(e) \cup {h} ELSE InUseOn(e)
  BY <1>1 DEF InUseOn
<1>6. \A e \in DriveIds : IsFiniteSet(InUseOn(e)) /\ h \notin InUseOn(e)
  BY <1>2, FS_Subset DEF InUseOn
<1>7. /\ openFiles' \in [DriveIds -> Nat]
      /\ \A e \in DriveIds : openFiles'[e] = Cardinality(InUseOn(e)')
  <2> HIDE DEF data, new
  <2>1. openFiles' = [openFiles EXCEPT ![d] = IF data THEN openFiles[d] + 1 ELSE openFiles[d]]
    BY <1>1
  <2>2. Cardinality(InUseOn(d) \cup {h}) = openFiles[d] + 1
    BY <1>2, <1>6, FS_AddElement
  <2>3. /\ openFiles' \in [DriveIds -> Nat]
        /\ openFiles'[d] = IF data THEN openFiles[d] + 1 ELSE openFiles[d]
        /\ \A e \in DriveIds \ {d} : openFiles'[e] = openFiles[e]
    BY <1>2, <2>1
  <2>4. openFiles'[d] = Cardinality(InUseOn(d)')
    BY <1>2, <1>5, <2>2, <2>3
  <2> QED BY <1>2, <1>5, <2>3, <2>4
<1> QED BY <1>2, <1>3, <1>4, <1>7 DEF HandlesTrue

LEMMA HandlesInit == Init => HandlesInv
<1> SUFFICES ASSUME Init PROVE HandlesTrue
  BY BasicsInit DEF HandlesInv
<1>1. plan.start \in Things /\ DOMAIN drive = DriveIds
  BY BasicsInit, BasicFacts DEF SoundPlan, Basics
<1>2. DOMAIN item = Vaults /\ \A v \in Vaults : DOMAIN item[v] = ItemFields
  BY <1>1 DEF Init, Things, ItemFields
<1>3. DOMAIN handles = {} /\ openFiles = [d \in DriveIds |-> 0]
  BY <1>1 DEF Init
<1>4. \A d \in DriveIds : InUseOn(d) = {}
  BY <1>3 DEF InUseOn
<1> QED BY <1>2, <1>3, <1>4, FS_EmptySet DEF HandlesTrue

\* The item changes, and the handles as far as none of them counts otherwise.
LEMMA SameHandles ==
    ASSUME HandlesInv, UNCHANGED <<handles, openFiles>>, plan' = plan,
           DOMAIN item' = Vaults, \A v \in Vaults : DOMAIN item'[v] = ItemFields
    PROVE  HandlesTrue'
  BY SamePlan DEF HandlesInv, HandlesTrue, InUseOn

LEMMA CreateKeeps ==
    ASSUME HandlesInv, plan' = plan, NEW d \in DriveIds, NEW h,
           CreateFile(h, [id |-> d, vault |-> plan.commands[d].vault])
    PROVE  HandlesTrue'
<1> DEFINE dr == [id |-> d, vault |-> plan.commands[d].vault]
<1>1. dr.vault \in Vaults /\ h \notin DOMAIN handles
  BY BasicFacts DEF HandlesInv, CreateFile, Free
<1>2. DOMAIN item = Vaults /\ \A v \in Vaults : DOMAIN item[v] = ItemFields
  BY DEF HandlesInv, HandlesTrue
<1>3. PICK want \in {"any", "dir", "file"}, delete \in BOOLEAN, disposition \in Dispositions :
          \/ OpenFolder(h, dr, want, disposition, delete)
          \/ \E readOnly \in BOOLEAN : MakeFolder(h, dr, want, disposition, delete, readOnly)
          \/ \E access \in {"look"} \cup DataAccess :
                \/ OpenFile(h, dr, want, disposition, access, delete)
                \/ \E readOnly \in BOOLEAN :
                      \/ OverwriteFile(h, dr, want, disposition, access, delete, readOnly)
                      \/ MakeFile(h, dr, want, disposition, access, delete, readOnly)
  BY DEF CreateFile
<1> HIDE DEF dr
<1>4. \E kind, no : \E access \in {"look", "read", "write"} :
          Opens(h, dr, kind, no, access, delete)
  <2>1. CASE OpenFolder(h, dr, want, disposition, delete)
    BY <2>1 DEF OpenFolder
  <2>2. CASE \E readOnly \in BOOLEAN : MakeFolder(h, dr, want, disposition, delete, readOnly)
    BY <2>2 DEF MakeFolder, Make
  <2>3. ASSUME NEW access \in {"look"} \cup DataAccess,
               \/ OpenFile(h, dr, want, disposition, access, delete)
               \/ \E readOnly \in BOOLEAN :
                     \/ OverwriteFile(h, dr, want, disposition, access, delete, readOnly)
                     \/ MakeFile(h, dr, want, disposition, access, delete, readOnly)
        PROVE  \E kind, no : Opens(h, dr, kind, no, access, delete)
    BY <2>3 DEF OpenFile, OverwriteFile, MakeFile, Make
  <2> QED BY <1>3, <2>1, <2>2, <2>3 DEF DataAccess
<1>5. DOMAIN item' = Vaults /\ \A v \in Vaults : DOMAIN item'[v] = ItemFields
  BY <1>1, <1>2, <1>3 DEF OpenFolder, MakeFolder, OpenFile, OverwriteFile, MakeFile, Make,
     ItemFields
<1> QED BY <1>1, <1>4, <1>5, OpensCounts DEF dr

LEMMA CleanupKeeps ==
    ASSUME HandlesInv, plan' = plan, NEW d \in DriveIds, NEW h,
           Cleanup(h, [id |-> d, vault |-> plan.commands[d].vault])
    PROVE  HandlesTrue'
<1>1. /\ h \in DOMAIN handles /\ Release(h) /\ DriveIds' = DriveIds
      /\ handles' = [handles EXCEPT ![h].cleaned = TRUE, ![h].inUse = FALSE]
  BY SamePlan DEF Cleanup, Uses
<1>2. /\ DOMAIN handles' = DOMAIN handles /\ DOMAIN handles'[h] = HandleFields
      /\ \A x \in DOMAIN handles : x # h => handles'[x] = handles[x]
      /\ handles'[h].cleaned = TRUE /\ handles'[h].inUse = FALSE
      /\ handles'[h].drive = handles[h].drive /\ handles'[h].vault = handles[h].vault
  BY <1>1 DEF HandlesInv, HandlesTrue, HandleFields
<1>3. \A e \in DriveIds : InUseOn(e)' = InUseOn(e) \ {h}
  BY <1>1, <1>2 DEF InUseOn
<1>4. DOMAIN item' = Vaults /\ \A v \in Vaults : DOMAIN item'[v] = ItemFields
  BY DEF Cleanup, HandlesInv, HandlesTrue, Nothing, ItemFields
<1>5. openFiles' \in [DriveIds -> Nat]
       /\ \A e \in DriveIds : openFiles'[e] = Cardinality(InUseOn(e)')
  BY <1>1, <1>3, ReleaseCounts
<1>6. \A x \in DOMAIN handles' :
          /\ DOMAIN handles'[x] = HandleFields
          /\ handles'[x].drive \in DriveIds
          /\ handles'[x].vault = plan.commands[handles'[x].drive].vault
          /\ handles'[x].inUse \in BOOLEAN /\ handles'[x].cleaned \in BOOLEAN
          /\ handles'[x].inUse <=> /\ ~handles'[x].cleaned /\ handles'[x].kind = "file"
                                   /\ handles'[x].access # "look"
  <2> SUFFICES ASSUME NEW x \in DOMAIN handles'
               PROVE  /\ DOMAIN handles'[x] = HandleFields
                      /\ handles'[x].drive \in DriveIds
                      /\ handles'[x].vault = plan.commands[handles'[x].drive].vault
                      /\ handles'[x].inUse \in BOOLEAN /\ handles'[x].cleaned \in BOOLEAN
                      /\ handles'[x].inUse <=> /\ ~handles'[x].cleaned /\ handles'[x].kind = "file"
                                               /\ handles'[x].access # "look"
    OBVIOUS
  <2>1. CASE x = h
    BY <1>1, <1>2, <2>1 DEF HandlesInv, HandlesTrue
  <2>2. CASE x # h
    <3>1. x \in DOMAIN handles /\ handles'[x] = handles[x]
      BY <1>2, <2>2
    <3> QED BY <3>1 DEF HandlesInv, HandlesTrue
  <2> QED BY <2>1, <2>2
<1>7. IsFiniteSet(DOMAIN handles')
  BY <1>2 DEF HandlesInv, HandlesTrue
<1>8. plan' = plan /\ DriveIds' = DriveIds
  BY SamePlan
<1> QED BY <1>4, <1>5, <1>6, <1>7, <1>8 DEF HandlesTrue

LEMMA CloseKeeps ==
    ASSUME HandlesInv, plan' = plan, NEW d \in DriveIds, NEW h,
           CloseFile(h, [id |-> d, vault |-> plan.commands[d].vault])
    PROVE  HandlesTrue'
<1>1. /\ h \in DOMAIN handles /\ Release(h) /\ UNCHANGED item /\ DriveIds' = DriveIds
      /\ handles' = [x \in DOMAIN handles \ {h} |-> handles[x]]
  BY SamePlan DEF CloseFile
<1>2. \A e \in DriveIds : InUseOn(e)' = InUseOn(e) \ {h}
  BY <1>1 DEF InUseOn
<1>3. IsFiniteSet(DOMAIN handles')
  BY <1>1, FS_Subset DEF HandlesInv, HandlesTrue
<1> QED BY <1>1, <1>2, <1>3, ReleaseCounts DEF HandlesInv, HandlesTrue

LEMMA DisconnectKeeps ==
    ASSUME HandlesInv, plan' = plan, NEW d \in DriveIds, Disconnect(d) PROVE HandlesTrue'
<1>1. /\ handles' = [x \in {y \in DOMAIN handles : handles[y].drive # d} |-> handles[x]]
      /\ openFiles' = [openFiles EXCEPT ![d] = 0] /\ UNCHANGED item /\ DriveIds' = DriveIds
  BY SamePlan DEF Disconnect
<1>2. \A e \in DriveIds : InUseOn(e)' = IF e = d THEN {} ELSE InUseOn(e)
  BY <1>1 DEF InUseOn
<1>3. IsFiniteSet(DOMAIN handles') /\ Cardinality({}) = 0
  BY <1>1, FS_Subset, FS_EmptySet DEF HandlesInv, HandlesTrue
<1>4. openFiles' \in [DriveIds -> Nat]
       /\ \A e \in DriveIds : openFiles'[e] = Cardinality(InUseOn(e)')
  BY <1>1, <1>2, <1>3 DEF HandlesInv, HandlesTrue
<1> QED BY <1>1, <1>3, <1>4 DEF HandlesInv, HandlesTrue

LEMMA ExitKeeps ==
    ASSUME HandlesInv, plan' = plan, UNCHANGED item, handles' = <<>>,
           openFiles' = [d \in DOMAIN openFiles |-> 0]
    PROVE  HandlesTrue'
<1>1. DOMAIN handles' = {} /\ DriveIds' = DriveIds
  BY SamePlan
<1>2. openFiles' \in [DriveIds -> Nat] /\ \A e \in DriveIds : openFiles'[e] = 0 /\ InUseOn(e)' = {}
  BY <1>1 DEF HandlesInv, HandlesTrue, InUseOn
<1> QED BY <1>1, <1>2, FS_EmptySet DEF HandlesInv, HandlesTrue

\* The handler's steps that only change the item, or the marks.
ItemSteps(h, dr) ==
    \/ WriteFile(h, dr) \/ SetAllocationSize(h, dr)
    \/ \E b \in BOOLEAN : SetEndOfFile(h, dr, b) \/ DeleteOnClose(h, dr, b)
    \/ \E readOnly \in BOOLEAN : SetFileAttributes(h, dr, readOnly)

LEMMA ItemKeeps ==
    ASSUME HandlesInv, plan' = plan, NEW d \in DriveIds, NEW h,
           ItemSteps(h, [id |-> d, vault |-> plan.commands[d].vault])
    PROVE  HandlesTrue'
<1>1. DOMAIN item = Vaults /\ \A v \in Vaults : DOMAIN item[v] = ItemFields
  BY DEF HandlesInv, HandlesTrue
<1>2. /\ UNCHANGED <<handles, openFiles>>
      /\ DOMAIN item' = Vaults /\ \A v \in Vaults : DOMAIN item'[v] = ItemFields
  BY <1>1 DEF ItemSteps, WriteFile, SetAllocationSize, SetEndOfFile, Changes, DeleteOnClose,
     SetFileAttributes, ItemFields
<1> QED BY <1>2, SameHandles

LEMMA HandlesStep == ASSUME HandlesInv, [Next]_vars PROVE HandlesInv'
<1>1. Basics /\ Basics' /\ plan' = plan
  BY BasicsStep DEF HandlesInv
<1>2. CASE UNCHANGED handlerVars
  BY <1>1, <1>2, SameHandles DEF handlerVars, HandlesInv, HandlesTrue
<1>3. CASE \E d \in DriveIds : Disconnect(d)
  BY <1>1, <1>3, DisconnectKeeps DEF HandlesInv
<1>4. CASE UNCHANGED item /\ handles' = <<>> /\ openFiles' = [d \in DOMAIN openFiles |-> 0]
  BY <1>1, <1>4, ExitKeeps DEF HandlesInv
<1>5. CASE \E d \in DriveIds : HandlerStep([id |-> d, vault |-> plan.commands[d].vault])
  BY <1>1, <1>5, CreateKeeps, CleanupKeeps, CloseKeeps, ItemKeeps DEF HandlerStep, ItemSteps,
     HandlesInv
<1> QED BY <1>1, <1>2, <1>3, <1>4, <1>5, HandlersKept

LEMMA HandlesAlways == Spec => []HandlesInv
  BY HandlesInit, HandlesStep, PTL DEF Spec

\* The helper counts, on every drive, the handles that may read or change a
\* file, each once, until the program has closed it (Handler::open_new and
\* release of handler.rs).
THEOREM CountIsTrue == Spec => []CountTrue
<1>1. HandlesInv => CountTrue
  <2> SUFFICES ASSUME HandlesInv, NEW d \in DriveIds
               PROVE  openFiles[d] = Cardinality({h \in DOMAIN handles :
                          /\ handles[h].drive = d /\ ~handles[h].cleaned
                          /\ handles[h].kind = "file" /\ handles[h].access # "look"})
    BY DEF CountTrue, HandlesInv, HandlesTrue
  <2>1. InUseOn(d) = {h \in DOMAIN handles :
                          /\ handles[h].drive = d /\ ~handles[h].cleaned
                          /\ handles[h].kind = "file" /\ handles[h].access # "look"}
    BY DEF InUseOn, HandlesInv, HandlesTrue
  <2> QED BY <2>1 DEF HandlesInv, HandlesTrue
<1> QED BY <1>1, HandlesAlways, PTL

-------------------------------------------------------------------------------
\* A handle whose thing is not at its name is of something that was removed, and
\* the mark with which it was is still there.
NameTrue(h) ==
    /\ handles[h].kind \in {"dir", "file"}
    /\ Still(h) \/ (item[handles[h].vault].kind = "none" /\ handles[h].vault \in marked)

NamesInv == \A h \in DOMAIN handles : NameTrue(h)

\* A handle is opened on what is at its name, or on what is made there while
\* nothing else has a handle there.
LEMMA OpensNames ==
    ASSUME NamesInv, NEW d \in DriveIds, NEW h, NEW kind, NEW no, NEW access, NEW delete,
           NEW vault, Opens(h, [id |-> d, vault |-> vault], kind, no, access, delete),
           kind \in {"dir", "file"}, item'[vault].no = no, item'[vault].kind = kind,
           \A x \in DOMAIN handles : handles[x].vault = vault =>
              item'[vault].no = item[vault].no /\ item'[vault].kind = item[vault].kind
                 /\ vault \notin marked,
           \A x \in DOMAIN handles : handles[x].vault # vault
              => item'[handles[x].vault] = item[handles[x].vault]
    PROVE  NamesInv'
<1> SUFFICES ASSUME NEW x \in DOMAIN handles' PROVE NameTrue(x)'
  BY DEF NamesInv
<1>1. CASE x = h
  BY <1>1 DEF Opens, NameTrue, Still
<1>2. CASE x # h
  <2>1. x \in DOMAIN handles /\ handles'[x] = handles[x] /\ marked \subseteq marked'
    BY <1>2 DEF Opens
  <2> QED BY <2>1 DEF NamesInv, NameTrue, Still
<1> QED BY <1>1, <1>2

LEMMA CreateNames ==
    ASSUME HandlesInv, NamesInv, NEW d \in DriveIds, NEW h,
           CreateFile(h, [id |-> d, vault |-> plan.commands[d].vault])
    PROVE  NamesInv'
<1> DEFINE vault == plan.commands[d].vault
           dr == [id |-> d, vault |-> vault]
<1>1. /\ vault \in Vaults /\ vault \notin marked /\ dr.vault = vault
      /\ DOMAIN item = Vaults /\ \A v \in Vaults : DOMAIN item[v] = ItemFields
  BY BasicFacts DEF HandlesInv, HandlesTrue, CreateFile
<1>2. \A x \in DOMAIN handles : handles[x].vault = vault => item[vault].kind # "none"
  BY <1>1 DEF NamesInv, NameTrue, Still
<1>3. PICK want \in {"any", "dir", "file"}, delete \in BOOLEAN, disposition \in Dispositions :
          \/ OpenFolder(h, dr, want, disposition, delete)
          \/ \E readOnly \in BOOLEAN : MakeFolder(h, dr, want, disposition, delete, readOnly)
          \/ \E access \in {"look"} \cup DataAccess :
                \/ OpenFile(h, dr, want, disposition, access, delete)
                \/ \E readOnly \in BOOLEAN :
                      \/ OverwriteFile(h, dr, want, disposition, access, delete, readOnly)
                      \/ MakeFile(h, dr, want, disposition, access, delete, readOnly)
  BY DEF CreateFile
<1> HIDE DEF vault
<1>4. ASSUME NEW access, NEW kind \in {"dir", "file"}, item[vault].kind = kind,
             Opens(h, dr, kind, item[vault].no, access, delete),
             item'[vault].no = item[vault].no, item'[vault].kind = kind,
             \A v \in Vaults \ {vault} : item'[v] = item[v]
      PROVE  NamesInv'
  <2>1. \A x \in DOMAIN handles : handles[x].vault \in Vaults
    BY BasicFacts DEF HandlesInv, HandlesTrue, Basics
  <2> QED BY <1>1, <1>4, <2>1, OpensNames
<1>5. ASSUME NEW access, NEW kind \in {"dir", "file"}, NEW readOnly,
             Make(h, dr, kind, access, delete, readOnly)
      PROVE  NamesInv'
  <2>1. \A x \in DOMAIN handles : handles[x].vault \in Vaults \ {vault}
    BY <1>2, <1>5, BasicFacts DEF HandlesInv, HandlesTrue, Basics, Make
  <2>2. PICK no : /\ Opens(h, dr, kind, no, access, delete)
                  /\ item' = [item EXCEPT ![vault] = [kind |-> kind, no |-> no,
                                                      readOnly |-> readOnly, data |-> FALSE]]
    BY <1>1, <1>5 DEF Make
  <2>3. /\ item'[vault].no = no /\ item'[vault].kind = kind
        /\ \A v \in Vaults \ {vault} : item'[v] = item[v]
    BY <1>1, <2>2
  <2> QED BY <2>1, <2>2, <2>3, OpensNames
<1>6. CASE OpenFolder(h, dr, want, disposition, delete)
  BY <1>1, <1>4, <1>6 DEF OpenFolder
<1>7. ASSUME NEW access, OpenFile(h, dr, want, disposition, access, delete) PROVE NamesInv'
  BY <1>1, <1>4, <1>7 DEF OpenFile
<1>8. ASSUME NEW access, NEW readOnly, OverwriteFile(h, dr, want, disposition, access, delete, readOnly)
      PROVE  NamesInv'
  <2>1. /\ item'[vault].no = item[vault].no /\ item'[vault].kind = item[vault].kind
        /\ \A v \in Vaults \ {vault} : item'[v] = item[v]
    BY <1>1, <1>8 DEF OverwriteFile, ItemFields
  <2> QED BY <1>1, <1>4, <1>8, <2>1 DEF OverwriteFile
<1> QED BY <1>3, <1>5, <1>6, <1>7, <1>8 DEF MakeFolder, MakeFile

\* What is removed was marked, and stays so for the handles that are left.
LEMMA CleanupNames ==
    ASSUME HandlesInv, NamesInv, NEW d \in DriveIds, NEW h,
           Cleanup(h, [id |-> d, vault |-> plan.commands[d].vault])
    PROVE  NamesInv'
<1> DEFINE vault == plan.commands[d].vault
<1>1. /\ DOMAIN item = Vaults /\ vault \in Vaults
      /\ \A x \in DOMAIN handles : DOMAIN handles[x] = HandleFields
  BY BasicFacts DEF HandlesInv, HandlesTrue
<1>2. /\ handles' = [handles EXCEPT ![h].cleaned = TRUE, ![h].inUse = FALSE]
      /\ UNCHANGED marked
      /\ \/ vault \in marked /\ item' = [item EXCEPT ![vault] = Nothing]
         \/ UNCHANGED item
  BY DEF Cleanup
<1> HIDE DEF vault
<1> SUFFICES ASSUME NEW x \in DOMAIN handles' PROVE NameTrue(x)'
  BY DEF NamesInv
<1>3. /\ x \in DOMAIN handles /\ NameTrue(x)
      /\ handles'[x].vault = handles[x].vault /\ handles'[x].no = handles[x].no
      /\ handles'[x].kind = handles[x].kind
  BY <1>1, <1>2 DEF NamesInv, HandleFields
<1>4. CASE UNCHANGED item
  BY <1>2, <1>3, <1>4 DEF NameTrue, Still
<1>5. CASE vault \in marked /\ item' = [item EXCEPT ![vault] = Nothing]
  <2>1. item'[vault].kind = "none" /\ \A v \in Vaults \ {vault} : item'[v] = item[v]
    BY <1>1, <1>5 DEF Nothing
  <2>2. handles[x].vault \in Vaults
    BY <1>3, BasicFacts DEF HandlesInv, HandlesTrue, Basics
  <2> QED BY <1>2, <1>3, <1>5, <2>1, <2>2 DEF NameTrue, Still
<1> QED BY <1>2, <1>4, <1>5

\* Marks go with the last handle.
LEMMA ClosedNames ==
    ASSUME NamesInv, UNCHANGED item,
           NEW S \in SUBSET DOMAIN handles, handles' = [x \in S |-> handles[x]],
           marked' = marked \ {v \in Vaults : \A x \in DOMAIN handles' : handles'[x].vault # v}
    PROVE  NamesInv'
<1> SUFFICES ASSUME NEW x \in S PROVE NameTrue(x)'
  BY DEF NamesInv
<1>1. x \in DOMAIN handles' /\ x \in DOMAIN handles /\ handles'[x] = handles[x] /\ NameTrue(x)
  BY DEF NamesInv
<1> QED BY <1>1 DEF NameTrue, Still

\* No other call changes what is at a name, and a mark is taken back only by a
\* handle of what is there.
LEMMA ItemNames ==
    ASSUME Unmarks = FALSE, HandlesInv, NamesInv, NEW d \in DriveIds, NEW h,
           ItemSteps(h, [id |-> d, vault |-> plan.commands[d].vault])
    PROVE  NamesInv'
<1> DEFINE vault == plan.commands[d].vault
<1>1. /\ DOMAIN item = Vaults /\ vault \in Vaults
      /\ \A v \in Vaults : DOMAIN item[v] = ItemFields
      /\ \A x \in DOMAIN handles : handles[x].vault \in Vaults
      /\ h \in DOMAIN handles /\ handles[h].drive = d => handles[h].vault = vault
  BY BasicFacts DEF HandlesInv, HandlesTrue, Basics
<1>2. UNCHANGED handles
  BY DEF ItemSteps, WriteFile, SetAllocationSize, SetEndOfFile, Changes, DeleteOnClose, SetFileAttributes
<1>3. CASE UNCHANGED marked
  <2>1. \/ UNCHANGED item
        \/ \E data : item' = [item EXCEPT ![vault].data = data]
        \/ \E readOnly : item' = [item EXCEPT ![vault].readOnly = readOnly]
    BY DEF ItemSteps, WriteFile, SetAllocationSize, SetEndOfFile, Changes, DeleteOnClose,
       SetFileAttributes
  <2> HIDE DEF vault
  <2>2. \A v \in Vaults : item'[v].no = item[v].no /\ item'[v].kind = item[v].kind
    BY <1>1, <2>1 DEF ItemFields
  <2> QED BY <1>1, <1>2, <1>3, <2>2 DEF NamesInv, NameTrue, Still
<1>4. ASSUME NEW b \in BOOLEAN, DeleteOnClose(h, [id |-> d, vault |-> vault], b) PROVE NamesInv'
  <2>1. UNCHANGED item /\ h \in DOMAIN handles /\ handles[h].vault = vault
    BY <1>1, <1>4 DEF DeleteOnClose, Uses, On
  <2>2. CASE b
    BY <1>2, <1>4, <2>1, <2>2 DEF DeleteOnClose, NamesInv, NameTrue, Still
  <2>3. CASE ~b
    <3>1. Still(h) /\ marked' = marked \ {vault}
      BY <1>4, <2>3 DEF DeleteOnClose
    <3>2. item[vault].kind # "none"
      BY <2>1, <3>1 DEF NamesInv, NameTrue, Still
    <3> QED BY <1>2, <2>1, <3>1, <3>2 DEF NamesInv, NameTrue, Still
  <2> QED BY <2>2, <2>3
<1> QED BY <1>3, <1>4 DEF ItemSteps, WriteFile, SetAllocationSize, SetEndOfFile, Changes, SetFileAttributes

LEMMA NamesStep == ASSUME Unmarks = FALSE, HandlesInv, NamesInv, [Next]_vars PROVE NamesInv'
<1>1. CASE UNCHANGED handlerVars
  BY <1>1 DEF handlerVars, NamesInv, NameTrue, Still
<1>2. ASSUME NEW d \in DriveIds, Disconnect(d) PROVE NamesInv'
  <2> DEFINE S == {y \in DOMAIN handles : handles[y].drive # d}
  <2>1. S \in SUBSET DOMAIN handles /\ handles' = [x \in S |-> handles[x]]
    BY <1>2 DEF Disconnect
  <2> QED BY <1>2, <2>1, ClosedNames DEF Disconnect
<1>3. CASE UNCHANGED item /\ handles' = <<>>
  BY <1>3 DEF NamesInv
<1>4. ASSUME NEW d \in DriveIds, NEW h, CloseFile(h, [id |-> d, vault |-> plan.commands[d].vault])
      PROVE  NamesInv'
  <2> DEFINE S == DOMAIN handles \ {h}
  <2>1. S \in SUBSET DOMAIN handles /\ handles' = [x \in S |-> handles[x]]
    BY <1>4 DEF CloseFile
  <2> QED BY <1>4, <2>1, ClosedNames DEF CloseFile
<1>5. ASSUME NEW d \in DriveIds, HandlerStep([id |-> d, vault |-> plan.commands[d].vault])
      PROVE  NamesInv'
  BY <1>4, <1>5, CreateNames, CleanupNames, ItemNames DEF HandlerStep, ItemSteps
<1> QED BY <1>1, <1>2, <1>3, <1>5, HandlersKept DEF HandlesInv

\* What a handle's name leads to is what the handle was opened on, or nothing,
\* though things are removed by name through any handle (cleanup of handler.rs)
\* and others are made in their place, if no mark is taken back of what is gone.
THEOREM NamesStayTrue == ASSUME Unmarks = FALSE PROVE Spec => []NamesTrue
<1>1. Init => NamesInv
  BY DEF Init, NamesInv
<1>2. NamesInv => NamesTrue
  BY DEF NamesInv, NameTrue, NamesTrue
<1> QED BY <1>1, <1>2, NamesStep, HandlesAlways, PTL DEF Spec

================================================================================
