------------------------------- MODULE VaultTree -------------------------------
(***************************************************************************)
(* The encrypted folder tree of a drive vault and its caches               *)
(* (native/vault2/src/vault.rs), used by several threads at once.          *)
(*                                                                         *)
(* A stored name is the plain name encrypted for the IV of its folder.     *)
(* IVs are random, so a folder's IV stands for the folder itself: a stored *)
(* name is [iv, name], a stored path a sequence of stored names, and the   *)
(* disk says of each thing in which folder it is and under which stored    *)
(* name.                                                                   *)
(***************************************************************************)
EXTENDS Integers, Sequences, FiniteSets

CONSTANTS Folders, Files,  \* folders and files the disk can hold
          Root,            \* the vault's data folder
          Names, Long,     \* names; those whose stored name needs a sidecar
          Fold(_),         \* a name without its case
          Paths,           \* the paths asked for: sequences of names
          Threads,         \* threads that read; changes come one at a time from others
          Disks,           \* what the vault holds when it is opened
          Changes,         \* changes made: "createFile", "createDir", "remove", "rename"
          Overlap,         \* what may get between two steps of a thread that reads: "list",
                           \* "open", "iv" (see MayGo, MayMove and MayOpen)
          Faults,          \* "unlink", "move": the file system refuses it; "crash"
          MaxChanges,      \* bound on the changes of a run
          None

ASSUME TreeAssumption ==
    /\ Root \in Folders /\ Folders \cap Files = {} /\ None \notin Folders \cup Files
    /\ Long \subseteq Names /\ MaxChanges \in Nat
    /\ Paths \subseteq Seq(Names) \ {<<>>}

\* What an earlier run has left: every thing in a folder, under a name it can
\* read and no other thing there has, whatever its case.
IsVault(d) ==
    /\ DOMAIN d \subseteq (Folders \cup Files) \ {Root}
    /\ d \in [DOMAIN d -> [in : Folders, iv : Folders, name : Names]]
    /\ \A n \in DOMAIN d : d[n].in \in DOMAIN d \cup {Root} /\ d[n].iv = d[n].in
    /\ \A n, m \in DOMAIN d : d[n].in = d[m].in /\ Fold(d[n].name) = Fold(d[m].name) => n = m

ASSUME DisksAssumption == \A d \in Disks : IsVault(d)

VARIABLES disk,      \* thing -> [in, iv, name]
          sidecars,  \* the files with long names: [in, iv, name]
          dirs,      \* stored path -> [iv, index]
          files,     \* stored path -> the open file remembered for it
          opened,    \* open file -> [node, path]: the ContentFiles in use
          held,      \* thread -> what it has taken or read and not used yet
          job,       \* what the holder of "changes" still has to do
          left       \* changes left

vars == <<disk, sidecars, dirs, files, opened, held, job, left>>

-------------------------------------------------------------------------------
(* The disk. *)

Without(f, keys) == [k \in DOMAIN f \ keys |-> f[k]]

With(f, key, value) == [k \in DOMAIN f \cup {key} |-> IF k = key THEN value ELSE f[k]]

Child(folder, stored) ==
    LET here == {n \in DOMAIN disk : disk[n].in = folder /\ disk[n].iv = stored.iv
                                                        /\ disk[n].name = stored.name}
    IN  IF here = {} THEN None ELSE CHOOSE n \in here : TRUE

\* The thing at a stored path, if any.
NodeAt(path) ==
    LET walk[k \in 0..Len(path)] ==
            IF k = 0 THEN Root ELSE Child(walk[k - 1], path[k])
    IN  walk[Len(path)]

Stored(n) == [iv |-> disk[n].iv, name |-> disk[n].name]

Inside(n) == {m \in DOMAIN disk : m = n \/ disk[m].in = n \/
                                  (disk[m].in \in DOMAIN disk /\ disk[disk[m].in].in = n)}

\* read_entries: what a folder holds for someone who has "iv" as its IV.
Readable(n, iv) ==
    disk[n].iv = iv /\ (disk[n].name \in Long => disk[n] \in sidecars)

Entries(folder, iv) ==
    {[name |-> disk[n].name, dir |-> n \in Folders] :
        n \in {m \in DOMAIN disk : disk[m].in = folder /\ Readable(m, iv)}}

-------------------------------------------------------------------------------
(* The cache of folders: a lookup takes one and returns it with what it had
   to add. *)

NoIndex == [built |-> FALSE, entries |-> {}]
Index(entries) == [built |-> TRUE, entries |-> entries]

\* dir: remembers the IV of the folder at "path"; nothing if there is none.
DirAt(cache, path) ==
    IF path \in DOMAIN cache \/ NodeAt(path) \notin Folders THEN cache
    ELSE With(cache, path, [iv |-> NodeAt(path), index |-> NoIndex])

\* find: builds the index first; nothing if the folder is gone.
Indexed(cache, path) ==
    IF path \notin DOMAIN cache \/ NodeAt(path) \notin Folders THEN cache
    ELSE IF cache[path].index.built THEN cache
    ELSE [cache EXCEPT ![path].index = Index(Entries(NodeAt(path), cache[path].iv))]

FoundExactly(cache, path, name) ==
    {e \in cache[path].index.entries : e.name = name}

Found(cache, path, name) ==
    {e \in cache[path].index.entries : Fold(e.name) = Fold(name)}

StoredPath(cache, path, name) == Append(path, [iv |-> cache[path].iv, name |-> name])

NotFound(cache) == [cache |-> cache, path |-> <<>>, ok |-> FALSE]
FoundAt(cache, path, name) ==
    [cache |-> cache, path |-> StoredPath(cache, path, name), ok |-> TRUE]

\* One name further on the way of a lookup, from the folder at "path", which
\* is in "cache" if there is one: by the exact name, or through its index.
Exactly(cache, path, name) ==
    IF path \in DOMAIN cache THEN FoundAt(cache, path, name) ELSE NotFound(cache)

ByIndex(cache, path, name) ==
    LET found == IF path \in DOMAIN cache THEN Found(cache, path, name) ELSE {}
    IN  IF found = {} THEN NotFound(cache)
        ELSE FoundAt(cache, path, (CHOOSE e \in found : TRUE).name)

Further(exact, at, name) ==
    LET cache == DirAt(at.cache, at.path)
    IN  IF exact THEN Exactly(cache, at.path, name)
        ELSE ByIndex(Indexed(cache, at.path), at.path, name)

Along(exact, cache, parts) ==
    LET walk[k \in 0..Len(parts)] ==
            IF k = 0 THEN [cache |-> cache, path |-> <<>>, ok |-> TRUE]
            ELSE IF walk[k - 1].ok THEN Further(exact, walk[k - 1], parts[k]) ELSE walk[k - 1]
    IN  walk[Len(parts)]

\* lookup_parts: the exact names first, then through the indexes.  "ok" says
\* that the item was found.
Lookup(cache, parts) ==
    LET direct == Along(TRUE, cache, parts)
    IN  IF direct.ok /\ NodeAt(direct.path) # None THEN direct
        ELSE Along(FALSE, direct.cache, parts)

\* parent and find together: the folder of the item at "parts" and the
\* entries its name finds there.
FindIn(ok, cache, path, name) ==
    LET there == ok /\ path \in DOMAIN cache /\ NodeAt(path) \in Folders
    IN  [cache |-> cache, path |-> path, ok |-> there,
         found |-> IF there THEN Found(cache, path, name) ELSE {}]

FindAt(at, name) ==
    FindIn(at.ok, IF at.ok THEN Indexed(DirAt(at.cache, at.path), at.path) ELSE at.cache,
           at.path, name)

Parent(cache, parts) ==
    FindAt(Lookup(cache, SubSeq(parts, 1, Len(parts) - 1)), parts[Len(parts)])

-------------------------------------------------------------------------------
(* Changes.  One thread at a time holds "changes"; it looks everything up,
   then does one thing after the other, each seen by the other threads. *)

Idle == <<>>

Fresh(pool) ==
    pool \ (DOMAIN disk \cup {dirs[p].iv : p \in DOMAIN dirs} \cup {Root}
            \cup {held[t].iv : t \in Threads} \cup {opened[o].node : o \in DOMAIN opened})

Links(what, n, path)       == <<[do |-> what, node |-> n, path |-> path]>>
OnPath(what, path)         == <<[do |-> what, path |-> path]>>
OnIndex(what, path, entry) == <<[do |-> what, path |-> path, entry |-> entry]>>
Moves(what, path, to)      == <<[do |-> what, path |-> path, to |-> to]>>
IfLong(name, steps)        == IF name \in Long THEN steps ELSE <<>>

MayStart(kind) ==
    /\ left > 0 /\ job = Idle
    /\ kind \in Changes

\* A call keeps what its lookups added to the cache and has "todo" to do.
\* Without anything to do it is over.
Starts(cache, todo) ==
    /\ dirs' = cache
    /\ left' = left - 1
    /\ job' = todo
    /\ UNCHANGED <<disk, sidecars, files, opened, held>>

\* A new thing appears at "path" if that is free; "keep" remembers it.
Creates(p, name, pool, keep, dir) ==
    LET path == StoredPath(p.cache, p.path, name)
        n    == CHOOSE n \in Fresh(pool) : TRUE
    IN  /\ Fresh(pool) # {}
        /\ Starts(p.cache,
              IF ~p.ok \/ p.found # {} \/ NodeAt(path) # None THEN <<>>
              ELSE IfLong(name, OnPath("sidecar", path)) \o Links("create", n, path)
                   \o Links(keep, n, path)
                   \o OnIndex("index", p.path, [name |-> name, dir |-> dir]))

CreateFile(parts) ==
    /\ MayStart("createFile")
    /\ Creates(Parent(dirs, parts), parts[Len(parts)], Files, "remember", FALSE)

\* The folder is built under a temporary name that listings skip, so it
\* appears with its IV in one step.
CreateDir(parts) ==
    /\ MayStart("createDir")
    /\ Creates(Parent(dirs, parts), parts[Len(parts)], Folders, "keepDir", TRUE)

\* is_empty_dir_at: nothing that can be read with the remembered IV.
IsEmptyDir(cache, path) ==
    /\ path \in DOMAIN cache /\ NodeAt(path) \in Folders
    /\ Entries(NodeAt(path), cache[path].iv) = {}

Removes(p, e, path, cache) ==
    LET after == IfLong(e.name, OnPath("unsidecar", path)) \o OnIndex("unindex", p.path, e)
    IN  Starts(cache,
            IF ~e.dir THEN OnPath("unlink", path) \o OnPath("dropFile", path) \o after
            ELSE IF IsEmptyDir(cache, path) THEN OnPath("unlink", path) \o OnPath("forget", path) \o after
            ELSE <<>>)

RemovesAt(p, e, path) ==
    Removes(p, e, path, IF e.dir THEN DirAt(p.cache, path) ELSE p.cache)

Remove(parts) ==
    /\ MayStart("remove")
    /\ \E p \in {Parent(dirs, parts)} :
          \/ p.found = {} /\ Starts(p.cache, <<>>)
          \/ \E e \in p.found : RemovesAt(p, e, StoredPath(p.cache, p.path, e.name))

StartsWith(path, prefix) ==
    Len(prefix) <= Len(path) /\ SubSeq(path, 1, Len(prefix)) = prefix

\* What a rename does: "source" of the folder f goes to "name" in the folder p.
Renames(f, source, sPath, p, name, tPath, replace) ==
    LET target   == CHOOSE e \in p.found : TRUE
        existing == StoredPath(p.cache, p.path, target.name)
        other    == p.found # {} /\ existing # sPath
        clears   == IF ~other THEN <<>>
                    ELSE (IF existing = tPath THEN <<>>
                          ELSE OnPath("unlink", existing)
                               \o IfLong(target.name, OnPath("unsidecar", existing)))
                         \o OnPath("dropFile", existing)
    IN  Starts(p.cache,
            IF \/ ~p.ok
               \/ source.dir /\ StartsWith(p.path, sPath)
               \/ tPath = sPath
               \/ other /\ (~replace \/ target.dir \/ source.dir)
            THEN <<>>
            ELSE clears \o IfLong(name, OnPath("sidecar", tPath))
                 \o Moves("move", sPath, tPath)
                 \o IfLong(source.name, OnPath("unsidecar", sPath))
                 \o OnIndex("unindex", f.path, source)
                 \o (IF p.found = {} THEN <<>> ELSE OnIndex("unindex", p.path, target))
                 \o OnIndex("index", p.path, [name |-> name, dir |-> source.dir])
                 \o Moves("moveDirs", sPath, tPath) \o Moves("moveFiles", sPath, tPath))

Rename(from, to, replace) ==
    /\ MayStart("rename")
    /\ \E f \in {Parent(dirs, from)} :
          \/ f.found = {} /\ Starts(f.cache, <<>>)
          \/ \E source \in f.found, p \in {Parent(f.cache, to)} :
                Renames(f, source, StoredPath(f.cache, f.path, source.name),
                        p, to[Len(to)], StoredPath(p.cache, p.path, to[Len(to)]), replace)

-------------------------------------------------------------------------------
(* The steps of a change. *)

Up(path) == SubSeq(path, 1, Len(path) - 1)
At(path) == [in |-> NodeAt(Up(path)), iv |-> path[Len(path)].iv, name |-> path[Len(path)].name]

\* A removal or rename the file system refuses ends the call.
Gone(step) ==
    /\ step.do \in {"unlink", "move"}
    /\ step.do \in Faults \/ NodeAt(step.path) = None
    /\ job' = Idle
    /\ UNCHANGED <<disk, sidecars, dirs, files, opened>>

\* No thread is at "path" or below between two steps of what it reads.
Away(kind, path) ==
    \A t \in Threads : held[t].kind = kind => ~StartsWith(held[t].path, path)

\* Without "iv" in Overlap, no folder goes while a thread has read its IV and
\* not remembered it; without "list", none moves from or comes to where a
\* thread has taken the remembered state of a folder and not used it.
MayGo(path)   == "iv" \in Overlap \/ Away("iv", path)
MayMove(path) == "list" \in Overlap \/ Away("dir", path)

OnDisk(step) ==
    /\ UNCHANGED <<dirs, files, opened>>
    /\ \/ /\ step.do = "create" /\ MayMove(step.path)
          /\ disk' = With(disk, step.node, At(step.path))
          /\ UNCHANGED sidecars
       \/ /\ step.do = "unlink" /\ NodeAt(step.path) # None /\ MayGo(step.path)
          /\ disk' = Without(disk, Inside(NodeAt(step.path)))
          /\ sidecars' = {s \in sidecars : s.in \notin Inside(NodeAt(step.path))}
       \/ /\ step.do = "move" /\ NodeAt(step.path) # None
          /\ MayGo(step.path) /\ MayMove(step.path) /\ MayMove(step.to)
          /\ disk' = [Without(disk, {NodeAt(step.to)}) EXCEPT ![NodeAt(step.path)] = At(step.to)]
          /\ UNCHANGED sidecars
       \/ /\ step.do = "sidecar"
          /\ sidecars' = sidecars \cup {At(step.path)}
          /\ UNCHANGED disk
       \/ /\ step.do = "unsidecar"
          /\ sidecars' = sidecars \ {At(step.path)}
          /\ UNCHANGED disk

ReindexAdds(step) ==
    /\ step.do \in {"index", "unindex"}
    /\ dirs' = IF step.do = "unindex" \/ step.path \notin DOMAIN dirs
                  \/ ~dirs[step.path].index.built THEN dirs
               ELSE [dirs EXCEPT ![step.path].index.entries =
                        {e \in @ : Fold(e.name) # Fold(step.entry.name)} \cup {step.entry}]
    /\ UNCHANGED <<disk, sidecars, files, opened>>

\* index_insert and index_remove: only if the index is built.
Reindex(step) ==
    /\ step.do \in {"index", "unindex"}
    /\ dirs' = IF step.path \notin DOMAIN dirs \/ ~dirs[step.path].index.built THEN dirs
               ELSE [dirs EXCEPT ![step.path].index.entries =
                        {e \in @ : Fold(e.name) # Fold(step.entry.name)}
                        \cup (IF step.do = "index" THEN {step.entry} ELSE {})]
    /\ UNCHANGED <<disk, sidecars, files, opened>>

RebaseItself(path, old, new) == IF path = old THEN new ELSE path

\* The path "path" after what was at "old" moved to "new".
Rebase(path, old, new) ==
    IF StartsWith(path, old) THEN new \o SubSeq(path, Len(old) + 1, Len(path)) ELSE path

MoveKeys(f, old, new) ==
    LET moved == {k \in DOMAIN f : StartsWith(k, old)}
        rest  == DOMAIN f \ moved
    IN  [k \in {Rebase(m, old, new) : m \in moved} \cup rest |->
            IF \E m \in moved : Rebase(m, old, new) = k
            THEN f[CHOOSE m \in moved : Rebase(m, old, new) = k] ELSE f[k]]

Forget(path) == Without(dirs, {p \in DOMAIN dirs : StartsWith(p, path)})

OnDirs(step) ==
    /\ \/ step.do = "keepDir" /\ dirs' = With(dirs, step.path, [iv |-> step.node, index |-> Index({})])
       \/ step.do = "forget" /\ dirs' = Forget(step.path)
       \/ step.do = "moveDirs" /\ dirs' = MoveKeys(dirs, step.path, step.to)
    /\ UNCHANGED <<disk, sidecars, files, opened>>

NewFile == CHOOSE o \in 1..Cardinality(DOMAIN opened) + 1 : o \notin DOMAIN opened

\* remember: what threads get when they open "path" from now on.
Remember(node, path) ==
    /\ opened' = With(opened, NewFile, [node |-> node, path |-> path])
    /\ files' = With(files, path, NewFile)

OnFiles(step) ==
    /\ \/ step.do = "remember" /\ Remember(step.node, step.path)
       \/ step.do = "dropFile" /\ files' = Without(files, {step.path}) /\ UNCHANGED opened
       \/ /\ step.do = "moveFiles"
          /\ files' = MoveKeys(files, step.path, step.to)
          /\ opened' = [o \in DOMAIN opened |->
                [opened[o] EXCEPT !.path =
                    IF @ \in DOMAIN files /\ files[@] = o THEN Rebase(@, step.path, step.to) ELSE @]]
    /\ UNCHANGED <<disk, sidecars, dirs>>

Continue ==
    /\ job # Idle
    /\ UNCHANGED <<held, left>>
    /\ LET step == Head(job)
       IN  \/ Gone(step)
           \/ /\ job' = Tail(job)
              /\ OnDisk(step) \/ Reindex(step) \/ OnDirs(step) \/ OnFiles(step)

-------------------------------------------------------------------------------
(* Threads that read.  They go from folder to folder: the remembered state of
   one is taken in one step and used in another, and what is not remembered is
   read from the disk in one step and remembered in another. *)

Nothing == [kind |-> "nothing", path |-> <<>>, iv |-> None]

Takes(t, kind, path, iv) ==
    /\ held[t].kind = "nothing"
    /\ held' = [held EXCEPT ![t] = [kind |-> kind, path |-> path, iv |-> iv]]

LetsGo(t) == held' = [held EXCEPT ![t] = Nothing]

\* dir, for a folder that is remembered.  Its IV tells its state from others,
\* wherever a rename takes the state meanwhile.
TakeDir(t, path) ==
    /\ path \in DOMAIN dirs
    /\ Takes(t, "dir", path, dirs[path].iv)
    /\ UNCHANGED <<disk, sidecars, dirs, files, opened, job, left>>

\* find and list, with the index locked: what is at the path by now becomes
\* the index of the state taken before, unless that has one.
Filled(cache, path, iv) ==
    [p \in DOMAIN cache |->
        IF cache[p].iv # iv \/ cache[p].index.built THEN cache[p]
        ELSE [cache[p] EXCEPT !.index = Index(Entries(NodeAt(path), iv))]]

\* lookup_exact only needs the IV.
UseDir(t) ==
    /\ held[t].kind = "dir" /\ LetsGo(t)
    /\ \/ UNCHANGED dirs
       \/ /\ NodeAt(held[t].path) \in Folders
          /\ dirs' = Filled(dirs, held[t].path, held[t].iv)
    /\ UNCHANGED <<disk, sidecars, files, opened, job, left>>

\* The way to what "parts" names, past folders remembered by now or not.
Way(parts) == Along(TRUE, dirs, parts)

\* dir, for a folder that is not remembered: reads its IV, ...
ReadIv(t, parts) ==
    /\ LET at == Way(parts)
       IN  /\ at.ok /\ NodeAt(at.path) \in Folders /\ at.path \notin DOMAIN dirs
           /\ Takes(t, "iv", at.path, NodeAt(at.path))
    /\ UNCHANGED <<disk, sidecars, dirs, files, opened, job, left>>

\* ... and remembers it if nobody has by now.
KeepIv(t) ==
    /\ held[t].kind = "iv" /\ LetsGo(t)
    /\ dirs' = IF held[t].path \in DOMAIN dirs THEN dirs
               ELSE With(dirs, held[t].path, [iv |-> held[t].iv, index |-> NoIndex])
    /\ UNCHANGED <<disk, sidecars, files, opened, job, left>>

\* Without "open" in Overlap, files are looked up and opened between changes.
MayOpen == job = Idle \/ "open" \in Overlap

\* The last step of a lookup that finds a file.
LookupFile(t, parts) ==
    /\ MayOpen
    /\ LET at == Way(parts)
       IN  at.ok /\ NodeAt(at.path) \in Files /\ Takes(t, "item", at.path, None)
    /\ UNCHANGED <<disk, sidecars, dirs, files, opened, job, left>>

NotRemembered(path) == FALSE
Remembered(path)    == path \in DOMAIN files

\* open_file, under the lock of "files".
OpenFile(t) ==
    /\ held[t].kind = "item" /\ MayOpen /\ LetsGo(t)
    /\ LET path == held[t].path
       IN  IF Remembered(path) \/ NodeAt(path) \notin Files
           THEN UNCHANGED <<files, opened>>
           ELSE Remember(NodeAt(path), path)
    /\ UNCHANGED <<disk, sidecars, dirs, job, left>>

\* The last handle of a file is closed: the weak reference to it is as good
\* as none.
CloseFile(o) ==
    /\ opened' = Without(opened, {o})
    /\ files' = Without(files, {p \in DOMAIN files : files[p] = o})
    /\ UNCHANGED <<disk, sidecars, dirs, held, job, left>>

\* The process ends, whatever it is at, and the vault is opened again.
NewDirs == [path \in {<<>>} |-> [iv |-> Root, index |-> NoIndex]]
Restart ==
    /\ "crash" \in Faults
    /\ dirs' = NewDirs /\ files' = <<>> /\ opened' = <<>>
    /\ held' = [t \in Threads |-> Nothing] /\ job' = Idle
    /\ UNCHANGED <<disk, sidecars, left>>

-------------------------------------------------------------------------------
Init ==
    /\ disk \in Disks
    /\ sidecars = {disk[n] : n \in {m \in DOMAIN disk : disk[m].name \in Long}}
    /\ dirs = NewDirs /\ files = <<>> /\ opened = <<>>
    /\ held = [t \in Threads |-> Nothing]
    /\ job = Idle
    /\ left = MaxChanges

Next ==
    \/ \E parts \in Paths :
          \/ CreateFile(parts) \/ CreateDir(parts) \/ Remove(parts)
          \/ \E to \in Paths, replace \in BOOLEAN : Rename(parts, to, replace)
          \/ \E t \in Threads : LookupFile(t, parts) \/ ReadIv(t, parts)
    \/ \E t \in Threads :
          \/ \E path \in DOMAIN dirs : TakeDir(t, path)
          \/ UseDir(t) \/ KeepIv(t) \/ OpenFile(t)
    \/ Continue
    \/ \E o \in DOMAIN opened : CloseFile(o)
    \/ Restart

Spec == Init /\ [][Next]_vars

-------------------------------------------------------------------------------
(* Properties. *)

\* What the drive shows: the things whose stored name the folder's own IV
\* (and, if it is long, its sidecar) can decrypt.
Visible ==
    LET shown == {n \in DOMAIN disk : Readable(n, disk[n].in)}
    IN  [n \in {m \in shown : disk[m].in \in shown \cup {Root}} |->
            [in |-> disk[n].in, name |-> disk[n].name]]

\* Seen through the drive, the vault is a tree of files and folders: names
\* stay unique without their case, nothing gets lost or unreadable by a
\* rename, and only empty folders disappear (create_file, create_dir, remove
\* and rename of vault.rs), also when the process ends half-way.
Drive == INSTANCE DriveTree WITH tree <- Visible
DriveSpec == Drive!Spec

\* No two ContentFiles are open for one stored file: "All handles to the same
\* file must share one instance" (content.rs:167).
OneFile == \A o, p \in DOMAIN opened : opened[o].node = opened[p].node => o = p

\* Between changes, the caches say what is on the disk: a remembered IV is the
\* folder's (vault.rs:445), a built index holds what its folder holds
\* (vault.rs:8), and a remembered open file is the one at its path
\* (vault.rs:138), so open_file never answers with a file that is gone while
\* another one has its name.
CachesTrue ==
    job = Idle =>
      /\ \A p \in DOMAIN dirs : NodeAt(p) \in Folders =>
            /\ dirs[p].iv = NodeAt(p)
            /\ dirs[p].index.built => dirs[p].index.entries = Entries(NodeAt(p), dirs[p].iv)
      /\ \A p \in DOMAIN files : NodeAt(p) # None
            => opened[files[p]].node = NodeAt(p)

\* Between changes, an open file that was not removed knows where it is
\* stored, through every move of it and of the folders around it
\* (ContentFile::path, used to open it again for writing or its attributes).
PathTrue ==
    job = Idle =>
      \A o \in DOMAIN opened :
          opened[o].node \in DOMAIN disk => NodeAt(opened[o].path) = opened[o].node
===============================================================================
