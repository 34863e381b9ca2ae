-------------------------------- MODULE TreeCopy --------------------------------
(***************************************************************************)
(* Copying a folder into a vault and back, and comparing the two at the    *)
(* end (native/vault2/src/tree.rs, native/drive/src/jobs.rs), while the    *)
(* user goes on working with the plain folder.                             *)
(*                                                                         *)
(* A tree maps paths to [kind, data]; data is the sequence of the chunks a *)
(* file is copied in.  One job at a time; Drives has what starts, cancels  *)
(* and answers it.                                                         *)
(***************************************************************************)
EXTENDS Naturals, SequencesExt

CONSTANTS Names,
          Paths,     \* where the user may put files
          Contents,  \* what the user may put there
          NoPath

\* A path is the names on the way from the folder that is copied.
AllPaths == Seq(Names) \ {<<>>}

ASSUME PathsAssumption == /\ Paths \subseteq AllPaths /\ NoPath \notin AllPaths
                          /\ Contents \subseteq Seq(Nat)

VARIABLES source,    \* the tree that is copied: the folder, or the vault
          copy,      \* what it is copied to: the vault, or the new folder
          walk,      \* the job under way
          edits      \* changes the user may still make

copyVars == <<source, copy, walk, edits>>

Dir        == [kind |-> "dir", data |-> <<>>]
File(data) == [kind |-> "file", data |-> data]

Put(f, k, v) == [x \in DOMAIN f \cup {k} |-> IF x = k THEN v ELSE f[x]]

\* What is in a folder of the tree.
IsTree(tree) ==
    /\ IsFiniteSet(DOMAIN tree) /\ DOMAIN tree \subseteq AllPaths
    /\ tree \in [DOMAIN tree -> [kind : {"dir", "file", "link"}, data : Seq(Nat)]]
    /\ \A p \in DOMAIN tree :
          /\ tree[p].kind = "dir" => tree[p] = Dir
          /\ Front(p) # <<>> => Front(p) \in DOMAIN tree /\ tree[Front(p)] = Dir

Under(dir, p)      == Len(p) = Len(dir) + 1 /\ IsPrefix(dir, p)
Children(tree, dir) == {p \in DOMAIN tree : Under(dir, p)}

\* The plain folder: what an import reads and an export writes.
Plain == IF walk.job = "import" THEN source ELSE copy
Other == IF walk.job = "import" THEN copy ELSE source

NoWalk == [job |-> "none", phase |-> "idle", todo |-> <<>>, at |-> NoPath,
           offset |-> 0, touched |-> FALSE]

Goes(phase) == walk' = [walk EXCEPT !.phase = phase]

\* No entry is left and no file is open.
AtEnd == walk.todo = <<>> /\ walk.at = NoPath
Entry == Head(walk.todo)
Enters(dir, tree) ==
    walk' = [walk EXCEPT !.todo = SetToSeq(Children(tree, dir)) \o Tail(@)]
OpensFile == walk' = [walk EXCEPT !.todo = Tail(@), !.at = Entry, !.offset = 0]
FileDone == walk' = [walk EXCEPT !.at = NoPath]

(***************************************************************************)
(* import and export of jobs.rs: scan (vault_stats for an export), copy,   *)
(* verify.                                                                 *)
(***************************************************************************)
Begin(job) ==
    /\ walk.phase = "idle"
    /\ walk' = [NoWalk EXCEPT !.job = job, !.phase = "scan"]
    /\ UNCHANGED <<source, copy, edits>>

Scan ==
    /\ walk.phase = "scan"
    /\ walk' = IF \E p \in DOMAIN source : source[p].kind = "link"
               THEN [walk EXCEPT !.phase = "failed"]
               ELSE [walk EXCEPT !.phase = "copy",
                                 !.todo = SetToSeq(Children(source, <<>>))]
    /\ UNCHANGED <<source, copy, edits>>

\* The next entry: gone, a link, or there already; a folder; a file, which is
\* created empty and opened.
CopyEntry ==
    /\ walk.phase = "copy" /\ walk.at = NoPath /\ walk.todo # <<>>
    /\ LET gone == Entry \notin DOMAIN source
       IN  IF gone \/ Entry \in DOMAIN copy \/ (~gone /\ source[Entry].kind = "link")
           THEN Goes("failed") /\ UNCHANGED copy
           ELSE IF source[Entry].kind = "dir"
           THEN Enters(Entry, source) /\ copy' = Put(copy, Entry, Dir)
           ELSE OpensFile /\ copy' = Put(copy, Entry, File(<<>>))
    /\ UNCHANGED <<source, edits>>

\* A chunk of the open file.  The user's changes show in what is left to read.
CopyChunk(cancelled) ==
    /\ walk.phase = "copy" /\ walk.at # NoPath
    /\ LET data == source[walk.at].data
       IN  IF walk.offset >= Len(data)
           THEN FileDone /\ UNCHANGED copy
           ELSE /\ copy' = [copy EXCEPT ![walk.at].data = Append(@, data[walk.offset + 1])]
                /\ walk' = [walk EXCEPT !.offset = @ + 1,
                                        !.phase = IF cancelled THEN "failed" ELSE @]
    /\ UNCHANGED <<source, edits>>

AnyCount(dir)  == TRUE
SameCount(dir) == Cardinality(Children(source, dir)) = Cardinality(Children(copy, dir))

Copied ==
    /\ walk.phase = "copy" /\ AtEnd
    /\ walk' = [walk EXCEPT !.phase = IF SameCount(<<>>) THEN "verify" ELSE "failed",
                            !.todo = SetToSeq(Children(Plain, <<>>)), !.touched = FALSE]
    /\ UNCHANGED <<source, copy, edits>>

\* verify_dir: the names and kinds agree, folders have as many entries, files
\* the same length.
VerifyEntry ==
    /\ walk.phase = "verify" /\ walk.at = NoPath /\ walk.todo # <<>>
    /\ LET there == Entry \in DOMAIN source \cap DOMAIN copy
       IN  IF ~there \/ (there /\ source[Entry].kind # copy[Entry].kind) THEN Goes("failed")
           ELSE IF source[Entry].kind = "dir"
           THEN IF SameCount(Entry) THEN Enters(Entry, Plain) ELSE Goes("failed")
           ELSE IF Len(source[Entry].data) = Len(copy[Entry].data)
           THEN OpensFile ELSE Goes("failed")
    /\ UNCHANGED <<source, copy, edits>>

Chunk(data) == IF walk.offset < Len(data) THEN <<data[walk.offset + 1]>> ELSE <<>>

VerifyChunk(cancelled) ==
    /\ walk.phase = "verify" /\ walk.at # NoPath
    /\ LET s == Chunk(source[walk.at].data)
           c == Chunk(copy[walk.at].data)
       IN  IF s # c THEN Goes("failed")
           ELSE IF s = <<>> THEN FileDone
           ELSE walk' = [walk EXCEPT !.offset = @ + 1,
                                     !.phase = IF cancelled THEN "failed" ELSE @]
    /\ UNCHANGED <<source, copy, edits>>

Verified ==
    /\ walk.phase = "verify" /\ AtEnd
    /\ Goes("ok")
    /\ UNCHANGED <<source, copy, edits>>

Step(cancelled) ==
    \/ Scan \/ Copied \/ Verified
    \/ CopyEntry \/ VerifyEntry
    \/ CopyChunk(cancelled) \/ VerifyChunk(cancelled)

(***************************************************************************)
(* The user changes, adds or removes a file of the plain folder; the open  *)
(* one may only be changed while it is read.                               *)
(***************************************************************************)
Changed(tree) ==
    /\ IF walk.job = "import" THEN source' = tree /\ UNCHANGED copy
       ELSE copy' = tree /\ UNCHANGED source
    /\ edits' = edits - 1
    /\ walk' = [walk EXCEPT !.touched = TRUE]

IsFile(p)   == p \in DOMAIN Plain /\ Plain[p].kind = "file"
IsFolder(p) == p = <<>> \/ (p \in DOMAIN Plain /\ Plain[p].kind = "dir")

Edit(p, data) ==
    /\ edits > 0 /\ walk.phase \in {"copy", "verify"}
    /\ p = walk.at => walk.job = "import"
    /\ IsFile(p) \/ (p \notin DOMAIN Plain /\ IsFolder(Front(p)))
    /\ Changed(Put(Plain, p, File(data)))

Delete(p) ==
    /\ edits > 0 /\ walk.phase \in {"copy", "verify"}
    /\ IsFile(p) /\ p # walk.at
    /\ Changed([q \in DOMAIN Plain \ {p} |-> Plain[q]])

UserStep == \E p \in Paths : Delete(p) \/ \E data \in Contents : Edit(p, data)

(***************************************************************************)
(* "Checks that the vault holds exactly what source holds: the same names, *)
(* and files with the same bytes." (tree.rs:151): whatever the user did    *)
(* while the files were copied, a job that ends well leaves two equal      *)
(* trees, unless the user went on after the comparison had begun.          *)
(***************************************************************************)
CopyExact == walk.phase = "ok" /\ ~walk.touched => copy = source
=================================================================================
