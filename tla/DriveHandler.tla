------------------------------ MODULE DriveHandler ------------------------------
(***************************************************************************)
(* What programs do on a drive: the callbacks Dokany calls for them        *)
(* (native/drive/src/drives/handler.rs).                                   *)
(*                                                                         *)
(* Each vault is seen through one path on its drive, at which there is     *)
(* nothing, a folder or a file; files have a number, so that one made in   *)
(* the place of another is told from it.  VaultTree has the tree itself,   *)
(* ContentFile the contents.  Calls that only fail are left out, and so    *)
(* are hidden and system files, which only make more of them fail.         *)
(***************************************************************************)
EXTENDS Naturals, FiniteSets

CONSTANTS Vaults, Handles, MaxFiles,
          Unmarks    \* whether the mark of what is gone already may be taken back

VARIABLES item,      \* vault -> what is at the path: [kind, no, readOnly, data]
          handles,   \* open handle -> what it was opened for
          marked,    \* vaults where the thing at the path is to be deleted on close
          openFiles  \* drive -> the handles that count as in use

handlerVars == <<item, handles, marked, openFiles>>

Things  == [kind : {"none", "dir", "file"}, no : Nat, readOnly : BOOLEAN, data : BOOLEAN]
Nothing == [kind |-> "none", no |-> 0, readOnly |-> FALSE, data |-> FALSE]

\* A drive [id, vault] is served by Drives.
On(h, drive) == handles[h].drive = drive.id
\* A new handle takes the first number that is free.
Free(h)      == h \notin DOMAIN handles /\ 1..(h - 1) \subseteq DOMAIN handles

\* A handle counts as in use if it can read or change the contents; others
\* only look at the name, times or attributes.
DataAccess == {"read", "write"}

\* open_new, and the handles of folders.
Opens(h, drive, kind, no, access, delete) ==
    LET data == kind = "file" /\ access \in DataAccess
    IN  /\ handles' = [x \in DOMAIN handles \cup {h} |->
              IF x # h THEN handles[x]
              ELSE [drive |-> drive.id, vault |-> drive.vault, kind |-> kind, no |-> no,
                    access |-> access, inUse |-> data, cleaned |-> FALSE]]
        /\ marked' = IF delete THEN marked \cup {drive.vault} ELSE marked
        /\ openFiles' = [openFiles EXCEPT ![drive.id] = IF data THEN @ + 1 ELSE @]

(***************************************************************************)
(* create_file, by what the lookup finds and the caller wants.             *)
(***************************************************************************)
OpenFolder(h, drive, want, disposition, delete) ==
    /\ item[drive.vault].kind = "dir" /\ want # "file"
    /\ disposition \in {"open", "openIf"}
    /\ Opens(h, drive, "dir", item[drive.vault].no, "look", delete)
    /\ UNCHANGED item

OpenFile(h, drive, want, disposition, access, delete) ==
    LET f == item[drive.vault]
    IN  /\ f.kind = "file" /\ want # "dir"
        /\ disposition \in {"open", "openIf"}
        /\ f.readOnly => access # "write" /\ ~delete
        /\ Opens(h, drive, "file", f.no, access, delete)
        /\ UNCHANGED item

\* The file is emptied and takes the attributes it is opened with.
OverwriteFile(h, drive, want, disposition, access, delete, readOnly) ==
    LET f == item[drive.vault]
    IN  /\ f.kind = "file" /\ want # "dir"
        /\ disposition \in {"supersede", "overwrite", "overwriteIf"}
        /\ ~f.readOnly
        /\ item' = [item EXCEPT ![drive.vault] =
                        [f EXCEPT !.data = FALSE, !.readOnly = readOnly]]
        /\ Opens(h, drive, "file", f.no, access, delete)

LastNo(vault) ==
    LET nos == {item[vault].no} \cup {handles[h].no : h \in DOMAIN handles}
    IN  CHOOSE n \in nos : \A m \in nos : m <= n

Make(h, drive, kind, access, delete, readOnly) ==
    LET no == LastNo(drive.vault) + 1
    IN  /\ item[drive.vault].kind = "none" /\ no <= MaxFiles
        /\ item' = [item EXCEPT ![drive.vault] =
                        [kind |-> kind, no |-> no, readOnly |-> readOnly, data |-> FALSE]]
        /\ Opens(h, drive, kind, no, access, delete)

MakeFolder(h, drive, want, disposition, delete, readOnly) ==
    /\ want = "dir" /\ disposition \in {"create", "openIf"}
    /\ Make(h, drive, "dir", "look", delete, readOnly)

MakeFile(h, drive, want, disposition, access, delete, readOnly) ==
    /\ want # "dir" /\ disposition \in {"supersede", "create", "openIf", "overwriteIf"}
    /\ Make(h, drive, "file", access, delete, readOnly)

Dispositions == {"supersede", "open", "create", "openIf", "overwrite", "overwriteIf"}

\* Windows opens nothing that is marked, until all its handles are closed.
CreateFile(h, drive) ==
    /\ Free(h) /\ drive.vault \notin marked
    /\ \E want \in {"any", "dir", "file"}, delete \in BOOLEAN, disposition \in Dispositions :
          \/ OpenFolder(h, drive, want, disposition, delete)
          \/ \E readOnly \in BOOLEAN : MakeFolder(h, drive, want, disposition, delete, readOnly)
          \/ \E access \in {"look"} \cup DataAccess :
                \/ OpenFile(h, drive, want, disposition, access, delete)
                \/ \E readOnly \in BOOLEAN :
                      \/ OverwriteFile(h, drive, want, disposition, access, delete, readOnly)
                      \/ MakeFile(h, drive, want, disposition, access, delete, readOnly)

(***************************************************************************)
(* Open handles.  A removed file stays readable and writable through them. *)
(***************************************************************************)
Still(h)   == item[handles[h].vault].no = handles[h].no
              /\ item[handles[h].vault].kind = handles[h].kind
Uses(h, drive) == h \in DOMAIN handles /\ On(h, drive) /\ ~handles[h].cleaned

\* The contents change through a handle; "data" says whether any are left.
Changes(h, drive, data) ==
    /\ Uses(h, drive) /\ handles[h].kind = "file" /\ handles[h].access = "write"
    /\ item' = IF Still(h) THEN [item EXCEPT ![drive.vault].data = data] ELSE item
    /\ UNCHANGED <<handles, marked, openFiles>>

WriteFile(h, drive)          == Changes(h, drive, TRUE)
SetEndOfFile(h, drive, data) == Changes(h, drive, data)
\* A smaller size cuts the file; no space is reserved.
SetAllocationSize(h, drive)  == Changes(h, drive, FALSE)

\* A folder's handle goes by its name.
SetFileAttributes(h, drive, readOnly) ==
    /\ Uses(h, drive)
    /\ handles[h].kind = "dir" => item[drive.vault].kind # "none"
    /\ item' = IF Still(h) \/ handles[h].kind = "dir"
               THEN [item EXCEPT ![drive.vault].readOnly = readOnly] ELSE item
    /\ UNCHANGED <<handles, marked, openFiles>>

\* delete_file and delete_directory, to set or to clear the mark.  A folder is
\* looked up by its name.
DeleteOnClose(h, drive, delete) ==
    /\ Uses(h, drive)
    /\ delete /\ handles[h].kind = "file" /\ Still(h) => ~item[drive.vault].readOnly
    /\ delete /\ handles[h].kind = "dir" => item[drive.vault].kind = "dir"
    /\ ~delete => Still(h) \/ Unmarks
    /\ marked' = IF delete THEN marked \cup {drive.vault} ELSE marked \ {drive.vault}
    /\ UNCHANGED <<item, handles, openFiles>>

ReleaseTwice(h) == openFiles' = [openFiles EXCEPT ![handles[h].drive] = @ - 1]

\* release: the handle doesn't count any more, and only once.
Release(h) ==
    LET d == handles[h].drive
    IN  openFiles' = [openFiles EXCEPT ![d] = IF handles[h].inUse THEN @ - 1 ELSE @]

CleanupRemovesAll(h, drive) ==
    /\ Uses(h, drive)
    /\ Release(h)
    /\ item' = [item EXCEPT ![drive.vault] = Nothing]
    /\ UNCHANGED marked
    /\ handles' = [handles EXCEPT ![h].cleaned = TRUE, ![h].inUse = FALSE]

\* The program has closed the handle; what is marked is removed by its name.
\* The file system may refuse that if it has become read-only.
Cleanup(h, drive) ==
    /\ Uses(h, drive)
    /\ Release(h)
    /\ \/ /\ drive.vault \in marked
          /\ item' = [item EXCEPT ![drive.vault] = Nothing]
       \/ /\ drive.vault \in marked => item[drive.vault].readOnly
          /\ UNCHANGED item
    /\ UNCHANGED marked
    /\ handles' = [handles EXCEPT ![h].cleaned = TRUE, ![h].inUse = FALSE]

\* Windows is done with the handle.
CloseFile(h, drive) ==
    /\ h \in DOMAIN handles /\ On(h, drive) /\ handles[h].cleaned
    /\ Release(h)
    /\ handles' = [x \in DOMAIN handles \ {h} |-> handles[x]]
    /\ marked' = marked \ {v \in Vaults : \A x \in DOMAIN handles' : handles'[x].vault # v}
    /\ UNCHANGED item

\* The drive is gone, and the handles on it.
Disconnect(id) ==
    /\ handles' = [x \in {y \in DOMAIN handles : handles[y].drive # id} |-> handles[x]]
    /\ openFiles' = [openFiles EXCEPT ![id] = 0]
    /\ marked' = marked \ {v \in Vaults : \A x \in DOMAIN handles' : handles'[x].vault # v}
    /\ UNCHANGED item

HandlerStep(drive) ==
    \E h \in Handles :
        \/ CreateFile(h, drive) \/ Cleanup(h, drive) \/ CloseFile(h, drive)
        \/ WriteFile(h, drive) \/ SetAllocationSize(h, drive)
        \/ \E b \in BOOLEAN : SetEndOfFile(h, drive, b) \/ DeleteOnClose(h, drive, b)
        \/ \E readOnly \in BOOLEAN : SetFileAttributes(h, drive, readOnly)

(***************************************************************************)
(* Properties.                                                             *)
(***************************************************************************)

\* The helper knows how many handles read or change files: each counts from
\* create_file until the program closes it, once, though cleanup and close
\* both release it.  A count too high would keep the drive from ever closing,
\* one too low would close it over open files (handler.rs:167).
CountTrue ==
    \A d \in DOMAIN openFiles :
        openFiles[d] = Cardinality({h \in DOMAIN handles :
            /\ handles[h].drive = d /\ ~handles[h].cleaned
            /\ handles[h].kind = "file" /\ handles[h].access # "look"})

\* Removals (handler.rs:293), the attributes of folders (:432) and their
\* deletion (:503) go by name.  What such a call finds at its name is what its
\* handle was opened on, never a thing that took the place of one removed
\* through another handle.
NamesTrue ==
    \A h \in DOMAIN handles : item[handles[h].vault].kind # "none" => Still(h)
=================================================================================
