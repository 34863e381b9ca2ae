------------------------------- MODULE DriveTree -------------------------------
(***************************************************************************)
(* What a drive shows and promises: a tree of files and folders, whose     *)
(* names differ in more than their case within a folder.  Nothing          *)
(* disappears unless it is removed or replaced, and only empty folders are *)
(* removed.                                                                *)
(***************************************************************************)
CONSTANTS Folders, Files,   \* what the tree can hold; Root is one of Folders
          Root,
          Names,
          Fold(_)           \* a name without its case

VARIABLE tree               \* what is there -> [in: its folder, name: its name]

Free(folder, name, but) ==
    \A n \in DOMAIN tree \ but :
        tree[n].in = folder => Fold(tree[n].name) # Fold(name)

Place(n, folder, name, gone) ==
    tree' = [m \in (DOMAIN tree \ gone) \cup {n} |->
                IF m = n THEN [in |-> folder, name |-> name] ELSE tree[m]]

There == DOMAIN tree \cup {Root}

Init == \A n \in DOMAIN tree :
            tree[n].in \in There \cap Folders /\ Free(tree[n].in, tree[n].name, {n})

Create(n, folder, name) ==
    /\ n \notin DOMAIN tree /\ folder \in There \cap Folders
    /\ Free(folder, name, {})
    /\ Place(n, folder, name, {})

Remove(n) ==
    /\ \A m \in DOMAIN tree : tree[m].in # n
    /\ tree' = [m \in DOMAIN tree \ {n} |-> tree[m]]

\* The folder is neither n nor in it: all it is in, up to the root, is not n.
Apart(n, folder) ==
    \E above \in SUBSET There :
        /\ folder \in above /\ n \notin above
        /\ \A m \in above \ {Root} : tree[m].in \in above

Rename(n, folder, name) ==
    /\ folder \in There \cap Folders /\ Apart(n, folder)
    /\ Free(folder, name, {n})
    /\ Place(n, folder, name, {})

\* A file takes the name and place of another one.
Replace(n, m) ==
    /\ n # m /\ {n, m} \subseteq Files
    /\ \E name \in Names :
          /\ Fold(name) = Fold(tree[m].name)
          /\ Place(n, tree[m].in, name, {m})

Next ==
    \/ \E n \in (Folders \cup Files) \ There, folder \in There, name \in Names :
          Create(n, folder, name)
    \/ \E n \in DOMAIN tree :
          \/ Remove(n)
          \/ \E folder \in There, name \in Names : Rename(n, folder, name)
          \/ \E m \in DOMAIN tree : Replace(n, m)

Spec == Init /\ [][Next]_tree
===============================================================================
