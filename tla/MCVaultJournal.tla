--------------------------- MODULE MCVaultJournal ---------------------------
(***************************************************************************)
(* Small instances of VaultJournal: the name docs and the names freePath   *)
(* makes from it (docs (2), ...), as model values; c is folder a with      *)
(* files added.                                                            *)
(***************************************************************************)
EXTENDS VaultLife

CONSTANTS docs, a, b, c

MCVariants == [n \in Names |-> Names \ {n, docs}]
MCGrown    == (Data \cap {a}) \X (Data \cap {c})
=============================================================================
