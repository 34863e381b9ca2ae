------------------------------ MODULE MCVaultTree ------------------------------
(* A small vault for VaultTree: two names that differ in their case and a
   long one, and a vault with something in it. *)
EXTENDS VaultTree, TLC

MCFold(name) == IF name = "A" THEN "a" ELSE name

MCPaths == {<<"a">>, <<"A">>, <<"b">>, <<"a", "a">>, <<"a", "A">>, <<"A", "b">>, <<"b", "b">>}

\* A folder with a file in it, and a folder with a long name.
MCDisks ==
    { (2 :> [in |-> 1, iv |-> 1, name |-> "a"]) @@ (11 :> [in |-> 2, iv |-> 2, name |-> "a"])
      @@ (3 :> [in |-> 1, iv |-> 1, name |-> "b"]) }
===============================================================================
