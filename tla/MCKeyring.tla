----------------------------- MODULE MCKeyring -----------------------------
(***************************************************************************)
(* Small instances of Keyring: an item of the master password and one with *)
(* its own, as model values.                                               *)
(***************************************************************************)
EXTENDS Keyring

CONSTANTS plans, diary
=============================================================================
