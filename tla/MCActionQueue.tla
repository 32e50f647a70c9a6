--------------------------- MODULE MCActionQueue ---------------------------
(***************************************************************************)
(* Two loops and two actions for the same character; two attempts each and *)
(* one crash.                                                              *)
(***************************************************************************)
EXTENDS ActionQueue

CONSTANT character

MCConflictKey == << character, character >>
=============================================================================
