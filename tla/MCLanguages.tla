---------------------------- MODULE MCLanguages -----------------------------
(***************************************************************************)
(* A small instance of Languages for TLC.                                  *)
(***************************************************************************)
EXTENDS Languages
=============================================================================
