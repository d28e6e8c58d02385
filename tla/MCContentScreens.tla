-------------------------- MODULE MCContentScreens --------------------------
(***************************************************************************)
(* A small instance of ContentScreens for TLC.                             *)
(***************************************************************************)
EXTENDS ContentScreens
=============================================================================
