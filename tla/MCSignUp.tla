------------------------------ MODULE MCSignUp ------------------------------
(***************************************************************************)
(* Small instances of SignUp for TLC.                                      *)
(***************************************************************************)
EXTENDS SignUp
=============================================================================
