------------------------------ MODULE MCTabBar ------------------------------
(***************************************************************************)
(* Small instances of TabBar for TLC: home and settings, and the news      *)
(* for the tabs that push nothing.                                         *)
(***************************************************************************)
EXTENDS TabBar
=============================================================================
