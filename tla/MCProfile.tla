------------------------------ MODULE MCProfile -----------------------------
(***************************************************************************)
(* Small instances of Profile for TLC.                                     *)
(***************************************************************************)
EXTENDS Profile, TLC

\* The first account has an e-mail and, linked to it, a Google identity; the second
\* logs in with Facebook or Apple only, and has no document.
MCProviderData == [u \in Users |-> IF u = 1 THEN <<"google", "other">> ELSE <<"other">>]

Symmetry == Permutations(Screens) \cup Permutations(Fetches)
=============================================================================
