----------------------------- MODULE MCCatalogue ----------------------------
(***************************************************************************)
(* Small instances of Catalogue for TLC: two queries stand for the three   *)
(* of the home screen, and the codes 299 and 300 for the border between    *)
(* success and failure.                                                    *)
(***************************************************************************)
EXTENDS Catalogue

\* No records, which is laid out as one item, and an empty list of them.
MCCounts == {None, 0}
=============================================================================
