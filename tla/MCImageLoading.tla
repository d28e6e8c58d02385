--------------------------- MODULE MCImageLoading ---------------------------
(***************************************************************************)
(* Small instances of ImageLoading for TLC.                                *)
(***************************************************************************)
EXTENDS ImageLoading
=============================================================================
