---------------------------- MODULE MCGifFrames ----------------------------
(***************************************************************************)
(* A small instance of GifFrames for TLC.                                  *)
(***************************************************************************)
EXTENDS GifFrames
=============================================================================
