--------------------------- MODULE MCStudioStream ---------------------------
(* The live projection and the pages that follow it, for TLC. *)
EXTENDS StudioStream
=============================================================================
