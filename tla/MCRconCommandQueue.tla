------------------------- MODULE MCRconCommandQueue -------------------------
(***************************************************************************)
(* Small instances of RconCommandQueue for TLC.                            *)
(***************************************************************************)
EXTENDS RconCommandQueue
=============================================================================
