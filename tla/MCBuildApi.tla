----------------------------- MODULE MCBuildApi -----------------------------
(***************************************************************************)
(* Small instances of BuildApi for TLC.  Two values of one byte fit in a   *)
(* pool of three, one of three does not share it, and a value of four is   *)
(* larger than a pool.  The empty string asks for no byte at all.          *)
(***************************************************************************)
EXTENDS BuildApi

Lengths == {0, 1, 4}

=============================================================================
