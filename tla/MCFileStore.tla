---------------------------- MODULE MCFileStore ----------------------------
(***************************************************************************)
(* The instance of FileStore for TLC: days of four ticks, two of them.     *)
(***************************************************************************)
EXTENDS FileStore
=============================================================================
