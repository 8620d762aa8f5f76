--------------------------- MODULE MCDiskStorage ---------------------------
(* Small instances of DiskStorage for TLC.                                 *)
EXTENDS DiskStorage, TLC
=============================================================================
