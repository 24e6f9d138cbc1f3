---------------------------- MODULE MCFileStore ----------------------------
(* Instances of FileStore for TLC.                                         *)
EXTENDS FileStore

CONSTANTS p1, p2, k1, k2, v1
=============================================================================
