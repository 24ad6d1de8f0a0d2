----------------------------- MODULE MCTsdbStore ----------------------------
(* TLC instances of TsdbStore; the constants are given in the .cfg files.  *)
EXTENDS TsdbRingInv, TLC
=============================================================================
