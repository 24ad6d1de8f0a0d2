----------------------------- MODULE MCTsdbQuery ----------------------------
(* TLC instances of TsdbQuery; the constants are given in the .cfg files.  *)
EXTENDS TsdbQueryInv, TLC

(* A .cfg file has no negative numbers. *)
SignedValues == {-3, 7}
=============================================================================
