---------------------------- MODULE MCTsdbHandle ----------------------------
(* TLC instances of TsdbHandle; the users are interchangeable. *)
EXTENDS TsdbHandleInv, TLC

Symmetry == Permutations(Users) \cup Permutations(Handles)
=============================================================================
