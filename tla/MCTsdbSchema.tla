---------------------------- MODULE MCTsdbSchema ----------------------------
(* TLC instances of TsdbSchemaInv; a .cfg file has no sequences. *)
EXTENDS TsdbSchemaInv, TLC

OneColumn == <<"a">>
MigratedSchemas == {<<"b", "a">>, <<"c">>}
ExtraSchemas == {<<"c">>, <<"d", "c">>}
=============================================================================
