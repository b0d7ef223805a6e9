---------------------------------- MODULE MCBson ----------------------------------
(* Small instances of Bson: two keys, one of them the character 1, so that an array   *)
(* may have it in its turn or out of it; values of every shape, empty or of one cell, *)
(* two of them with text that is not UTF-8.                                           *)
EXTENDS BsonValidator

MCKeys == {<<97>>, <<49>>}
MCValues ==
  {[type |-> INT32, cells |-> <<7>>], [type |-> NULL, cells |-> <<>>],
   [type |-> UTF8, cells |-> <<2, 99, 0>>], [type |-> UTF8, cells |-> <<2, Invalid, 0>>],
   [type |-> CODE, cells |-> <<2, Invalid, 0>>], [type |-> BINARY, cells |-> <<0, 0>>],
   [type |-> REGEX, cells |-> <<0, 0>>], [type |-> DBPOINTER, cells |-> <<1, 0, 9>>],
   [type |-> CODEWSCOPE, cells |-> <<5, 1, 0>> \o EMPTY]}
MCDamage == {0, 1, 2, 3, ARRAY, BINARY, REGEX, NULL, Invalid}
===================================================================================
