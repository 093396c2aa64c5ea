---------------------------- MODULE MCSpecEdits ----------------------------
(***************************************************************************)
(* Small instances of SpecEdits: hosts stand for any of their length.      *)
(***************************************************************************)
EXTENDS SpecEdits

AnyCharacters == STRING
TwoHosts   == {<<"1", ".", "2", ".", "3">>, <<"4", ".", "5", ".", "6", "7">>}
SomeLengths == {<<"8">>, <<"2", "4">>, <<"3", "2">>}
SomeNames  == {"n2", "n4", "n6"}
=============================================================================
