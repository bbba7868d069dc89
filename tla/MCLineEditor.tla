---------------------------- MODULE MCLineEditor ----------------------------
(* A screen of three short rows for LineEditor; a command prints one line.     *)
EXTENDS LineEditor

Prompt == <<">">>
Prints == {<<"#", NewLine>>}
==============================================================================
