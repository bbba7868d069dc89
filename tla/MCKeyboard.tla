----------------------------- MODULE MCKeyboard -----------------------------
(* Keys for small instances of Keyboard: a letter, Enter, a toggle key, an     *)
(* extended key and the first half of what the Pause key sends.               *)
EXTENDS Keyboard

AllKinds == {<<"char">>, <<"enter">>, <<"up">>, <<"shift">>, <<"caps">>,
             <<"E0", "arrow">>, <<"E1", "ctrl", "num">>}
Toggle == {<<"char">>, <<"caps">>}
Letters == {<<"char">>, <<"enter">>, <<"up">>}
==============================================================================
