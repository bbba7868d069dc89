------------------------------ MODULE MCClients ------------------------------
(* Two users of the scheduler, each on its own: the programs that use the FPU  *)
(* and the shell with its commands, whose words have one letter.  A behaviour  *)
(* is one of the first or one of the second, so that the two sets of states    *)
(* add up.                                                                     *)
EXTENDS FpuSwitch, Commands

VARIABLE client

Numbers == 1..(NoMod - 1)   \* for FpuSwitch: every number but the shell's
Words == [mt |-> <<"m">>, ps |-> <<"p">>, kill |-> <<"k">>, help |-> <<"h">>]
Typed ==
  {<<"m", " ", "1">>, <<"m", " ", "-", "t", " ", "1">>, <<"m", "1", "1">>,
   <<"p">>, <<" ", "k", " ", "1">>, <<"k", " ", "1", "0">>, <<"k", " ", "-", "a">>,
   <<"k", " ", "1", "0", "0">>}   \* 4, whose low bits are the shell's number
Short == UNION {[1..n -> {"k", "a", "-", "1", " "}] : n \in 1..6}
NumbersTyped == UNION {[1..n -> {"0", "1", "-"}] : n \in 1..5}
NotBlank(text) == \E k \in DOMAIN text : text[k] # " "
FirstTyped == {text \in Short : NotBlank(text)} \cup NumbersTyped

InitClients == InitFx /\ InitCmd /\ client \in {"fpu", "shell"}
NextClients ==
  /\ \/ client = "fpu" /\ NextFx /\ UNCHANGED cmdVars
     \/ client = "shell" /\ NextCmd /\ UNCHANGED fxVars
  /\ UNCHANGED client
SpecClients == InitClients /\ [][NextClients]_<<allVars, cmdVars, client>>
==============================================================================
