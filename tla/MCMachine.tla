------------------------------ MODULE MCMachine ------------------------------
(* What lies below the scheduler: the boot of an image and the frames of the   *)
(* interrupts, each on its own.  A behaviour is one of the first or one of the *)
(* second, so that the two sets of states add up.                              *)
EXTENDS Boot, RegisterFrames

VARIABLE part

\* Sizes of memory for Boot: of 1, 3, 4, 4, 8, 12, 16, 48 and 64 pages, the last
\* two of them more than a pointer reaches, and texts that are no size or less
\* than a page.
SizeTexts ==
  {<<"4", "K">>, <<"1", "2", "K">>, <<"4", "M">>, <<"1", "G">>, <<"3", "2", "K">>,
   <<"1", "2", "M">>, <<"1", "T">>, <<"1", "2", "G">>, <<"4", "T">>,
   <<"3", "K">>, <<"0", "T">>, <<"4">>, <<"G">>, <<"1", "G", "B">>, <<"4", "k">>}

InitMachine ==
  /\ Init /\ InitFrames
  /\ \/ part = "boot"
     \/ part = "frames" /\ inputs = <<1, 1, 64, <<"4", "K">>>>
NextMachine ==
  /\ \/ part = "boot" /\ Next /\ UNCHANGED frameVars
     \/ part = "frames" /\ NextFrames /\ UNCHANGED vars
  /\ UNCHANGED part
SpecMachine == InitMachine /\ [][NextMachine]_<<vars, frameVars, part>>
==============================================================================
