----------------------------- MODULE CommandLine -----------------------------
(***************************************************************************)
(* The shell's parser (shell.cc: execute, extractCmd, extractOthers,        *)
(* searchCmd): a line gives a command, an option and an object.             *)
(***************************************************************************)
EXTENDS Strings

CONSTANTS
  Keyword,         \* the words of cmd_list, by command
  MaxOtherString,  \* MAX_OTHER_STRING_LEN
  MaxOption        \* MAX_OPTION_LEN

ASSUME KeywordAssumption ==
  /\ \A c, d \in DOMAIN Keyword : Keyword[c] = Keyword[d] => c = d
  /\ MaxOtherString \in Nat \ {0} /\ MaxOption \in Nat \ {0}

\* A word of the line ends at a blank or at the end.
inWord(s) == Range(s) \ {Blank}

\* Shell::start skips the blanks in front.
extractCmd(line) ==
  LET text == behindIn(line, {Blank}) IN prefixIn(text, inWord(text))

\* The loop of extractOthers; inOption is its inner loop.
scan_SticksToOption(st, c) ==
  CASE c = Blank -> st
    [] c # Blank /\ st.inOption -> [st EXCEPT !.option = Append(@, c)]
    [] c = "-" /\ ~st.inOption -> [st EXCEPT !.inOption = TRUE]
    [] OTHER -> [st EXCEPT !.object = Append(@, c)]
scan(st, c) ==
  CASE c = Blank -> [st EXCEPT !.inOption = FALSE]
    [] c # Blank /\ st.inOption -> [st EXCEPT !.option = Append(@, c)]
    [] c = "-" /\ ~st.inOption -> [st EXCEPT !.inOption = TRUE]
    [] OTHER -> [st EXCEPT !.object = Append(@, c)]
extractOthers(line) ==
  LET text == behindIn(line, {Blank})
      rest == behindIn(text, inWord(text))
      found[k \in 0..Len(rest)] ==
        IF k = 0 THEN [object |-> <<>>, option |-> <<>>, inOption |-> FALSE]
        ELSE scan(found[k - 1], rest[k])
  IN found[Len(rest)]

searchCmd(cmd) ==
  IF \E c \in DOMAIN Keyword : Keyword[c] = cmd
  THEN CHOOSE c \in DOMAIN Keyword : Keyword[c] = cmd
  ELSE "EndOfCmd"

\* Both strings and their NULs fit into execute's arrays.
fits(others) ==
  Len(others.object) < MaxOtherString /\ Len(others.option) < MaxOption

(***************************************************************************)
(* What the parser should find, by the places of the line                   *)
(***************************************************************************)
\* The places of the command: from the first character that is not blank.
cmdPlaces(line) ==
  {k \in DOMAIN line :
     /\ line[k] # Blank
     /\ \A i, j \in 1..k : i < j /\ line[i] # Blank => line[j] # Blank}

\* Behind it a word's characters after its first dash are option, those in
\* front of it object.
dashesInFront(line, k) ==
  {j \in 1..(k - 1) : line[j] = "-" /\ \A i \in j..k : line[i] # Blank}
optionPlaces(line) ==
  {k \in DOMAIN line \ cmdPlaces(line) : dashesInFront(line, k) # {}}
objectPlaces(line) ==
  {k \in DOMAIN line \ cmdPlaces(line) :
     line[k] \notin {Blank, "-"} /\ dashesInFront(line, k) = {}}

\* The characters at these places, in order.
charsAt(line, P) ==
  LET upTo[k \in 0..Len(line)] ==
        IF k = 0 THEN <<>>
        ELSE IF k \in P THEN Append(upTo[k - 1], line[k]) ELSE upTo[k - 1]
  IN upTo[Len(line)]
==============================================================================
