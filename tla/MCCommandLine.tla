---------------------------- MODULE MCCommandLine ----------------------------
(* Every line of at most MaxLen characters by itself, and every two of a   *)
(* few lines one after the other.                                          *)
EXTENDS CommandLine

CONSTANTS MaxLen, A, X

MCCommands == {<<A>>}
MCExit == <<X>>
MCArguments == {<<>>, <<<<X>>>>, <<<<A>>, <<Backslash, A>>>>, <<<<A>>>>}

(* Commands, quoted ones, one that lacks its path, "exit", an empty line,  *)
(* and an open quote.                                                      *)
MCLine ==
  {<<A, Blank, A>>, <<A, Blank, Backslash>>, <<A, Blank, Quote, Blank, Quote>>,
   <<A, Blank, Blank>>, <<A>>, <<X>>, <<>>, <<A, Blank, Quote>>}

MCInputs ==
  [lines : {<<s>> : s \in BoundedSeq(Char \ {Slash}, MaxLen)}, ended : BOOLEAN]
    \cup [lines : {<<>>}, ended : {TRUE}]
    \cup [lines : {<<s, t>> : s \in MCLine, t \in MCLine}, ended : BOOLEAN]
==============================================================================
