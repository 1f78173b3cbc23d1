----------------------------- MODULE CommandLine -----------------------------
(***************************************************************************)
(* The client's command line: main's loop of getline and resolveArgs       *)
(* (Client.cpp), cli::split, character by character, and CLI::resolveArgs  *)
(* (cli/CLI.hpp).  A handler is one step here; what handlers do is in      *)
(* VersionController and IntegrityCheck.                                   *)
(***************************************************************************)
EXTENDS Naturals, Sequences, FiniteSets, SequencesExt

CONSTANTS Char,        \* the characters of a line
          Blank, Quote, Backslash, Slash,
          Commands,    \* the words that addBranch was called with
          Exit,        \* the word "exit"
          Inputs,      \* what may come from the console, or from a pipe
          Arguments,   \* what may follow argv[0]
          MaxReads     \* bound: how many calls of getline there are

Text == Seq(Char)

ASSUME CommandLineAssumption ==
  /\ {Blank, Quote, Backslash, Slash} \subseteq Char
  /\ Blank # Quote
  /\ Inputs \subseteq [lines : Seq(Text), ended : BOOLEAN]
  /\ Arguments \subseteq Seq(Text)
  /\ MaxReads \in Nat

(* An input is its lines, and whether the last one ends in a newline.      *)
VARIABLES
  input,   \* [lines, ended]
  reads,   \* how many calls of getline there were
  eof,     \* std::cin's eofbit
  buffer,  \* main's buffer
  start, end, quoted, \* split's variables, from 0 as there
  words,   \* split's result, or the arguments of the program
  at,      \* "argv", "read", "split", "resolve", or "over"
  calls    \* the handler calls: number of the line (0: argv), command, path

vars == <<input, reads, eof, buffer, start, end, quoted, words, at, calls>>

splitting == <<start, end, quoted>>

Init ==
  /\ input \in Inputs
  /\ reads = 0 /\ eof = FALSE /\ buffer = <<>>
  /\ start = 0 /\ end = 0 /\ quoted = FALSE
  /\ words \in Arguments /\ at = "argv"
  /\ calls = <<>>

------------------------------------------------------------------------------
(* std::getline *)

Lines == Len(input.lines)

Kept(line) == line                           \* a slip: no erase()

(* At the end of the input it erases the string before it fails.           *)
Erased(line) == <<>>

(* A line that the end of the input ends sets eofbit; from then on the     *)
(* string stays as it is, and nobody looks at the state of std::cin.       *)
ReadLine ==
  /\ at = "read" /\ reads < MaxReads
  /\ reads' = reads + 1
  /\ \/ eof /\ UNCHANGED <<eof, buffer>>
     \/ /\ ~eof /\ reads < Lines
        /\ buffer' = input.lines[reads + 1]
        /\ eof' = (reads + 1 = Lines /\ ~input.ended)
     \/ /\ ~eof /\ reads >= Lines
        /\ buffer' = Erased(buffer)
        /\ eof' = TRUE
  /\ start' = 0 /\ end' = 0 /\ quoted' = FALSE /\ words' = <<>>
  /\ at' = "split"
  /\ UNCHANGED <<input, calls>>

------------------------------------------------------------------------------
(* split *)

Scanning == at = "split" /\ end < Len(buffer)
Scanned == buffer[end + 1]

(* s.substr(from, n), which also ends with s. *)
Substr(from, n) == SubSeq(buffer, from + 1, from + n)

SplitAtBlank ==
  /\ Scanning /\ Scanned = Blank /\ ~quoted
  /\ words' = Append(words, Substr(start, end - start))
  /\ start' = end + 1 /\ end' = end + 1
  /\ UNCHANGED <<input, reads, eof, buffer, quoted, at, calls>>

OpensAndDrops ==                             \* a slip: the quote dropped twice
  /\ Scanning /\ Scanned = Quote /\ ~quoted
  /\ quoted' = TRUE /\ start' = end + 1 /\ end' = end + 1
  /\ UNCHANGED <<input, reads, eof, buffer, words, at, calls>>

OpensQuote ==
  /\ Scanning /\ Scanned = Quote /\ ~quoted
  /\ quoted' = TRUE /\ end' = end + 1
  /\ UNCHANGED <<input, reads, eof, buffer, start, words, at, calls>>

NextAfterQuote(i) == i + 1                   \* a slip: the blank not skipped

(* Where to go on behind the closing quote: it takes the character there   *)
(* for a blank.                                                            *)
AfterQuote(i) == i + 2

(* The word loses its first character, which is the opening quote only if  *)
(* that begins the word.                                                   *)
ClosesQuote ==
  /\ Scanning /\ Scanned = Quote /\ quoted
  /\ words' = Append(words, Substr(start + 1, end - (start + 1)))
  /\ quoted' = FALSE
  /\ start' = AfterQuote(end) /\ end' = AfterQuote(end)
  /\ UNCHANGED <<input, reads, eof, buffer, at, calls>>

ScansOn ==
  /\ Scanning
  /\ Scanned # Quote /\ (Scanned # Blank \/ quoted)
  /\ end' = end + 1
  /\ UNCHANGED <<input, reads, eof, buffer, start, quoted, words, at, calls>>

(* An open quote: nobody catches the exception, and the client ends.       *)
SplitThrows ==
  /\ at = "split" /\ end >= Len(buffer) /\ quoted
  /\ at' = "over"
  /\ UNCHANGED <<input, reads, eof, buffer, splitting, words, calls>>

SplitReturns ==
  /\ at = "split" /\ end >= Len(buffer) /\ ~quoted
  /\ words' = IF start < Len(buffer)
              THEN Append(words, Substr(start, Len(buffer) - start))
              ELSE words
  /\ at' = "resolve"
  /\ UNCHANGED <<input, reads, eof, buffer, splitting, calls>>

------------------------------------------------------------------------------
(* resolveArgs *)

(* The number of the line in the buffer; 0 before the first one is read.   *)
LineNo == IF reads <= Lines THEN reads ELSE IF eof THEN Lines ELSE reads

Resolves == at \in {"argv", "resolve"}
IsExit == words = <<Exit>>
IsCall(w) == Len(w) = 2 /\ w[1] \in Commands

(* std::replace *)
Slashed(w) == [i \in DOMAIN w |-> IF w[i] = Backslash THEN Slash ELSE w[i]]

(* "exit" ends the loop; main does not look at what its first call, for    *)
(* the arguments of the program, returns.                                  *)
ResolveExit ==
  /\ Resolves /\ IsExit
  /\ at' = IF at = "argv" THEN "read" ELSE "over"
  /\ UNCHANGED <<input, reads, eof, buffer, splitting, words, calls>>

(* Not two words, or not a command: that is said, and nothing happens.     *)
ResolveIllegal ==
  /\ Resolves /\ ~IsExit /\ ~IsCall(words)
  /\ at' = "read"
  /\ UNCHANGED <<input, reads, eof, buffer, splitting, words, calls>>

ResolveCall ==
  /\ Resolves /\ IsCall(words)
  /\ calls' = Append(calls, [line |-> LineNo, command |-> words[1],
                             path |-> Slashed(words[2])])
  /\ at' = "read"
  /\ UNCHANGED <<input, reads, eof, buffer, splitting, words>>

------------------------------------------------------------------------------
Split ==
  SplitAtBlank \/ OpensQuote \/ ClosesQuote \/ ScansOn \/ SplitThrows
  \/ SplitReturns

Next == ReadLine \/ Split \/ ResolveExit \/ ResolveIllegal \/ ResolveCall

Spec == Init /\ [][Next]_vars

------------------------------------------------------------------------------
(* Properties *)

TypeOK ==
  /\ input \in [lines : Seq(Text), ended : BOOLEAN]
  /\ reads \in 0..MaxReads /\ eof \in BOOLEAN
  /\ buffer \in Text /\ quoted \in BOOLEAN
  /\ start \in Nat /\ end \in Nat
  /\ words \in Seq(Text)
  /\ at \in {"argv", "read", "split", "resolve", "over"}
  /\ calls \in Seq([line : 0..Lines, command : Commands, path : Text])

(* Within split, substr is never called with a negative length, which would *)
(* be taken for a large one, and end stays within reach of the line.       *)
InRange ==
  /\ start <= end /\ (quoted => start < end)
  /\ end <= Len(buffer) + 1

(* The types, and no position out of range wherever quotes stand in a line. *)
SplitInv == TypeOK /\ InRange

(* How a line is meant to be read: blanks part it, except within quotes.   *)
QuotesBefore(s, i) == Cardinality({j \in 1..(i - 1) : s[j] = Quote})

(* What parts a line: its ends, and the blanks outside of quotes.          *)
Borders(s) ==
  {0, Len(s) + 1}
    \cup {i \in 1..Len(s) : s[i] = Blank /\ QuotesBefore(s, i) % 2 = 0}

(* The k-th border. *)
Place(s, b) == Cardinality({c \in Borders(s) : c <= b})
Border(s, k) == CHOOSE b \in Borders(s) : Place(s, b) = k

Parts(s) == [k \in 1..(Cardinality(Borders(s)) - 1) |->
               SubSeq(s, Border(s, k) + 1, Border(s, k + 1) - 1)]

IsQuoted(w) == Len(w) >= 2 /\ w[1] = Quote /\ w[Len(w)] = Quote
Inner(w) == IF IsQuoted(w) THEN SubSeq(w, 2, Len(w) - 1) ELSE w

(* Quotes stand around whole words only. *)
WellQuoted(s) ==
  \A k \in DOMAIN Parts(s) :
    \A i \in DOMAIN Inner(Parts(s)[k]) : Inner(Parts(s)[k])[i] # Quote

(* The words that are meant; a blank at the end begins none.               *)
Meant(s) ==
  LET parts == Parts(s)
      n == IF Last(parts) = <<>> THEN Len(parts) - 1 ELSE Len(parts)
  IN [k \in 1..n |-> Inner(parts[k])]

(* split finds the words that are meant, if quotes stand around whole      *)
(* words: what it skips behind a closing quote is then a blank.            *)
SplitsAsMeant ==
  at = "resolve" /\ WellQuoted(buffer) => words = Meant(buffer)

(* A command is called in the order of the lines, once for each line.      *)
(* Only a last line that has no newline is called again, and then for ever.*)
CalledInOrder ==
  \A i, j \in DOMAIN calls : i < j =>
    \/ calls[i].line < calls[j].line
    \/ calls[i] = calls[j] /\ calls[j].line = Lines /\ ~input.ended

(* No line that means a command is left out, whatever lines come before,   *)
(* and its path is the one that is meant, with slashes.                    *)
NoneLeftOut ==
  at = "read" => \A n \in {k \in 1..Lines : k <= reads} :
    LET s == input.lines[n] IN
    WellQuoted(s) /\ IsCall(Meant(s)) =>
      \E i \in DOMAIN calls :
        calls[i] = [line |-> n, command |-> Meant(s)[1],
                    path |-> Slashed(Meant(s)[2])]
==============================================================================
