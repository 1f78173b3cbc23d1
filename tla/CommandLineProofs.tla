-------------------------- MODULE CommandLineProofs --------------------------
(***************************************************************************)
(* For all lines, of any length and number: split stays within its line    *)
(* and finds the words that are meant, if quotes stand around whole words; *)
(* commands are called in order, once, but for an unterminated last line,  *)
(* and none is left out.                                                   *)
(***************************************************************************)
EXTENDS CommandLine, SequenceTheorems, FiniteSetTheorems, WellFoundedInduction,
        TLAPS

------------------------------------------------------------------------------
(* Types and positions *)

LEMMA SubstrType ==
  ASSUME TypeOK, NEW from \in Nat, NEW n \in Int, from + n <= Len(buffer)
  PROVE  Append(words, Substr(from, n)) \in Seq(Text)
<1>1. buffer \in Seq(Char) /\ Len(buffer) \in Nat /\ words \in Seq(Text)
  BY LenProperties DEF TypeOK, Text
<1>2. \A i \in (from + 1)..(from + n) : buffer[i] \in Char
  BY <1>1, ElementOfSeq
<1>3. Substr(from, n) \in Text
  BY <1>2, SubSeqProperties DEF Substr, Text
<1> QED
  BY <1>1, <1>3, AppendProperties

LEMMA ReadTypes ==
  ASSUME SplitInv, ReadLine
  PROVE  SplitInv'
<1>1. /\ input \in [lines : Seq(Text), ended : BOOLEAN] /\ Lines \in Nat
      /\ reads \in 0..MaxReads /\ reads < MaxReads /\ MaxReads \in Nat
  BY CommandLineAssumption, LenProperties DEF SplitInv, TypeOK, Lines, ReadLine
<1>2. <<>> \in Text /\ <<>> \in Seq(Text)
  BY EmptySeq DEF Text
<1>3. buffer' \in Text
  <2>1. reads < Lines => input.lines[reads + 1] \in Text
    BY <1>1, ElementOfSeq DEF Lines
  <2> QED
    BY <1>2, <2>1 DEF ReadLine, Erased, SplitInv, TypeOK
<1>4. Len(buffer') \in Nat
  BY <1>3, LenProperties DEF Text
<1>5. /\ start' = 0 /\ end' = 0 /\ quoted' = FALSE /\ words' = <<>>
      /\ at' = "split" /\ reads' = reads + 1 /\ eof' \in BOOLEAN
      /\ UNCHANGED <<input, calls>> /\ Lines' = Lines
  BY DEF ReadLine, SplitInv, TypeOK, Lines
<1>6. TypeOK'
  <2>1. reads + 1 \in 0..MaxReads
    BY <1>1
  <2>2. calls \in Seq([line : 0..Lines, command : Commands, path : Text])
    BY DEF SplitInv, TypeOK
  <2> QED
    BY <1>1, <1>2, <1>3, <1>5, <2>1, <2>2 DEF TypeOK
<1>7. InRange'
  BY <1>4, <1>5 DEF InRange
<1> QED
  BY <1>6, <1>7 DEF SplitInv

LEMMA SplitTypes ==
  ASSUME SplitInv, Split
  PROVE  SplitInv'
<1>1. /\ UNCHANGED <<input, reads, eof, buffer, calls>> /\ Lines' = Lines
      /\ at' \in {"split", "resolve", "over"}
  BY DEF Split, SplitAtBlank, OpensQuote, ClosesQuote, ScansOn, SplitThrows,
         SplitReturns, splitting, Scanning, Lines
<1>2. Len(buffer) \in Nat /\ start \in Nat /\ end \in Nat /\ words \in Seq(Text)
  BY LenProperties DEF SplitInv, TypeOK, Text
<1>3. words' \in Seq(Text)
  <2>1. CASE SplitAtBlank
    BY <1>2, <2>1, SubstrType DEF SplitAtBlank, Scanning, SplitInv
  <2>2. CASE ClosesQuote
    BY <1>2, <2>2, SubstrType DEF ClosesQuote, Scanning, SplitInv
  <2>3. CASE SplitReturns
    BY <1>2, <2>3, SubstrType DEF SplitReturns, SplitInv
  <2>4. CASE OpensQuote \/ ScansOn \/ SplitThrows
    BY <1>2, <2>4 DEF OpensQuote, ScansOn, SplitThrows
  <2> QED
    BY <2>1, <2>2, <2>3, <2>4 DEF Split
<1>4. start' \in Nat /\ end' \in Nat /\ quoted' \in BOOLEAN
  <2>1. quoted \in BOOLEAN
    BY DEF SplitInv, TypeOK
  <2>2. CASE SplitAtBlank \/ OpensQuote \/ ClosesQuote \/ ScansOn
    <3>1. end + 1 \in Nat /\ end + 2 \in Nat
      BY <1>2
    <3>2. /\ start' \in {start, end + 1, end + 2}
          /\ end' \in {end + 1, end + 2} /\ quoted' \in {quoted, TRUE, FALSE}
      BY <2>2 DEF SplitAtBlank, OpensQuote, ClosesQuote, ScansOn, AfterQuote
    <3> QED
      BY <1>2, <2>1, <3>1, <3>2
  <2>3. CASE SplitThrows \/ SplitReturns
    BY <1>2, <2>1, <2>3 DEF SplitThrows, SplitReturns, splitting
  <2> QED
    BY <2>2, <2>3 DEF Split
<1>5. InRange'
  BY <1>1, <1>2 DEF Split, SplitAtBlank, OpensQuote, ClosesQuote, ScansOn,
     SplitThrows, SplitReturns, splitting, AfterQuote, SplitInv, InRange, Scanning
<1> QED
  BY <1>1, <1>3, <1>4, <1>5 DEF SplitInv, TypeOK

(* With no line read after the end, LineNo is that of a line.              *)
LineNoInv == eof \/ reads <= Lines

LEMMA LineNoType ==
  ASSUME TypeOK, LineNoInv
  PROVE  LineNo \in 0..Lines /\ Lines \in Nat /\ reads \in Nat
BY LenProperties, CommandLineAssumption DEF TypeOK, LineNoInv, LineNo, Lines

LEMMA ResolveTypes ==
  ASSUME SplitInv, LineNoInv, ResolveExit \/ ResolveIllegal \/ ResolveCall
  PROVE  SplitInv'
<1>1. /\ UNCHANGED <<input, reads, eof, buffer, start, end, quoted, words>>
      /\ at' \in {"read", "over"} /\ Lines' = Lines
  BY DEF ResolveExit, ResolveIllegal, ResolveCall, splitting, Lines
<1>2. calls' \in Seq([line : 0..Lines, command : Commands, path : Text])
  <2>1. CASE ResolveCall
    <3>1. words \in Seq(Text) /\ Len(words) = 2 /\ words[1] \in Commands
      BY <2>1 DEF ResolveCall, IsCall, SplitInv, TypeOK
    <3>2. words[2] \in Seq(Char)
      <4>1. words[2] \in Text
        BY <3>1, ElementOfSeq
      <4> QED
        BY <4>1 DEF Text
    <3>3. Slashed(words[2]) \in Text
      <4>1. /\ DOMAIN words[2] = 1..Len(words[2]) /\ Len(words[2]) \in Nat
            /\ \A i \in 1..Len(words[2]) : words[2][i] \in Char
        BY <3>2, LenProperties, ElementOfSeq
      <4>2. Slash \in Char
        BY CommandLineAssumption
      <4>3. Slashed(words[2]) \in [1..Len(words[2]) -> Char]
        BY <4>1, <4>2 DEF Slashed
      <4> QED
        BY <4>1, <4>3, SeqDef DEF Text
    <3> QED
      BY <2>1, <3>1, <3>3, LineNoType, AppendProperties
      DEF ResolveCall, SplitInv, TypeOK
  <2> QED
    BY <2>1 DEF ResolveExit, ResolveIllegal, SplitInv, TypeOK
<1> QED
  BY <1>1, <1>2 DEF SplitInv, TypeOK, InRange

LEMMA InitialTypes == Init => SplitInv /\ LineNoInv
<1> SUFFICES ASSUME Init PROVE SplitInv /\ LineNoInv
  OBVIOUS
<1>1. \A S : <<>> \in Seq(S) /\ Len(<<>>) = 0
  BY EmptySeq
<1>2. /\ input \in [lines : Seq(Text), ended : BOOLEAN]
      /\ words \in Seq(Text) /\ MaxReads \in Nat
  BY CommandLineAssumption DEF Init
<1>3. Lines \in Nat
  BY <1>2, LenProperties DEF Lines
<1>4. /\ buffer = <<>> /\ calls = <<>> /\ start = 0 /\ end = 0 /\ reads = 0
      /\ quoted = FALSE /\ eof = FALSE /\ at = "argv"
  BY DEF Init
<1>5. TypeOK
  <2>1. reads \in 0..MaxReads /\ start \in Nat /\ end \in Nat
    BY <1>2, <1>4
  <2>2. calls \in Seq([line : 0..Lines, command : Commands, path : Text])
    BY <1>1, <1>4
  <2>3. buffer \in Text
    BY <1>1, <1>4 DEF Text
  <2> QED
    BY <1>2, <1>4, <2>1, <2>2, <2>3 DEF TypeOK
<1>6. InRange /\ LineNoInv
  BY <1>1, <1>3, <1>4 DEF InRange, LineNoInv
<1> QED
  BY <1>5, <1>6 DEF SplitInv

LEMMA InductiveTypes ==
  SplitInv /\ LineNoInv /\ [Next]_vars => SplitInv' /\ LineNoInv'
<1> SUFFICES ASSUME SplitInv, LineNoInv, [Next]_vars
             PROVE  SplitInv' /\ LineNoInv'
  OBVIOUS
<1>1. CASE ReadLine
  <2>1. Lines' = Lines /\ Lines \in Nat /\ reads \in Nat
    BY <1>1, LineNoType DEF ReadLine, Lines, SplitInv
  <2>2. LineNoInv'
    BY <1>1, <2>1 DEF ReadLine, LineNoInv
  <2> QED
    BY <1>1, <2>2, ReadTypes
<1>2. CASE Split
  <2>1. LineNoInv'
    BY <1>2 DEF Split, SplitAtBlank, OpensQuote, ClosesQuote, ScansOn,
                SplitThrows, SplitReturns, LineNoInv, Lines
  <2> QED
    BY <1>2, <2>1, SplitTypes
<1>3. CASE ResolveExit \/ ResolveIllegal \/ ResolveCall
  <2>1. LineNoInv'
    BY <1>3 DEF ResolveExit, ResolveIllegal, ResolveCall, LineNoInv, Lines
  <2> QED
    BY <1>3, <2>1, ResolveTypes
<1>4. CASE UNCHANGED vars
  <2>1. TypeOK'
    BY <1>4 DEF vars, SplitInv, TypeOK, Lines
  <2>2. InRange'
    BY <1>4 DEF vars, SplitInv, InRange
  <2>3. LineNoInv'
    BY <1>4 DEF vars, LineNoInv, Lines
  <2> QED
    BY <2>1, <2>2, <2>3 DEF SplitInv
<1> QED
  BY <1>1, <1>2, <1>3, <1>4 DEF Next

(* For every input: the variables keep their types, and split asks substr  *)
(* for nothing outside of its line, wherever the quotes stand.             *)
THEOREM SplitStaysInLine == Spec => [](SplitInv /\ LineNoInv)
BY InitialTypes, InductiveTypes, PTL DEF Spec

------------------------------------------------------------------------------
(* Calls *)

(* split's steps as a function of where it is: what it makes of a line     *)
(* depends on nothing else.                                                *)
Position == [start : Nat, end : Nat, quoted : BOOLEAN, words : Seq(Text)]
Now == [start |-> start, end |-> end, quoted |-> quoted, words |-> words]
First == [start |-> 0, end |-> 0, quoted |-> FALSE, words |-> <<>>]
Finished(s) == ~(s.end < Len(buffer))
After(s) ==
  LET scanned == buffer[s.end + 1] IN
  IF scanned = Blank /\ ~s.quoted
  THEN [start |-> s.end + 1, end |-> s.end + 1, quoted |-> s.quoted,
        words |-> Append(s.words, Substr(s.start, s.end - s.start))]
  ELSE IF scanned = Quote /\ s.quoted
  THEN [start |-> AfterQuote(s.end), end |-> AfterQuote(s.end), quoted |-> FALSE,
        words |-> Append(s.words, Substr(s.start + 1, s.end - (s.start + 1)))]
  ELSE [start |-> s.start, end |-> s.end + 1, words |-> s.words,
        quoted |-> scanned = Quote \/ s.quoted]
Found(s) ==
  IF s.start < Len(buffer)
  THEN Append(s.words, Substr(s.start, Len(buffer) - s.start)) ELSE s.words
CallFor(found) ==
  [line |-> LineNo, command |-> found[1], path |-> Slashed(found[2])]

(* S holds the positions that split passes in the line, as far as last.    *)
Passes(S, last) ==
  /\ First \in S /\ last \in S
  /\ \A s \in S : (s = last \/ After(s) \in S) /\ (Finished(s) => s = last)

(* The calls that the line in the buffer has brought so far are those of   *)
(* the position where split ends.                                          *)
CalledAs(last) ==
  \A i \in DOMAIN calls :
    calls[i].line = LineNo => Finished(last) /\ calls[i] = CallFor(Found(last))

(* An empty line calls nothing.  What another one brings is what it brought *)
(* before, as split ends where it ended before.                            *)
SameAgain ==
  IF buffer = <<>>
  THEN /\ at = "split" => Now = First
       /\ at = "resolve" => words = <<>>
  ELSE /\ at = "split" =>
            \E S \in SUBSET Position, last \in Position :
              /\ Passes(S, last) /\ CalledAs(last)
              /\ Now \in S /\ (Now = last \/ Finished(last))
       /\ at \in {"read", "resolve"} =>
            \E S \in SUBSET Position, last \in Position :
              /\ Passes(S, last) /\ CalledAs(last) /\ Finished(last)
              /\ at = "resolve" => words = Found(last)

(* Lines are read one after the other.  A line that stays in the buffer is *)
(* empty, or the last one without a newline.                               *)
LinesInOrder ==
  /\ LineNoInv
  /\ at = "argv" => calls = <<>> /\ reads = 0 /\ ~eof
  /\ buffer # <<>> => reads > 0 /\ Lines > 0
  /\ eof => reads >= Lines /\ (buffer # <<>> => ~input.ended)
  /\ \A i \in DOMAIN calls : calls[i].line <= LineNo
  /\ eof \/ at = "read" \/ \A i \in DOMAIN calls : calls[i].line < LineNo

OrderInv == LinesInOrder /\ SameAgain /\ CalledInOrder

LEMMA OneStep ==
  ASSUME TypeOK, SplitAtBlank \/ OpensQuote \/ ClosesQuote \/ ScansOn
  PROVE  /\ Now' = After(Now) /\ ~Finished(Now) /\ at = "split" /\ at' = at
         /\ UNCHANGED <<input, reads, eof, buffer, calls>>
<1>1. /\ Now.start = start /\ Now.end = end /\ Now.quoted = quoted
      /\ Now.words = words /\ quoted \in BOOLEAN
  BY DEF Now, TypeOK
<1>2. Blank # Quote
  BY CommandLineAssumption
<1>3. CASE SplitAtBlank
  BY <1>1, <1>3 DEF SplitAtBlank, Scanning, Scanned, Now, After, Finished
<1>4. CASE OpensQuote
  <2>1. Scanned # Blank /\ ~quoted /\ Scanned = Quote
    BY <1>2, <1>4 DEF OpensQuote
  <2> QED
    BY <1>1, <1>4, <2>1 DEF OpensQuote, Scanning, Scanned, Now, After, Finished
<1>5. CASE ClosesQuote
  <2>1. Scanned # Blank /\ quoted /\ Scanned = Quote
    BY <1>2, <1>5 DEF ClosesQuote
  <2> QED
    BY <1>1, <1>5, <2>1 DEF ClosesQuote, Scanning, Scanned, Now, After, Finished
<1>6. CASE ScansOn
  <2>1. Scanned # Quote /\ (Scanned # Blank \/ quoted)
    BY <1>6 DEF ScansOn
  <2>2. (Scanned = Quote \/ quoted) = quoted
    BY <1>1, <2>1
  <2> QED
    BY <1>1, <1>6, <2>1, <2>2
    DEF ScansOn, Scanning, Scanned, Now, After, Finished
<1> QED
  BY <1>3, <1>4, <1>5, <1>6

LEMMA EmptyLine == Len(<<>>) = 0
BY EmptySeq

LEMMA SplitOrder ==
  ASSUME SplitInv, SplitInv', OrderInv, Split
  PROVE  OrderInv'
<1>1. /\ UNCHANGED <<input, reads, eof, buffer, calls>>
      /\ at = "split" /\ at' \in {"split", "resolve", "over"}
  BY DEF Split, SplitAtBlank, OpensQuote, ClosesQuote, ScansOn, SplitThrows,
         SplitReturns, Scanning
<1>2. LineNo' = LineNo /\ Lines' = Lines
  BY <1>1 DEF LineNo, Lines
<1>3. LinesInOrder' /\ CalledInOrder'
  BY <1>1, <1>2 DEF OrderInv, LinesInOrder, LineNoInv, CalledInOrder
<1>4. /\ \A S, last : Passes(S, last)' = Passes(S, last)
      /\ \A last : CalledAs(last)' = CalledAs(last)
      /\ \A s : Finished(s)' = Finished(s) /\ Found(s)' = Found(s)
  BY <1>1, <1>2 DEF Passes, CalledAs, Finished, After, Found, CallFor, Substr
<1>5. Now \in Position /\ Now' \in Position
  BY DEF SplitInv, TypeOK, Now, Position
<1>6. CASE SplitAtBlank \/ OpensQuote \/ ClosesQuote \/ ScansOn
  <2>1. Now' = After(Now) /\ ~Finished(Now) /\ at' = "split"
    BY <1>1, <1>6, OneStep DEF SplitInv
  <2>2. CASE buffer = <<>>
    <3>1. Finished(Now)
      BY <1>1, <2>2, EmptyLine DEF OrderInv, SameAgain, First, Finished
    <3> QED
      BY <2>1, <3>1
  <2>3. CASE buffer # <<>>
    <3>1. PICK S \in SUBSET Position, last \in Position :
            /\ Passes(S, last) /\ CalledAs(last)
            /\ Now \in S /\ (Now = last \/ Finished(last))
      BY <1>1, <2>3 DEF OrderInv, SameAgain
    <3>2. CASE Finished(last)
      <4>1. Now' \in S
        BY <2>1, <3>1, <3>2 DEF Passes
      <4> QED
        BY <1>1, <1>4, <2>1, <2>3, <3>1, <3>2, <4>1, <1>3 DEF OrderInv, SameAgain
    <3>3. CASE ~Finished(last)
      <4>1. Passes(S \cup {Now'}, Now')
        BY <2>1, <3>1, <3>3 DEF Passes
      <4>2. CalledAs(Now')
        BY <3>1, <3>3 DEF CalledAs
      <4>3. S \cup {Now'} \in SUBSET Position
        BY <1>5
      <4> QED
        BY <1>1, <1>3, <1>4, <1>5, <2>1, <2>3, <4>1, <4>2, <4>3
        DEF OrderInv, SameAgain
    <3> QED
      BY <3>2, <3>3
  <2> QED
    BY <2>2, <2>3
<1>7. CASE SplitThrows
  BY <1>3, <1>7 DEF SplitThrows, OrderInv, SameAgain
<1>8. CASE SplitReturns
  <2>1. Finished(Now) /\ words' = Found(Now) /\ at' = "resolve"
    BY <1>8 DEF SplitReturns, Finished, Found, Now, SplitInv, TypeOK
  <2>2. CASE buffer = <<>>
    <3>1. Now = First
      BY <1>1, <2>2 DEF OrderInv, SameAgain
    <3>2. Found(First) = <<>>
      BY <2>2, EmptyLine DEF Found, First
    <3> QED
      BY <1>1, <1>3, <2>1, <2>2, <3>1, <3>2 DEF OrderInv, SameAgain
  <2>3. CASE buffer # <<>>
    <3>1. PICK S \in SUBSET Position, last \in Position :
            /\ Passes(S, last) /\ CalledAs(last)
            /\ Now \in S /\ (Now = last \/ Finished(last))
      BY <1>1, <2>3 DEF OrderInv, SameAgain
    <3>2. Now = last
      BY <2>1, <3>1 DEF Passes
    <3> QED
      BY <1>1, <1>3, <1>4, <2>1, <2>3, <3>1, <3>2 DEF OrderInv, SameAgain
  <2> QED
    BY <2>2, <2>3
<1> QED
  BY <1>6, <1>7, <1>8 DEF Split

LEMMA ReadOrder ==
  ASSUME SplitInv, LineNoInv', OrderInv, ReadLine
  PROVE  OrderInv'
<1>1. /\ UNCHANGED <<input, calls>> /\ Lines' = Lines
      /\ at = "read" /\ at' = "split" /\ Now' = First /\ reads' = reads + 1
  BY DEF ReadLine, Lines, Now, First
<1>2. Lines \in Nat /\ reads \in Nat /\ LineNo \in 0..Lines /\ LineNoInv
  BY LineNoType DEF OrderInv, LinesInOrder, SplitInv
<1>3. \A i \in DOMAIN calls : calls[i].line \in Nat
  <2>1. calls \in Seq([line : 0..Lines, command : Commands, path : Text])
    BY DEF SplitInv, TypeOK
  <2>2. \A i \in DOMAIN calls :
          calls[i] \in [line : 0..Lines, command : Commands, path : Text]
    BY <2>1, LenProperties, ElementOfSeq
  <2> QED
    BY <1>2, <2>2
<1>4. First \in Position
  BY EmptySeq DEF First, Position
<1>5. \A i \in DOMAIN calls : calls[i].line <= LineNo
  BY DEF OrderInv, LinesInOrder
<1>6. CalledInOrder'
  BY <1>1 DEF OrderInv, CalledInOrder
<1>7. CASE eof
  <2>1. eof' /\ buffer' = buffer
    BY <1>7 DEF ReadLine
  <2>2. LineNo' = Lines
    <3>1. reads >= Lines
      BY <1>7 DEF OrderInv, LinesInOrder
    <3> QED
      BY <1>1, <1>2, <2>1, <3>1 DEF LineNo
  <2>3. LinesInOrder'
    <3>1. /\ buffer # <<>> => reads > 0 /\ Lines > 0 /\ ~input.ended
          /\ reads >= Lines
      BY <1>7 DEF OrderInv, LinesInOrder
    <3>2. \A i \in DOMAIN calls' : calls'[i].line <= LineNo'
      BY <1>1, <1>2, <1>3, <1>5, <2>2
    <3> QED
      BY <1>1, <1>2, <2>1, <3>1, <3>2 DEF LinesInOrder
  <2>4. SameAgain'
    <3>1. CASE buffer = <<>>
      BY <1>1, <2>1, <3>1 DEF SameAgain
    <3>2. CASE buffer # <<>>
      <4>1. LineNo = Lines
        BY <1>2, <1>7, <3>2 DEF OrderInv, LinesInOrder, LineNo
      <4>2. PICK S \in SUBSET Position, last \in Position :
              Passes(S, last) /\ CalledAs(last) /\ Finished(last)
        BY <1>1, <3>2 DEF OrderInv, SameAgain
      <4>3. Passes(S, last)' /\ CalledAs(last)' /\ Finished(last)' /\ First \in S
        BY <1>1, <2>1, <2>2, <4>1, <4>2
        DEF Passes, CalledAs, Finished, After, Found, CallFor, Substr
      <4> QED
        BY <1>1, <2>1, <3>2, <4>3 DEF SameAgain
    <3> QED
      BY <3>1, <3>2
  <2> QED
    BY <1>6, <2>3, <2>4 DEF OrderInv
<1>8. CASE ~eof /\ reads < Lines
  <2>1. LineNo' = reads + 1 /\ LineNo = reads
    BY <1>1, <1>2, <1>8 DEF LineNo
  <2>2. eof' => reads + 1 = Lines /\ ~input.ended
    <3>1. eof' = (reads + 1 = Lines /\ ~input.ended)
      BY <1>2, <1>8 DEF ReadLine
    <3> QED
      BY <3>1
  <2>3. \A i \in DOMAIN calls' : calls'[i].line < LineNo'
    BY <1>1, <1>2, <1>3, <1>5, <2>1
  <2>4. LinesInOrder'
    <3>1. LineNo' \in Nat /\ \A i \in DOMAIN calls' : calls'[i].line \in Nat
      BY <1>1, <1>2, <1>3, <2>1
    <3> QED
      BY <1>1, <1>2, <1>8, <2>2, <2>3, <3>1 DEF LinesInOrder
  <2>5. SameAgain'
    <3>1. {First} \in SUBSET Position /\ First \in {First}
      BY <1>4
    <3>2. Passes({First}, First)'
      BY DEF Passes
    <3>3. CalledAs(First)'
      BY <1>1, <1>2, <1>3, <2>1, <2>3 DEF CalledAs
    <3> QED
      BY <1>1, <1>4, <3>1, <3>2, <3>3 DEF SameAgain
  <2> QED
    BY <1>6, <2>4, <2>5 DEF OrderInv
<1>9. CASE ~eof /\ reads >= Lines
  <2>1. eof' /\ buffer' = <<>>
    BY <1>9, <1>2 DEF ReadLine, Erased
  <2>2. LineNo' = Lines
    BY <1>1, <1>2, <1>9, <2>1 DEF LineNo
  <2>3. \A i \in DOMAIN calls' : calls'[i].line <= LineNo'
    BY <1>1, <1>2, <1>3, <1>5, <2>2
  <2>4. LinesInOrder'
    BY <1>1, <1>2, <1>9, <2>1, <2>3 DEF LinesInOrder
  <2>5. SameAgain'
    BY <1>1, <2>1 DEF SameAgain
  <2> QED
    BY <1>6, <2>4, <2>5 DEF OrderInv
<1> QED
  BY <1>2, <1>7, <1>8, <1>9

(* No call, and what is in the buffer may be split again.                  *)
LEMMA NoCallOrder ==
  ASSUME SplitInv, OrderInv, ResolveExit \/ ResolveIllegal
  PROVE  OrderInv'
<1>1. /\ UNCHANGED <<input, reads, eof, buffer, calls>> /\ Lines' = Lines
      /\ LineNo' = LineNo /\ at \in {"argv", "resolve"} /\ at' \in {"read", "over"}
  BY DEF ResolveExit, ResolveIllegal, Resolves, LineNo, Lines
<1>2. \A i \in DOMAIN calls : at = "argv" => FALSE
  BY EmptyLine, LenProperties DEF OrderInv, LinesInOrder, SplitInv, TypeOK
<1>3. CalledInOrder'
  BY <1>1 DEF OrderInv, CalledInOrder
<1>4. LinesInOrder'
  BY <1>1, <1>2 DEF OrderInv, LinesInOrder, LineNoInv
<1>5. SameAgain'
  <2>1. CASE buffer = <<>>
    BY <1>1, <2>1 DEF SameAgain
  <2>2. CASE buffer # <<>>
    <3>1. at = "resolve"
      BY <1>1, <2>2 DEF OrderInv, LinesInOrder
    <3>2. PICK S \in SUBSET Position, last \in Position :
            Passes(S, last) /\ CalledAs(last) /\ Finished(last)
      BY <2>2, <3>1 DEF OrderInv, SameAgain
    <3>3. Passes(S, last)' /\ CalledAs(last)' /\ Finished(last)'
      BY <1>1, <3>2 DEF Passes, CalledAs, Finished, After, Found, CallFor, Substr
    <3> QED
      BY <1>1, <2>2, <3>3 DEF SameAgain
  <2> QED
    BY <2>1, <2>2
<1> QED
  BY <1>3, <1>4, <1>5 DEF OrderInv

(* A call: that of a new line is the first of its number; that of a line   *)
(* which stayed in the buffer is as before.                                *)
LEMMA CallOrder ==
  ASSUME SplitInv, SplitInv', OrderInv, ResolveCall
  PROVE  OrderInv'
<1> DEFINE call == CallFor(words)
           R == [line : 0..Lines, command : Commands, path : Text]
<1>1. /\ UNCHANGED <<input, reads, eof, buffer, words>> /\ Lines' = Lines
      /\ LineNo' = LineNo /\ at \in {"argv", "resolve"} /\ at' = "read"
      /\ calls' = Append(calls, call)
  BY DEF ResolveCall, Resolves, LineNo, Lines, CallFor
<1>2. Lines \in Nat /\ reads \in Nat /\ LineNo \in 0..Lines /\ LineNoInv
  BY LineNoType DEF OrderInv, LinesInOrder, SplitInv
<1>3. calls \in Seq(R) /\ calls' \in Seq(R) /\ Len(calls) \in Nat
  <2>1. calls \in Seq(R)
    BY DEF SplitInv, TypeOK
  <2>2. call \in R
    <3>1. calls' \in Seq([line : 0..Lines', command : Commands, path : Text])
      BY DEF SplitInv, TypeOK
    <3>2. Len(calls') = Len(calls) + 1 /\ calls'[Len(calls) + 1] = call
          /\ Len(calls) \in Nat
      BY <1>1, <2>1, LenProperties
    <3>3. Len(calls) + 1 \in 1..Len(calls')
      BY <3>2
    <3> HIDE DEF call
    <3>4. calls'[Len(calls) + 1] \in R
      BY <1>1, <3>1, <3>3, ElementOfSeq
    <3> QED
      BY <3>2, <3>4
  <2>3. Append(calls, call) \in Seq(R) /\ Len(calls) \in Nat
    BY <2>1, <2>2, AppendProperties, LenProperties
  <2> QED
    BY <1>1, <2>1, <2>3
<1>4. /\ DOMAIN calls' = 1..(Len(calls) + 1) /\ DOMAIN calls = 1..Len(calls)
      /\ calls'[Len(calls) + 1] = call
      /\ \A i \in DOMAIN calls : calls'[i] = calls[i] /\ calls[i].line \in Nat
  <2>1. calls' = Append(calls, call) /\ call.line \in Nat
    BY <1>1, <1>2 DEF CallFor
  <2>2. \A i \in 1..Len(calls) : calls[i].line \in Nat
    <3>1. \A i \in 1..Len(calls) : calls[i] \in R
      BY <1>3, ElementOfSeq
    <3> QED
      BY <1>2, <3>1
  <2> QED
    BY <1>3, <2>1, <2>2, LenProperties
<1>5. call.line = LineNo
  BY DEF CallFor
<1>6. \A i \in DOMAIN calls : calls[i].line <= LineNo
  BY DEF OrderInv, LinesInOrder
<1> HIDE DEF call, R
<1>7. \A i \in DOMAIN calls' : i \in DOMAIN calls \/ (i = Len(calls) + 1 /\ calls'[i] = call)
  BY <1>3, <1>4
<1>8. CASE at = "argv"
  <2>1. /\ calls = <<>> /\ reads = 0 /\ ~eof /\ buffer = <<>>
    BY <1>2, <1>8 DEF OrderInv, LinesInOrder
  <2>2. DOMAIN calls = {} /\ Len(calls) = 0
    BY <1>3, <1>4, <2>1, EmptyLine
  <2>3. CalledInOrder'
    BY <1>4, <1>7, <2>2 DEF CalledInOrder
  <2>4. LinesInOrder'
    BY <1>1, <1>2, <1>5, <1>7, <2>1, <2>2 DEF LinesInOrder, LineNoInv
  <2> QED
    BY <1>1, <2>1, <2>3, <2>4 DEF OrderInv, SameAgain
<1>9. CASE at = "resolve"
  <2>1. buffer # <<>>
    <3>1. words # <<>>
      BY EmptyLine DEF ResolveCall, IsCall
    <3> QED
      BY <1>9, <3>1 DEF OrderInv, SameAgain
  <2>2. PICK S \in SUBSET Position, last \in Position :
          /\ Passes(S, last) /\ CalledAs(last) /\ Finished(last)
          /\ words = Found(last)
    BY <1>9, <2>1 DEF OrderInv, SameAgain
  <2>3. call = CallFor(Found(last))
    BY <2>2 DEF call
  <2>4. \A i \in DOMAIN calls :
          \/ calls[i].line < LineNo
          \/ calls[i] = call /\ LineNo = Lines /\ ~input.ended
    <3>1. CASE eof
      <4>1. LineNo = Lines /\ ~input.ended
        BY <1>2, <2>1, <3>1 DEF OrderInv, LinesInOrder, LineNo
      <4> QED
        BY <1>2, <1>4, <1>6, <2>2, <2>3, <4>1 DEF CalledAs
    <3>2. CASE ~eof
      BY <1>9, <3>2 DEF OrderInv, LinesInOrder
    <3> QED
      BY <3>1, <3>2
  <2>5. CalledInOrder'
    <3>1. ASSUME NEW i \in DOMAIN calls', NEW j \in DOMAIN calls', i < j
          PROVE  \/ calls'[i].line < calls'[j].line
                 \/ calls'[i] = calls'[j] /\ calls'[j].line = Lines /\ ~input.ended
      <4>1. i \in DOMAIN calls
        BY <1>3, <1>4, <3>1
      <4>2. CASE j \in DOMAIN calls
        BY <1>4, <3>1, <4>1, <4>2 DEF OrderInv, CalledInOrder
      <4>3. CASE calls'[j] = call
        BY <1>4, <1>5, <2>4, <4>1, <4>3
      <4> QED
        BY <1>7, <4>2, <4>3
    <3> QED
      BY <1>1, <3>1 DEF CalledInOrder
  <2>6. LinesInOrder'
    <3>1. \A i \in DOMAIN calls' : calls'[i].line <= LineNo'
      BY <1>1, <1>2, <1>4, <1>5, <1>6, <1>7
    <3> QED
      BY <1>1, <3>1 DEF OrderInv, LinesInOrder, LineNoInv
  <2>7. SameAgain'
    <3>1. Passes(S, last)' /\ Finished(last)'
      BY <1>1, <2>2 DEF Passes, Finished, After, Substr
    <3>2. CallFor(Found(last))' = call
      BY <1>1, <2>3 DEF CallFor, Found, Substr
    <3>3. CalledAs(last)'
      BY <1>1, <1>4, <1>7, <2>2, <2>3, <3>1, <3>2 DEF CalledAs
    <3> QED
      BY <1>1, <2>1, <3>1, <3>3 DEF SameAgain
  <2> QED
    BY <2>5, <2>6, <2>7 DEF OrderInv
<1> QED
  BY <1>1, <1>8, <1>9

LEMMA InitialOrder == Init => OrderInv
<1> SUFFICES ASSUME Init PROVE OrderInv
  OBVIOUS
<1>1. /\ calls = <<>> /\ buffer = <<>> /\ at = "argv" /\ reads = 0 /\ eof = FALSE
  BY DEF Init
<1>2. DOMAIN <<>> = {}
  OBVIOUS
<1>3. LineNoInv
  BY InitialTypes
<1> QED
  BY <1>1, <1>2, <1>3 DEF OrderInv, LinesInOrder, SameAgain, CalledInOrder

LEMMA InductiveOrder ==
  SplitInv /\ SplitInv' /\ LineNoInv' /\ OrderInv /\ [Next]_vars => OrderInv'
<1> SUFFICES ASSUME SplitInv, SplitInv', LineNoInv', OrderInv, [Next]_vars
             PROVE  OrderInv'
  OBVIOUS
<1>1. CASE Next
  BY <1>1, ReadOrder, SplitOrder, NoCallOrder, CallOrder DEF Next
<1>2. CASE UNCHANGED vars
  <2>1. UNCHANGED <<Lines, LineNo, Now>>
    BY <1>2 DEF vars, Lines, LineNo, Now
  <2>2. LinesInOrder' /\ CalledInOrder'
    BY <1>2, <2>1 DEF vars, OrderInv, LinesInOrder, LineNoInv, CalledInOrder
  <2>3. /\ \A S, last : Passes(S, last)' = Passes(S, last)
        /\ \A last : CalledAs(last)' = CalledAs(last)
        /\ \A s : Finished(s)' = Finished(s) /\ Found(s)' = Found(s)
    BY <1>2, <2>1
    DEF vars, Passes, CalledAs, Finished, After, Found, CallFor, Substr
  <2>4. SameAgain'
    BY <1>2, <2>1, <2>3 DEF vars, OrderInv, SameAgain
  <2> QED
    BY <2>2, <2>4 DEF OrderInv
<1> QED
  BY <1>1, <1>2

(* For every input: commands are called in the order of their lines, once, *)
(* but for an unterminated last line, which makes the same call each time. *)
THEOREM CallsAreInOrder == Spec => []CalledInOrder
<1>1. Spec => []OrderInv
  BY SplitStaysInLine, InitialOrder, InductiveOrder, PTL DEF Spec
<1>2. OrderInv => CalledInOrder
  BY DEF OrderInv
<1> QED
  BY <1>1, <1>2, PTL

------------------------------------------------------------------------------
(* Words *)

LEMMA LineIs ==
  ASSUME NEW s \in Text
  PROVE  /\ s \in Seq(Char) /\ Len(s) \in Nat
         /\ \A i \in 1..Len(s) : s[i] \in Char
BY LenProperties, ElementOfSeq DEF Text

(* One more character: one more quote, or as many. *)
LEMMA QuotesCount ==
  ASSUME NEW s \in Text, NEW i \in Nat \ {0}
  PROVE  /\ QuotesBefore(s, i) \in Nat
         /\ QuotesBefore(s, i + 1) =
              QuotesBefore(s, i) + (IF s[i] = Quote THEN 1 ELSE 0)
<1> DEFINE Q(n) == {j \in 1..(n - 1) : s[j] = Quote}
<1>1. IsFiniteSet(Q(i)) /\ Cardinality(Q(i)) \in Nat
  <2>1. IsFiniteSet(1..(i - 1))
    BY FS_Interval
  <2>2. Q(i) \in SUBSET (1..(i - 1))
    OBVIOUS
  <2> HIDE DEF Q
  <2>3. IsFiniteSet(Q(i))
    BY <2>1, <2>2, FS_Subset
  <2> QED
    BY <2>3, FS_CardinalityType
<1>2. i \notin Q(i) /\ Q(i + 1) = IF s[i] = Quote THEN Q(i) \cup {i} ELSE Q(i)
  OBVIOUS
<1>3. Cardinality(Q(i + 1)) = Cardinality(Q(i)) + (IF s[i] = Quote THEN 1 ELSE 0)
  <2> HIDE DEF Q
  <2>1. Cardinality(Q(i) \cup {i}) = Cardinality(Q(i)) + 1
    BY <1>1, <1>2, FS_AddElement
  <2> QED
    BY <1>1, <1>2, <2>1
<1> QED
  BY <1>1, <1>3 DEF QuotesBefore

LEMMA NoQuotesBefore == \A s : QuotesBefore(s, 1) = 0
<1> SUFFICES ASSUME NEW s PROVE QuotesBefore(s, 1) = 0
  OBVIOUS
<1>1. {j \in 1..(1 - 1) : s[j] = Quote} = {}
  OBVIOUS
<1> QED
  BY <1>1, FS_EmptySet DEF QuotesBefore

LEMMA BordersAre ==
  ASSUME NEW s \in Text
  PROVE  /\ Borders(s) \subseteq 0..(Len(s) + 1)
         /\ 0 \in Borders(s) /\ Len(s) + 1 \in Borders(s)
         /\ IsFiniteSet(Borders(s)) /\ Cardinality(Borders(s)) \in Nat
<1>1. Len(s) \in Nat
  BY LineIs
<1>2. Borders(s) \subseteq 0..(Len(s) + 1)
  BY <1>1 DEF Borders
<1>3. IsFiniteSet(0..(Len(s) + 1))
  BY <1>1, FS_Interval
<1>4. IsFiniteSet(Borders(s))
  BY <1>2, <1>3, FS_Subset
<1> QED
  BY <1>2, <1>4, FS_CardinalityType DEF Borders

(* Places of borders are numbers in their order, the last is how many.     *)
LEMMA PlacesAre ==
  ASSUME NEW s \in Text, NEW b \in Borders(s)
  PROVE  /\ IsFiniteSet({c \in Borders(s) : c <= b})
         /\ Place(s, b) \in 1..Cardinality(Borders(s))
         /\ \A d \in Borders(s) : b < d => Place(s, b) < Place(s, d)
         /\ Place(s, 0) = 1 /\ Place(s, Len(s) + 1) = Cardinality(Borders(s))
<1> DEFINE B == Borders(s)
           To(d) == {c \in Borders(s) : c <= d}
<1>1. /\ IsFiniteSet(B) /\ B \subseteq 0..(Len(s) + 1) /\ Len(s) \in Nat
      /\ 0 \in B /\ Len(s) + 1 \in B /\ Cardinality(B) \in Nat
  BY BordersAre, LineIs
<1>2. \A d : To(d) \in SUBSET B
  OBVIOUS
<1>3. \A d : IsFiniteSet(To(d)) /\ Cardinality(To(d)) \in Nat
             /\ Cardinality(To(d)) <= Cardinality(B)
  <2> HIDE DEF To, B
  <2> QED
    BY <1>1, <1>2, FS_Subset, FS_CardinalityType
<1>4. Cardinality(To(b)) # 0
  <2>1. b \in To(b)
    BY <1>1
  <2> HIDE DEF To, B
  <2> QED
    BY <1>3, <2>1, FS_EmptySet
<1>5. ASSUME NEW d \in Borders(s), b < d
      PROVE  Cardinality(To(b)) < Cardinality(To(d))
  <2>1. b \in Int /\ d \in Int
    BY <1>1
  <2>2. To(b) \in SUBSET To(d)
    BY <1>1, <1>5, <2>1
  <2>3. d \in To(d) /\ d \notin To(b)
    BY <1>5, <2>1
  <2> HIDE DEF To, B
  <2> QED
    BY <1>3, <2>2, <2>3, FS_Subset
<1>6. To(0) = {0} /\ To(Len(s) + 1) = B
  BY <1>1
<1>7. Cardinality({0}) = 1
  BY FS_Singleton
<1> HIDE DEF To, B
<1>8. \A d : Place(s, d) = Cardinality(To(d))
  BY DEF Place, To
<1>9. Place(s, b) \in 1..Cardinality(Borders(s))
  BY <1>1, <1>3, <1>4, <1>8 DEF B
<1>10. \A d \in Borders(s) : b < d => Place(s, b) < Place(s, d)
  BY <1>5, <1>8
<1>11. Place(s, 0) = 1 /\ Place(s, Len(s) + 1) = Cardinality(Borders(s))
  BY <1>6, <1>7, <1>8 DEF B
<1>12. IsFiniteSet({c \in Borders(s) : c <= b})
  BY <1>3 DEF To
<1> QED
  BY <1>9, <1>10, <1>11, <1>12

LEMMA BorderAt ==
  ASSUME NEW s \in Text, NEW b \in Borders(s)
  PROVE  Border(s, Place(s, b)) = b
<1>1. ASSUME NEW c \in Borders(s), Place(s, c) = Place(s, b)
      PROVE  c = b
  <2>1. b \in Int /\ c \in Int
    BY BordersAre, LineIs
  <2>2. b < c => Place(s, b) < Place(s, c)
    BY <1>1, PlacesAre
  <2>4. Place(s, b) \in 1..Cardinality(Borders(s)) /\ Cardinality(Borders(s)) \in Nat
    BY BordersAre, PlacesAre
  <2>3. c < b => Place(s, c) < Place(s, b)
    BY <1>1, PlacesAre
  <2> QED
    BY <1>1, <2>1, <2>2, <2>3, <2>4
<1> QED
  BY <1>1 DEF Border

(* The part between two borders that have none between them.               *)
LEMMA PartBetween ==
  ASSUME NEW s \in Text, NEW b \in Borders(s), NEW d \in Borders(s), b < d,
         \A c \in Borders(s) : c <= b \/ c >= d
  PROVE  /\ Place(s, d) = Place(s, b) + 1
         /\ Place(s, b) \in DOMAIN Parts(s)
         /\ Parts(s)[Place(s, b)] = SubSeq(s, b + 1, d - 1)
<1>1. Borders(s) \subseteq Int /\ Cardinality(Borders(s)) \in Nat
  BY BordersAre, LineIs
<1>2. {c \in Borders(s) : c <= d} = {c \in Borders(s) : c <= b} \cup {d}
  BY <1>1
<1>3. d \notin {c \in Borders(s) : c <= b}
  BY <1>1
<1>4. Place(s, d) = Place(s, b) + 1
  <2>1. IsFiniteSet({c \in Borders(s) : c <= b})
    BY PlacesAre
  <2> QED
    BY <1>2, <1>3, <2>1, FS_AddElement DEF Place
<1>5. Place(s, b) \in 1..(Cardinality(Borders(s)) - 1)
  <2>1. Place(s, b) \in 1..Cardinality(Borders(s))
    BY PlacesAre
  <2>2. Place(s, d) \in 1..Cardinality(Borders(s))
    BY PlacesAre
  <2> QED
    BY <1>1, <1>4, <2>1, <2>2
<1>6. Border(s, Place(s, b)) = b /\ Border(s, Place(s, b) + 1) = d
  BY <1>4, BorderAt
<1> QED
  BY <1>4, <1>5, <1>6 DEF Parts

LEMMA NextBorder ==
  ASSUME NEW s \in Text, NEW b \in Borders(s), b <= Len(s)
  PROVE  \E d \in Borders(s) : b < d /\ \A c \in Borders(s) : c <= b \/ c >= d
<1> DEFINE T == {c \in Borders(s) : b < c}
<1>1. Borders(s) \subseteq Nat /\ Len(s) + 1 \in Borders(s) /\ Len(s) \in Nat
  BY BordersAre, LineIs
<1>2. T \in SUBSET Nat /\ Len(s) + 1 \in T
  BY <1>1
<1>3. PICK d \in T : \A c \in T : ~ (<<c, d>> \in OpToRel(<, Nat))
  <2> HIDE DEF T
  <2> QED
    BY <1>2, NatLessThanWellFounded, WFMin
<1>4. \A c \in T : ~ (c < d)
  BY <1>1, <1>3 DEF OpToRel
<1> QED
  BY <1>1, <1>4

------------------------------------------------------------------------------
(* In a line where quotes stand around whole words: the words so far are   *)
(* those of the parts before start, and between start and end there is     *)
(* neither a border nor a quote, but for an open one at the beginning.     *)
WordsInv ==
  at = "split" /\ WellQuoted(buffer) =>
    /\ start \in Borders(buffer) /\ Place(buffer, start) = Len(words) + 1
    /\ \A j \in 1..Len(words) : words[j] = Inner(Parts(buffer)[j])
    /\ \A c \in Borders(buffer) : c <= start \/ c > end
    /\ end <= Len(buffer) => (quoted <=> QuotesBefore(buffer, end + 1) % 2 = 1)
    /\ IF quoted
       THEN /\ buffer[start + 1] = Quote
            /\ \A i \in (start + 2)..end : buffer[i] # Quote
       ELSE \A i \in (start + 1)..end : buffer[i] # Quote
    /\ start > Len(buffer) => words # <<>> /\ Parts(buffer)[Len(words)] # <<>>

Splitting == SplitInv /\ WordsInv /\ at = "split" /\ WellQuoted(buffer)

IsNext(d) == start < d /\ \A c \in Borders(buffer) : c <= start \/ c >= d
Piece(d) == SubSeq(buffer, start + 1, d - 1)

LEMMA Numbers ==
  ASSUME SplitInv
  PROVE  /\ start \in Nat /\ end \in Nat /\ start <= end
         /\ end <= Len(buffer) + 1 /\ (quoted => start < end)
         /\ Len(buffer) \in Nat /\ Len(words) \in Nat
         /\ buffer \in Text /\ words \in Seq(Text) /\ quoted \in BOOLEAN
BY LineIs, LenProperties DEF SplitInv, TypeOK, InRange

LEMMA PieceFound ==
  ASSUME Splitting, NEW d \in Borders(buffer), IsNext(d)
  PROVE  /\ Place(buffer, d) = Len(words) + 2
         /\ Parts(buffer)[Len(words) + 1] = Piece(d)
         /\ Piece(d) \in Text /\ Len(Piece(d)) = d - 1 - start
         /\ \A i \in 1..(d - 1 - start) : Piece(d)[i] = buffer[start + i]
         /\ \A i \in DOMAIN Inner(Piece(d)) : Inner(Piece(d))[i] # Quote
<1>1. /\ start \in Nat /\ Len(buffer) \in Nat /\ Len(words) \in Nat
      /\ buffer \in Text
  BY Numbers DEF Splitting
<1>2. start \in Borders(buffer) /\ Place(buffer, start) = Len(words) + 1
  BY DEF Splitting, WordsInv
<1>3. d \in 0..(Len(buffer) + 1) /\ start < d
  BY <1>1, BordersAre DEF IsNext
<1>4. /\ Place(buffer, d) = Place(buffer, start) + 1
      /\ Place(buffer, start) \in DOMAIN Parts(buffer)
      /\ Parts(buffer)[Place(buffer, start)] = Piece(d)
  BY <1>1, <1>2, <1>3, PartBetween DEF IsNext, Piece
<1>5. \A i \in (start + 1)..(d - 1) : buffer[i] \in Char
  BY <1>1, <1>3, LineIs
<1>6. /\ Piece(d) \in Seq(Char)
      /\ Len(Piece(d)) =
           IF start + 1 <= d - 1 THEN (d - 1) - (start + 1) + 1 ELSE 0
      /\ \A i \in 1..((d - 1) - (start + 1) + 1) :
           Piece(d)[i] = buffer[(start + 1) + i - 1]
  <2>1. start + 1 \in Int /\ d - 1 \in Int
    BY <1>1, <1>3
  <2> QED
    BY <1>5, <2>1, SubSeqProperties DEF Piece
<1>7. \A i \in DOMAIN Inner(Piece(d)) : Inner(Piece(d))[i] # Quote
  BY <1>2, <1>4 DEF Splitting, WellQuoted
<1>8. \A i \in 1..(d - 1 - start) : Piece(d)[i] = buffer[start + i]
  <2> SUFFICES ASSUME NEW i \in 1..(d - 1 - start)
               PROVE  Piece(d)[i] = buffer[start + i]
    OBVIOUS
  <2>1. i \in 1..((d - 1) - (start + 1) + 1) /\ (start + 1) + i - 1 = start + i
    BY <1>1, <1>3
  <2> QED
    BY <1>6, <2>1
<1>9. Len(Piece(d)) = d - 1 - start
  BY <1>1, <1>3, <1>6
<1> QED
  BY <1>1, <1>2, <1>4, <1>6, <1>7, <1>8, <1>9 DEF Text

(* A piece without quotes is a word as it is. *)
LEMMA PlainPiece ==
  ASSUME Splitting, NEW d \in Borders(buffer), IsNext(d),
         \A i \in (start + 1)..(d - 1) : buffer[i] # Quote
  PROVE  Inner(Piece(d)) = Piece(d)
<1>1. start \in Nat /\ d \in Nat
  BY Numbers, BordersAre DEF Splitting
<1>2. /\ Len(Piece(d)) = d - 1 - start
      /\ \A i \in 1..(d - 1 - start) : Piece(d)[i] = buffer[start + i]
  BY PieceFound
<1>3. Len(Piece(d)) >= 2 => Piece(d)[1] # Quote
  BY <1>1, <1>2
<1> QED
  BY <1>3 DEF Inner, IsQuoted

(* A piece that begins with a quote ends with the next one. *)
LEMMA QuotedPiece ==
  ASSUME Splitting, NEW d \in Borders(buffer), IsNext(d), quoted,
         end + 1 < d, buffer[end + 1] = Quote
  PROVE  d = end + 2 /\ Inner(Piece(d)) = SubSeq(buffer, start + 2, end)
<1>1. /\ start \in Nat /\ end \in Nat /\ start < end /\ buffer \in Text
      /\ Len(buffer) \in Nat /\ d \in 0..(Len(buffer) + 1)
  BY Numbers, BordersAre DEF Splitting
<1> DEFINE p == Piece(d)
<1>2. /\ p \in Seq(Char) /\ Len(p) = d - 1 - start
      /\ \A i \in 1..(d - 1 - start) : p[i] = buffer[start + i]
      /\ \A i \in DOMAIN Inner(p) : Inner(p)[i] # Quote
  BY PieceFound DEF Text
<1>3. DOMAIN p = 1..Len(p)
  BY <1>2, LenProperties
<1> HIDE DEF p
<1>4. buffer[start + 1] = Quote
  BY DEF Splitting, WordsInv
<1>5. /\ p[1] = Quote /\ end + 1 - start \in 2..Len(p)
      /\ p[end + 1 - start] = Quote
  <2>1. 1 \in 1..(d - 1 - start) /\ end + 1 - start \in 1..(d - 1 - start)
        /\ start + (end + 1 - start) = end + 1
    BY <1>1
  <2> QED
    BY <1>1, <1>2, <1>4, <2>1
<1>6. IsQuoted(p)
  <2> SUFFICES ASSUME ~IsQuoted(p) PROVE FALSE
    OBVIOUS
  <2>1. Inner(p) = p /\ 1 \in DOMAIN p
    BY <1>1, <1>2, <1>3, <1>5 DEF Inner
  <2> QED
    BY <1>2, <1>5, <2>1
<1>7. Inner(p) = SubSeq(p, 2, Len(p) - 1)
  BY <1>6 DEF Inner
<1>8. /\ Inner(p) \in Seq(Char) /\ Len(Inner(p)) = Len(p) - 2
      /\ \A i \in 1..(Len(p) - 2) : Inner(p)[i] = p[i + 1]
  <2>1. Len(p) \in Nat /\ Len(p) >= 2
    BY <1>1, <1>2, <1>5
  <2>2. \A i \in 2..(Len(p) - 1) : p[i] \in Char
    BY <1>2, <2>1, ElementOfSeq
  <2>3. /\ SubSeq(p, 2, Len(p) - 1) \in Seq(Char)
        /\ Len(SubSeq(p, 2, Len(p) - 1)) =
             IF 2 <= Len(p) - 1 THEN (Len(p) - 1) - 2 + 1 ELSE 0
        /\ \A i \in 1..((Len(p) - 1) - 2 + 1) :
             SubSeq(p, 2, Len(p) - 1)[i] = p[2 + i - 1]
    BY <2>1, <2>2, SubSeqProperties
  <2>4. ASSUME NEW i \in 1..(Len(p) - 2) PROVE Inner(p)[i] = p[i + 1]
    <3>1. i \in 1..((Len(p) - 1) - 2 + 1) /\ 2 + i - 1 = i + 1
      BY <2>1
    <3> QED
      BY <1>7, <2>3, <3>1
  <2>5. (IF 2 <= Len(p) - 1 THEN (Len(p) - 1) - 2 + 1 ELSE 0) = Len(p) - 2
    <3>1. \A n \in Nat : n >= 2 =>
            (IF 2 <= n - 1 THEN (n - 1) - 2 + 1 ELSE 0) = n - 2
      OBVIOUS
    <3> QED
      BY <2>1, <3>1
  <2>6. Inner(p) \in Seq(Char) /\ Len(Inner(p)) = Len(p) - 2
    BY <1>7, <2>3, <2>5
  <2> QED
    BY <2>4, <2>6
<1>9. d = end + 2
  <2> SUFFICES ASSUME d # end + 2 PROVE FALSE
    OBVIOUS
  <2>1. end - start \in 1..(Len(p) - 2) /\ end - start + 1 = end + 1 - start
    BY <1>1, <1>2
  <2>2. end - start \in DOMAIN Inner(p)
    BY <1>8, <2>1, LenProperties
  <2> QED
    BY <1>2, <1>5, <1>8, <2>1, <2>2
<1>10. /\ SubSeq(buffer, start + 2, end) \in Seq(Char)
       /\ Len(SubSeq(buffer, start + 2, end)) =
            IF start + 2 <= end THEN end - (start + 2) + 1 ELSE 0
       /\ \A i \in 1..(end - (start + 2) + 1) :
            SubSeq(buffer, start + 2, end)[i] = buffer[(start + 2) + i - 1]
  <2>1. start + 2 \in Int /\ end \in Int
    BY <1>1
  <2>2. \A i \in (start + 2)..end : buffer[i] \in Char
    BY <1>1, LineIs
  <2> QED
    BY <2>1, <2>2, SubSeqProperties
<1>11. Inner(p) = SubSeq(buffer, start + 2, end)
  <2> DEFINE w == SubSeq(buffer, start + 2, end)
  <2>1. Len(w) = Len(p) - 2 /\ Len(p) - 2 = end - start - 1
    BY <1>1, <1>2, <1>9, <1>10
  <2>2. ASSUME NEW i \in 1..Len(w) PROVE Inner(p)[i] = w[i]
    <3>1. /\ i \in 1..(Len(p) - 2) /\ i \in 1..(end - (start + 2) + 1)
          /\ i + 1 \in 1..(d - 1 - start)
          /\ start + (i + 1) = (start + 2) + i - 1
      BY <1>1, <1>2, <1>9, <2>1
    <3> QED
      BY <1>2, <1>8, <1>10, <3>1
  <2> HIDE DEF w
  <2>3. w \in Seq(Char)
    BY <1>10 DEF w
  <2> QED
    BY <1>8, <2>1, <2>2, <2>3, SeqEqual DEF w
<1> QED
  BY <1>9, <1>11 DEF p

(* What is found at the end of a piece is the next word.                   *)
LEMMA WordFound ==
  ASSUME Splitting, NEW d \in Borders(buffer), IsNext(d), NEW w \in Text,
         w = Inner(Piece(d))
  PROVE  LET found == Append(words, w) IN
         /\ Len(found) = Len(words) + 1 /\ Place(buffer, d) = Len(found) + 1
         /\ \A j \in 1..Len(found) : found[j] = Inner(Parts(buffer)[j])
<1> DEFINE found == Append(words, w)
<1>1. Len(words) \in Nat /\ words \in Seq(Text)
  BY Numbers DEF Splitting
<1>2. /\ Len(found) = Len(words) + 1
      /\ \A j \in 1..Len(words) : found[j] = words[j]
      /\ found[Len(words) + 1] = w
  BY <1>1, AppendProperties
<1> HIDE DEF found
<1>3. Place(buffer, d) = Len(words) + 2 /\ Parts(buffer)[Len(words) + 1] = Piece(d)
  BY PieceFound
<1>4. \A j \in 1..Len(words) : words[j] = Inner(Parts(buffer)[j])
  BY DEF Splitting, WordsInv
<1>5. \A j \in 1..(Len(words) + 1) : j \in 1..Len(words) \/ j = Len(words) + 1
  BY <1>1
<1>6. \A j \in 1..Len(found) : found[j] = Inner(Parts(buffer)[j])
  BY <1>2, <1>3, <1>4, <1>5
<1>7. Place(buffer, d) = Len(found) + 1
  BY <1>1, <1>2, <1>3
<1> QED
  BY <1>2, <1>6, <1>7 DEF found

LEMMA AtBlank ==
  ASSUME SplitInv, SplitInv', WordsInv, SplitAtBlank
  PROVE  WordsInv'
<1> SUFFICES ASSUME WellQuoted(buffer) PROVE WordsInv'
  BY DEF WordsInv, SplitAtBlank
<1>1. Splitting
  BY DEF Splitting, SplitAtBlank, Scanning
<1>2. /\ start \in Nat /\ end \in Nat /\ start <= end /\ end < Len(buffer)
      /\ Len(buffer) \in Nat /\ buffer \in Text /\ ~quoted
      /\ buffer[end + 1] = Blank
  BY Numbers DEF SplitAtBlank, Scanning, Scanned
<1>3. /\ start \in Borders(buffer)
      /\ \A c \in Borders(buffer) : c <= start \/ c > end
      /\ QuotesBefore(buffer, end + 1) % 2 # 1
      /\ \A i \in (start + 1)..end : buffer[i] # Quote
  BY <1>1, <1>2 DEF Splitting, WordsInv
<1>4. /\ QuotesBefore(buffer, end + 1) \in Nat
      /\ QuotesBefore(buffer, (end + 1) + 1) =
           QuotesBefore(buffer, end + 1) + (IF buffer[end + 1] = Quote THEN 1 ELSE 0)
  <2>1. end + 1 \in Nat \ {0}
    BY <1>2
  <2> QED
    BY <1>2, <2>1, QuotesCount
<1>5. QuotesBefore(buffer, end + 1) % 2 = 0
  BY <1>3, <1>4
<1>6. end + 1 \in Borders(buffer)
  BY <1>2, <1>5 DEF Borders
<1>7. IsNext(end + 1)
  <2>1. \A c \in Borders(buffer) : c \in Int
    BY <1>2, BordersAre
  <2> QED
    BY <1>2, <1>3, <2>1 DEF IsNext
<1>8. Inner(Piece(end + 1)) = Piece(end + 1)
  <2>1. \A i \in (start + 1)..((end + 1) - 1) : buffer[i] # Quote
    BY <1>2, <1>3
  <2> QED
    BY <1>1, <1>6, <1>7, <2>1, PlainPiece
<1>9. Substr(start, end - start) = Piece(end + 1) /\ Piece(end + 1) \in Text
  <2>1. start + (end - start) = (end + 1) - 1
    BY <1>2
  <2> QED
    BY <1>1, <1>6, <1>7, <2>1, PieceFound DEF Substr, Piece
<1>10. /\ words' = Append(words, Piece(end + 1)) /\ start' = end + 1
       /\ end' = end + 1 /\ quoted' = quoted /\ buffer' = buffer
  BY <1>9 DEF SplitAtBlank
<1>11. /\ Place(buffer, end + 1) = Len(words') + 1
       /\ \A j \in 1..Len(words') : words'[j] = Inner(Parts(buffer)[j])
  BY <1>1, <1>6, <1>7, <1>8, <1>9, <1>10, WordFound
<1>12. \A c \in Borders(buffer) : c <= end + 1 \/ c > end + 1
  BY <1>2, BordersAre
<1>13. QuotesBefore(buffer, (end + 1) + 1) = QuotesBefore(buffer, end + 1)
  <2>1. buffer[end + 1] # Quote
    BY <1>2, CommandLineAssumption
  <2> QED
    BY <1>4, <2>1
<1>14. \A i \in ((end + 1) + 1)..(end + 1) : buffer[i] # Quote
  BY <1>2
<1>15. ~(end + 1 > Len(buffer))
  BY <1>2
<1> QED
  BY <1>2, <1>3, <1>6, <1>10, <1>11, <1>12, <1>13, <1>14, <1>15 DEF WordsInv

LEMMA AtOpeningQuote ==
  ASSUME SplitInv, SplitInv', WordsInv, OpensQuote
  PROVE  WordsInv'
<1> SUFFICES ASSUME WellQuoted(buffer) PROVE WordsInv'
  BY DEF WordsInv, OpensQuote
<1>1. Splitting
  BY DEF Splitting, OpensQuote, Scanning
<1>2. /\ start \in Nat /\ end \in Nat /\ start <= end /\ end < Len(buffer)
      /\ Len(buffer) \in Nat /\ buffer \in Text /\ ~quoted
      /\ buffer[end + 1] = Quote
  BY Numbers DEF OpensQuote, Scanning, Scanned
<1>3. /\ start \in Borders(buffer) /\ Place(buffer, start) = Len(words) + 1
      /\ \A j \in 1..Len(words) : words[j] = Inner(Parts(buffer)[j])
      /\ \A c \in Borders(buffer) : c <= start \/ c > end
      /\ QuotesBefore(buffer, end + 1) % 2 # 1
      /\ \A i \in (start + 1)..end : buffer[i] # Quote
  BY <1>1, <1>2 DEF Splitting, WordsInv
<1>4. \A c \in Borders(buffer) : c <= start \/ c > end + 1
  <2>1. end + 1 \notin Borders(buffer)
    BY <1>2, CommandLineAssumption DEF Borders
  <2> QED
    BY <1>2, <1>3, <2>1, BordersAre
<1>5. start = end
  <2> SUFFICES ASSUME start < end PROVE FALSE
    BY <1>2
  <2>1. PICK d \in Borders(buffer) : IsNext(d)
    BY <1>2, <1>3, NextBorder DEF IsNext
  <2>2. d \in Nat /\ d > end + 1
    BY <1>2, <1>4, <2>1, BordersAre DEF IsNext
  <2>3. /\ Piece(d) \in Text /\ Len(Piece(d)) = d - 1 - start
        /\ \A i \in 1..(d - 1 - start) : Piece(d)[i] = buffer[start + i]
        /\ \A i \in DOMAIN Inner(Piece(d)) : Inner(Piece(d))[i] # Quote
    BY <1>1, <2>1, PieceFound
  <2>4. /\ 1 \in 1..(d - 1 - start) /\ end + 1 - start \in 1..(d - 1 - start)
        /\ start + (end + 1 - start) = end + 1 /\ start + 1 \in (start + 1)..end
    BY <1>2, <2>2
  <2>5. Piece(d)[1] # Quote /\ Piece(d)[end + 1 - start] = Quote
    BY <1>2, <1>3, <2>3, <2>4
  <2>6. Inner(Piece(d)) = Piece(d)
    BY <2>5 DEF Inner, IsQuoted
  <2>7. end + 1 - start \in DOMAIN Piece(d)
    BY <2>3, <2>4, LenProperties DEF Text
  <2> QED
    BY <2>3, <2>5, <2>6, <2>7
<1>6. QuotesBefore(buffer, (end + 1) + 1) % 2 = 1
  <2>1. end + 1 \in Nat \ {0}
    BY <1>2
  <2>2. /\ QuotesBefore(buffer, end + 1) \in Nat
        /\ QuotesBefore(buffer, (end + 1) + 1) = QuotesBefore(buffer, end + 1) + 1
    BY <1>2, <2>1, QuotesCount
  <2>3. \A n \in Nat : n % 2 # 1 => (n + 1) % 2 = 1
    OBVIOUS
  <2> QED
    BY <1>3, <2>2, <2>3
<1>7. /\ words' = words /\ start' = start /\ end' = end + 1 /\ quoted' = TRUE
      /\ buffer' = buffer
  BY DEF OpensQuote
<1>8. \A i \in (start + 2)..(end + 1) : buffer[i] # Quote
  BY <1>2, <1>5
<1>9. ~(start > Len(buffer))
  BY <1>2
<1> QED
  BY <1>2, <1>3, <1>4, <1>5, <1>6, <1>7, <1>8, <1>9 DEF WordsInv

LEMMA AtClosingQuote ==
  ASSUME SplitInv, SplitInv', WordsInv, ClosesQuote
  PROVE  WordsInv'
<1> SUFFICES ASSUME WellQuoted(buffer) PROVE WordsInv'
  BY DEF WordsInv, ClosesQuote
<1>1. Splitting
  BY DEF Splitting, ClosesQuote, Scanning
<1>2. /\ start \in Nat /\ end \in Nat /\ start < end /\ end < Len(buffer)
      /\ Len(buffer) \in Nat /\ buffer \in Text /\ quoted /\ Len(words) \in Nat
      /\ buffer[end + 1] = Quote
  BY Numbers DEF ClosesQuote, Scanning, Scanned
<1>3. /\ start \in Borders(buffer)
      /\ \A c \in Borders(buffer) : c <= start \/ c > end
      /\ QuotesBefore(buffer, end + 1) % 2 = 1
  BY <1>1, <1>2 DEF Splitting, WordsInv
<1>4. PICK d \in Borders(buffer) : IsNext(d)
  BY <1>2, <1>3, NextBorder DEF IsNext
<1>5. d \in Nat /\ end + 1 < d
  <2>1. end + 1 \notin Borders(buffer)
    BY <1>2, CommandLineAssumption DEF Borders
  <2> QED
    BY <1>2, <1>3, <1>4, <2>1, BordersAre DEF IsNext
<1>6. d = end + 2 /\ Inner(Piece(d)) = SubSeq(buffer, start + 2, end)
  BY <1>1, <1>2, <1>4, <1>5, QuotedPiece
<1>7. Substr(start + 1, end - (start + 1)) = Inner(Piece(d))
  <2>1. (start + 1) + 1 = start + 2 /\ (start + 1) + (end - (start + 1)) = end
    BY <1>2
  <2> QED
    BY <1>6, <2>1 DEF Substr
<1>8. Inner(Piece(d)) \in Text
  <2>1. \A i \in (start + 2)..end : buffer[i] \in Char
    BY <1>2, LineIs
  <2>2. start + 2 \in Int /\ end \in Int
    BY <1>2
  <2> QED
    BY <1>6, <2>1, <2>2, SubSeqProperties DEF Text
<1>9. /\ words' = Append(words, Inner(Piece(d))) /\ start' = d /\ end' = d
      /\ quoted' = FALSE /\ buffer' = buffer
  BY <1>6, <1>7 DEF ClosesQuote, AfterQuote
<1>10. /\ Place(buffer, d) = Len(words') + 1 /\ Len(words') = Len(words) + 1
       /\ \A j \in 1..Len(words') : words'[j] = Inner(Parts(buffer)[j])
  BY <1>1, <1>4, <1>8, <1>9, WordFound
<1>11. \A c \in Borders(buffer) : c <= d \/ c > d
  BY <1>2, <1>5, BordersAre
<1>12. d <= Len(buffer) => QuotesBefore(buffer, d + 1) % 2 # 1
  <2> SUFFICES ASSUME d <= Len(buffer) PROVE QuotesBefore(buffer, d + 1) % 2 # 1
    OBVIOUS
  <2>1. buffer[d] # Quote /\ QuotesBefore(buffer, d) % 2 = 0
    BY <1>2, <1>4, <1>5, CommandLineAssumption DEF Borders
  <2>2. d \in Nat \ {0}
    BY <1>2, <1>5
  <2>3. /\ QuotesBefore(buffer, d) \in Nat
        /\ QuotesBefore(buffer, d + 1) =
             QuotesBefore(buffer, d) + (IF buffer[d] = Quote THEN 1 ELSE 0)
    BY <1>2, <2>2, QuotesCount
  <2> QED
    BY <2>1, <2>3
<1>13. \A i \in (d + 1)..d : buffer[i] # Quote
  BY <1>5
<1>14. words' # <<>> /\ Parts(buffer)[Len(words')] # <<>>
  <2>1. words \in Seq(Text)
    BY Numbers
  <2>2. words' # <<>>
    BY <1>8, <1>9, <2>1, AppendProperties
  <2>3. /\ Parts(buffer)[Len(words) + 1] = Piece(d)
        /\ Len(Piece(d)) = d - 1 - start
    BY <1>1, <1>4, PieceFound
  <2>4. Piece(d) # <<>>
    BY <1>2, <1>5, <2>3, EmptyLine
  <2> QED
    BY <1>10, <2>2, <2>3, <2>4
<1> QED
  BY <1>4, <1>9, <1>10, <1>11, <1>12, <1>13, <1>14 DEF WordsInv

LEMMA AtOther ==
  ASSUME SplitInv, SplitInv', WordsInv, ScansOn
  PROVE  WordsInv'
<1> SUFFICES ASSUME WellQuoted(buffer) PROVE WordsInv'
  BY DEF WordsInv, ScansOn
<1>1. Splitting
  BY DEF Splitting, ScansOn, Scanning
<1>2. /\ start \in Nat /\ end \in Nat /\ start <= end /\ end < Len(buffer)
      /\ Len(buffer) \in Nat /\ buffer \in Text /\ quoted \in BOOLEAN
      /\ buffer[end + 1] # Quote /\ (buffer[end + 1] # Blank \/ quoted)
  BY Numbers DEF ScansOn, Scanning, Scanned
<1>3. /\ start \in Borders(buffer) /\ Place(buffer, start) = Len(words) + 1
      /\ \A j \in 1..Len(words) : words[j] = Inner(Parts(buffer)[j])
      /\ \A c \in Borders(buffer) : c <= start \/ c > end
      /\ quoted <=> QuotesBefore(buffer, end + 1) % 2 = 1
      /\ IF quoted
         THEN /\ buffer[start + 1] = Quote
              /\ \A i \in (start + 2)..end : buffer[i] # Quote
         ELSE \A i \in (start + 1)..end : buffer[i] # Quote
  BY <1>1, <1>2 DEF Splitting, WordsInv
<1>4. \A c \in Borders(buffer) : c <= start \/ c > end + 1
  <2>1. end + 1 \notin Borders(buffer)
    BY <1>2, <1>3 DEF Borders
  <2> QED
    BY <1>2, <1>3, <2>1, BordersAre
<1>5. QuotesBefore(buffer, (end + 1) + 1) = QuotesBefore(buffer, end + 1)
  <2>1. end + 1 \in Nat \ {0}
    BY <1>2
  <2>2. /\ QuotesBefore(buffer, end + 1) \in Nat
        /\ QuotesBefore(buffer, (end + 1) + 1) = QuotesBefore(buffer, end + 1)
             + (IF buffer[end + 1] = Quote THEN 1 ELSE 0)
    BY <1>2, <2>1, QuotesCount
  <2> QED
    BY <1>2, <2>2
<1>6. /\ words' = words /\ start' = start /\ end' = end + 1 /\ quoted' = quoted
      /\ buffer' = buffer
  BY DEF ScansOn
<1>7. IF quoted
      THEN /\ buffer[start + 1] = Quote
           /\ \A i \in (start + 2)..(end + 1) : buffer[i] # Quote
      ELSE \A i \in (start + 1)..(end + 1) : buffer[i] # Quote
  BY <1>2, <1>3
<1>8. ~(start > Len(buffer))
  BY <1>2
<1> QED
  BY <1>2, <1>3, <1>4, <1>5, <1>6, <1>7, <1>8 DEF WordsInv

(* Behind the last character: what is left of the line is the last word,   *)
(* or there was a blank, or a closing quote.                               *)
LEMMA AtTheEnd ==
  ASSUME SplitInv, WordsInv, SplitReturns, WellQuoted(buffer)
  PROVE  words' = Meant(buffer)
<1>1. Splitting
  BY DEF Splitting, SplitReturns
<1>2. /\ start \in Nat /\ end \in Nat /\ start <= end /\ end >= Len(buffer)
      /\ end <= Len(buffer) + 1 /\ ~quoted
      /\ Len(buffer) \in Nat /\ buffer \in Text
      /\ Len(words) \in Nat /\ words \in Seq(Text)
  BY Numbers DEF SplitReturns
<1>3. /\ start \in Borders(buffer) /\ Place(buffer, start) = Len(words) + 1
      /\ \A j \in 1..Len(words) : words[j] = Inner(Parts(buffer)[j])
      /\ \A c \in Borders(buffer) : c <= start \/ c > end
      /\ \A i \in (start + 1)..end : buffer[i] # Quote
      /\ start > Len(buffer) => Parts(buffer)[Len(words)] # <<>>
  BY <1>1, <1>2 DEF Splitting, WordsInv
<1> DEFINE N == Cardinality(Borders(buffer)) - 1
<1>4. /\ N + 1 = Cardinality(Borders(buffer)) /\ N \in Nat
      /\ DOMAIN Parts(buffer) = 1..N /\ Len(Parts(buffer)) = N
      /\ Place(buffer, Len(buffer) + 1) = N + 1
      /\ Len(buffer) + 1 \in Borders(buffer)
  <2>1. /\ Cardinality(Borders(buffer)) \in Nat
        /\ Len(buffer) + 1 \in Borders(buffer)
    BY <1>2, BordersAre
  <2>2. /\ Place(buffer, start) \in 1..Cardinality(Borders(buffer))
        /\ Place(buffer, Len(buffer) + 1) = Cardinality(Borders(buffer))
    BY <1>2, <1>3, PlacesAre
  <2>3. N \in Nat /\ N + 1 = Cardinality(Borders(buffer))
    BY <2>1, <2>2
  <2>4. DOMAIN Parts(buffer) = 1..N
    BY DEF Parts
  <2>5. Len(Parts(buffer)) = N
    <3>1. \A M \in Nat : \A g : g = [k \in 1..M |-> g[k]] => Len(g) = M
      OBVIOUS
    <3>2. Parts(buffer) = [k \in 1..N |-> Parts(buffer)[k]]
      BY DEF Parts
    <3> HIDE DEF N
    <3> QED
      BY <2>3, <3>1, <3>2
  <2> QED
    BY <2>1, <2>2, <2>3, <2>4, <2>5
<1> HIDE DEF N
<1>5. CASE start > Len(buffer)
  <2>1. start = Len(buffer) + 1 /\ words' = words
    BY <1>2, <1>5 DEF SplitReturns
  <2>2. Len(words) = N
    BY <1>2, <1>3, <1>4, <2>1
  <2>3. Last(Parts(buffer)) # <<>>
    BY <1>3, <1>4, <1>5, <2>2 DEF Last
  <2>4. Meant(buffer) = [k \in 1..N |-> Inner(Parts(buffer)[k])]
    BY <1>4, <2>3 DEF Meant
  <2>5. words = [k \in 1..N |-> words[k]]
    BY <1>2, <2>2
  <2> QED
    BY <1>3, <2>1, <2>2, <2>4, <2>5
<1>6. CASE start <= Len(buffer)
  <2> DEFINE d == Len(buffer) + 1
  <2>1. IsNext(d) /\ d \in Borders(buffer) /\ end = Len(buffer)
    BY <1>2, <1>3, <1>4, <1>6, BordersAre DEF IsNext
  <2>2. /\ Place(buffer, d) = Len(words) + 2
        /\ Parts(buffer)[Len(words) + 1] = Piece(d)
        /\ Piece(d) \in Text /\ Len(Piece(d)) = d - 1 - start
    BY <1>1, <2>1, PieceFound
  <2>3. N = Len(words) + 1
    BY <1>2, <1>4, <2>2
  <2>4. Last(Parts(buffer)) = Piece(d)
    BY <1>4, <2>2, <2>3 DEF Last
  <2>5. CASE start = Len(buffer)
    <3>1. words' = words
      BY <1>2, <2>5 DEF SplitReturns
    <3>2. Last(Parts(buffer)) = <<>>
      BY <1>2, <2>2, <2>4, <2>5, EmptySeq DEF Text
    <3>3. Meant(buffer) = [k \in 1..Len(words) |-> Inner(Parts(buffer)[k])]
      <4>1. Len(Parts(buffer)) - 1 = Len(words)
        BY <1>2, <1>4, <2>3
      <4> QED
        BY <3>2, <4>1 DEF Meant
    <3>4. words = [k \in 1..Len(words) |-> words[k]]
      BY <1>2
    <3> QED
      BY <1>3, <3>1, <3>3, <3>4
  <2>6. CASE start < Len(buffer)
    <3>1. Substr(start, Len(buffer) - start) = Piece(d)
      <4>1. start + (Len(buffer) - start) = d - 1
        BY <1>2
      <4> QED
        BY <4>1 DEF Substr, Piece
    <3>2. Inner(Piece(d)) = Piece(d)
      <4>1. \A i \in (start + 1)..(d - 1) : buffer[i] # Quote
        BY <1>2, <1>3, <2>1
      <4> QED
        BY <1>1, <2>1, <4>1, PlainPiece
    <3>3. words' = Append(words, Piece(d))
      BY <2>6, <3>1 DEF SplitReturns
    <3>4. /\ Len(words') = N
          /\ \A j \in 1..Len(words') : words'[j] = Inner(Parts(buffer)[j])
      BY <1>1, <2>1, <2>2, <2>3, <3>2, <3>3, WordFound
    <3>5. Last(Parts(buffer)) # <<>>
      BY <1>2, <2>2, <2>4, <2>6, EmptyLine
    <3>6. Meant(buffer) = [k \in 1..N |-> Inner(Parts(buffer)[k])]
      BY <1>4, <3>5 DEF Meant
    <3>7. words' = [k \in 1..N |-> words'[k]]
      <4>1. words' \in Seq(Text)
        BY <1>2, <2>2, <3>3, AppendProperties
      <4> QED
        BY <3>4, <4>1
    <3> QED
      BY <3>4, <3>6, <3>7
  <2> QED
    BY <1>2, <1>6, <2>5, <2>6
<1> QED
  BY <1>2, <1>5, <1>6

LEMMA AtTheBeginning ==
  ASSUME SplitInv, SplitInv', ReadLine
  PROVE  WordsInv'
<1>1. /\ start' = 0 /\ end' = 0 /\ quoted' = FALSE /\ words' = <<>>
      /\ buffer' \in Text
  BY DEF ReadLine, SplitInv, TypeOK
<1> DEFINE s == buffer'
<1>2. s \in Text /\ Len(s) \in Nat
  BY <1>1, LineIs
<1> HIDE DEF s
<1>3. 0 \in Borders(s) /\ \A c \in Borders(s) : c \in Nat
  BY <1>2, BordersAre
<1>4. Place(s, 0) = 1
  BY <1>2, <1>3, PlacesAre
<1>5. QuotesBefore(s, 0 + 1) = 0
  BY NoQuotesBefore
<1>6. Len(<<>>) = 0
  BY EmptySeq
<1>7. /\ Place(s, 0) = Len(<<>>) + 1
      /\ \A c \in Borders(s) : c <= 0 \/ c > 0
      /\ QuotesBefore(s, 0 + 1) % 2 # 1
      /\ \A i \in (0 + 1)..0 : s[i] # Quote
      /\ ~(0 > Len(s))
  BY <1>2, <1>3, <1>4, <1>5, <1>6
<1>8. \A j \in 1..Len(<<>>) : <<>>[j] = Inner(Parts(s)[j])
  BY <1>6
<1> QED
  BY <1>1, <1>3, <1>7, <1>8 DEF WordsInv, s

LEMMA InductiveWords ==
  SplitInv /\ SplitInv' /\ WordsInv /\ SplitsAsMeant /\ [Next]_vars
    => WordsInv' /\ SplitsAsMeant'
<1> SUFFICES ASSUME SplitInv, SplitInv', WordsInv, SplitsAsMeant, [Next]_vars
             PROVE  WordsInv' /\ SplitsAsMeant'
  OBVIOUS
<1>1. CASE ReadLine
  BY <1>1, AtTheBeginning DEF ReadLine, SplitsAsMeant
<1>2. CASE SplitAtBlank
  BY <1>2, AtBlank DEF SplitAtBlank, Scanning, SplitsAsMeant
<1>3. CASE OpensQuote
  BY <1>3, AtOpeningQuote DEF OpensQuote, Scanning, SplitsAsMeant
<1>4. CASE ClosesQuote
  BY <1>4, AtClosingQuote DEF ClosesQuote, Scanning, SplitsAsMeant
<1>5. CASE ScansOn
  BY <1>5, AtOther DEF ScansOn, Scanning, SplitsAsMeant
<1>6. CASE SplitThrows
  BY <1>6 DEF SplitThrows, WordsInv, SplitsAsMeant
<1>7. CASE SplitReturns
  <2>1. buffer' = buffer /\ at' = "resolve"
    BY <1>7 DEF SplitReturns
  <2>2. WellQuoted(buffer) => words' = Meant(buffer)
    BY <1>7, AtTheEnd
  <2> QED
    BY <2>1, <2>2 DEF WordsInv, SplitsAsMeant
<1>8. CASE ResolveExit \/ ResolveIllegal \/ ResolveCall
  BY <1>8 DEF ResolveExit, ResolveIllegal, ResolveCall, Resolves, WordsInv,
              SplitsAsMeant
<1>9. CASE UNCHANGED vars
  BY <1>9 DEF vars, WordsInv, SplitsAsMeant
<1> QED
  BY <1>1, <1>2, <1>3, <1>4, <1>5, <1>6, <1>7, <1>8, <1>9 DEF Next, Split

LEMMA InitialWords == Init => WordsInv /\ SplitsAsMeant
BY DEF Init, WordsInv, SplitsAsMeant

(* Whatever the line is: if quotes stand around whole words in it, split   *)
(* finds the words that are meant, and what it skips behind a closing      *)
(* quote is a blank or the end of the line.                                *)
THEOREM SplitFindsTheWords == Spec => []SplitsAsMeant
BY InitialTypes, InductiveTypes, InitialWords, InductiveWords, PTL DEF Spec

------------------------------------------------------------------------------
(* No line left out *)

(* Line n, if it is a command, has been called.                            *)
Answered(n) ==
  LET s == input.lines[n] IN
  WellQuoted(s) /\ IsCall(Meant(s)) =>
    \E i \in DOMAIN calls :
      calls[i] = [line |-> n, command |-> Meant(s)[1], path |-> Slashed(Meant(s)[2])]

(* The lines before the one in the buffer are answered, and that one once  *)
(* the next one may be read.                                               *)
AnsweredInv ==
  at # "over" =>
    /\ \A n \in 1..Lines : n < reads \/ (n = reads /\ at = "read") => Answered(n)
    /\ at = "argv" => reads = 0
    /\ at \in {"split", "resolve"} /\ reads \in 1..Lines =>
         buffer = input.lines[reads]

LEMMA StaysAnswered ==
  ASSUME TypeOK, NEW n, Answered(n), input' = input,
         calls' = calls \/ \E c : calls' = Append(calls, c)
  PROVE  Answered(n)'
<1>1. \A i \in DOMAIN calls : i \in DOMAIN calls' /\ calls'[i] = calls[i]
  <2>1. calls \in Seq([line : 0..Lines, command : Commands, path : Text])
    BY DEF TypeOK
  <2>2. CASE \E c : calls' = Append(calls, c)
    <3>1. PICK c : calls' = Append(calls, c)
      BY <2>2
    <3> DEFINE R == [line : 0..Lines, command : Commands, path : Text]
    <3>2. calls \in Seq(R \cup {c})
      BY <2>1, SeqMonotonic
    <3> HIDE DEF R
    <3>3. /\ DOMAIN calls = 1..Len(calls) /\ Len(calls) \in Nat
          /\ Append(calls, c) \in Seq(R \cup {c})
          /\ Len(Append(calls, c)) = Len(calls) + 1
          /\ \A i \in 1..Len(calls) : Append(calls, c)[i] = calls[i]
      BY <3>2, AppendProperties, LenProperties
    <3>4. DOMAIN calls' = 1..(Len(calls) + 1)
      BY <3>1, <3>3, LenProperties
    <3>5. \A i \in 1..Len(calls) : calls'[i] = calls[i]
      BY <3>1, <3>3
    <3>6. \A i \in 1..Len(calls) : i \in 1..(Len(calls) + 1)
      BY <3>3
    <3> QED
      BY <3>3, <3>4, <3>5, <3>6, Zenon
  <2>3. CASE calls' = calls
    BY <2>3
  <2> QED
    BY <2>2, <2>3
<1> DEFINE s == input.lines[n]
           r == [line |-> n, command |-> Meant(s)[1], path |-> Slashed(Meant(s)[2])]
<1>2. WellQuoted(s) /\ IsCall(Meant(s)) => \E i \in DOMAIN calls : calls[i] = r
  BY DEF Answered
<1> HIDE DEF r
<1>3. WellQuoted(s) /\ IsCall(Meant(s)) => \E i \in DOMAIN calls' : calls'[i] = r
  BY <1>1, <1>2
<1> QED
  BY <1>3 DEF Answered, r

LEMMA InductiveAnswers ==
  SplitInv /\ LineNoInv /\ OrderInv /\ SplitsAsMeant /\ AnsweredInv /\ [Next]_vars
    => AnsweredInv'
<1> SUFFICES ASSUME SplitInv, LineNoInv, OrderInv, SplitsAsMeant, AnsweredInv,
                    [Next]_vars
             PROVE  AnsweredInv'
  OBVIOUS
<1>1. TypeOK /\ reads \in Nat /\ Lines \in Nat
  BY LineNoType DEF SplitInv
<1>2. CASE ReadLine
  <2>1. /\ input' = input /\ calls' = calls /\ Lines' = Lines /\ reads' = reads + 1
        /\ at = "read" /\ at' = "split"
    BY <1>2 DEF ReadLine, Lines
  <2>2. ASSUME NEW n \in 1..Lines, n < reads + 1 PROVE Answered(n)'
    <3>1. Answered(n)
      BY <1>1, <2>1, <2>2 DEF AnsweredInv
    <3> QED
      BY <1>1, <2>1, <3>1, StaysAnswered
  <2>3. reads + 1 \in 1..Lines => buffer' = input.lines[reads + 1]
    <3> SUFFICES ASSUME reads + 1 \in 1..Lines PROVE buffer' = input.lines[reads + 1]
      OBVIOUS
    <3>1. reads < Lines
      BY <1>1
    <3>2. ~eof
      BY <1>1, <3>1 DEF OrderInv, LinesInOrder
    <3> QED
      BY <1>1, <1>2, <3>1, <3>2 DEF ReadLine
  <2> QED
    BY <2>1, <2>2, <2>3 DEF AnsweredInv
<1>3. CASE Split
  <2>1. /\ input' = input /\ calls' = calls /\ Lines' = Lines /\ reads' = reads
        /\ buffer' = buffer /\ at = "split" /\ at' \in {"split", "resolve", "over"}
    BY <1>3 DEF Split, SplitAtBlank, OpensQuote, ClosesQuote, ScansOn, SplitThrows,
                SplitReturns, Scanning, Lines
  <2>2. ASSUME NEW n \in 1..Lines, n < reads PROVE Answered(n)'
    <3>1. Answered(n)
      BY <2>1, <2>2 DEF AnsweredInv
    <3> QED
      BY <1>1, <2>1, <3>1, StaysAnswered
  <2> QED
    BY <2>1, <2>2 DEF AnsweredInv
<1>4. CASE ResolveExit \/ ResolveIllegal \/ ResolveCall
  <2>1. /\ input' = input /\ Lines' = Lines /\ reads' = reads
        /\ at \in {"argv", "resolve"} /\ at' \in {"read", "over"}
        /\ calls' = calls \/ \E c : calls' = Append(calls, c)
    BY <1>4 DEF ResolveExit, ResolveIllegal, ResolveCall, Resolves, Lines
  <2> SUFFICES ASSUME at' = "read" PROVE AnsweredInv'
    BY <2>1 DEF AnsweredInv
  <2>2. ASSUME NEW n \in 1..Lines, n < reads PROVE Answered(n)'
    <3>1. Answered(n)
      BY <2>1, <2>2 DEF AnsweredInv
    <3> QED
      BY <1>1, <2>1, <3>1, StaysAnswered
  <2>3. ASSUME reads \in 1..Lines PROVE Answered(reads)'
    <3>1. at = "resolve" /\ buffer = input.lines[reads]
      BY <2>1, <2>3 DEF AnsweredInv
    <3>2. WellQuoted(buffer) => words = Meant(buffer)
      BY <3>1 DEF SplitsAsMeant
    <3> SUFFICES ASSUME WellQuoted(buffer), IsCall(Meant(buffer))
                 PROVE  \E i \in DOMAIN calls' :
                          calls'[i] = [line |-> reads, command |-> Meant(buffer)[1],
                                       path |-> Slashed(Meant(buffer)[2])]
      BY <2>1, <3>1 DEF Answered
    <3>3. words = Meant(buffer) /\ IsCall(words)
      BY <3>2
    <3>4. ResolveCall
      <4>1. Len(<<Exit>>) = 1
        OBVIOUS
      <4> QED
        BY <1>4, <3>1, <3>3, <4>1 DEF ResolveExit, ResolveIllegal, IsCall, IsExit
    <3> DEFINE c == [line |-> LineNo, command |-> words[1], path |-> Slashed(words[2])]
    <3>5. calls' = Append(calls, c)
      BY <3>4 DEF ResolveCall
    <3>6. Len(calls) + 1 \in DOMAIN calls' /\ calls'[Len(calls) + 1] = c
      <4>1. calls \in Seq([line : 0..Lines, command : Commands, path : Text])
        BY <1>1 DEF TypeOK
      <4> HIDE DEF c
      <4> QED
        BY <3>5, <4>1
    <3>7. LineNo = reads
      BY <2>3 DEF LineNo
    <3> QED
      BY <3>3, <3>6, <3>7
  <2> QED
    BY <1>1, <2>1, <2>2, <2>3 DEF AnsweredInv
<1>5. CASE UNCHANGED vars
  <2>1. /\ input' = input /\ calls' = calls /\ Lines' = Lines /\ reads' = reads
        /\ buffer' = buffer /\ at' = at
    BY <1>5 DEF vars, Lines
  <2>2. \A n : Answered(n) => Answered(n)'
    BY <1>1, <2>1, StaysAnswered
  <2> QED
    BY <2>1, <2>2 DEF AnsweredInv
<1> QED
  BY <1>2, <1>3, <1>4, <1>5 DEF Next

LEMMA InitialAnswers == Init => AnsweredInv
<1> SUFFICES ASSUME Init PROVE AnsweredInv
  OBVIOUS
<1>1. Lines \in Nat /\ reads = 0 /\ at = "argv"
  BY CommandLineAssumption, LenProperties DEF Init, Lines
<1> QED
  BY <1>1 DEF AnsweredInv

(* Whatever lines come before it, and however they are quoted: a line that *)
(* means a command is called, with the path that is meant, before the next *)
(* line is read; a line is forgotten only if the client ends.              *)
THEOREM EveryLineIsCalled == Spec => []NoneLeftOut
<1>1. SplitInv /\ LineNoInv /\ AnsweredInv => NoneLeftOut
  <2> SUFFICES ASSUME SplitInv, LineNoInv, AnsweredInv, at = "read",
                      NEW n \in 1..Lines, n <= reads
               PROVE  Answered(n)
    BY DEF NoneLeftOut, Answered
  <2>1. reads \in Nat /\ Lines \in Nat
    BY LineNoType DEF SplitInv
  <2> QED
    BY <2>1 DEF AnsweredInv
<1> QED
  BY <1>1, InitialTypes, InductiveTypes, InitialWords, InductiveWords,
     InitialOrder, InductiveOrder, InitialAnswers, InductiveAnswers, PTL DEF Spec
==============================================================================
