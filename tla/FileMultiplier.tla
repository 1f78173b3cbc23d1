---------------------------- MODULE FileMultiplier ---------------------------
(***************************************************************************)
(* FileMultiplier::multiplyFiles_8 (FileMultiplier.hpp), block by block:   *)
(* the reads from the two streams with their eof flags, the product of the *)
(* two buffers, and what goes to the third file.  One run is one call.     *)
(*                                                                         *)
(* The streams are in text mode: on Windows a byte 0x1A ends a file that   *)
(* is read.  (That line ends change too leaves no trace here: contents are *)
(* what is read, and a product is read as it was written.)                 *)
(***************************************************************************)
EXTENDS Product

CONSTANTS Files,    \* the contents that the two files may have
          TextEnds  \* the bytes that end a text on Windows: 0x1A

ASSUME TextAssumption == Files \subseteq File /\ TextEnds \subseteq Byte

VARIABLES file,   \* the contents of curr ("first") and prev ("second")
          ends,   \* the bytes that end a text where this runs
          read,   \* how many blocks have been read from each
          eof,    \* which of the streams have hit their end
          out,    \* what has been written to diff
          at      \* "loop", "rest" or "done"

vars == <<file, ends, read, eof, out, at>>

Stream == {"first", "second"}

Init ==
  /\ file \in [Stream -> Files]
  /\ ends \in {{}, TextEnds}
  /\ read = 0 /\ eof = {}
  /\ out = <<>> /\ at = "loop"

(* What a stream gives of file f.                                          *)
Text(f) == TextUpTo(f, ends)

Given(s) == Text(file[s])

(* Byte i of the buffer read from stream s: filled with NULs, then         *)
(* overwritten with what is left of the file.                              *)
Buffer(s, i) == At(Given(s), read * BlockSize + i)

HitsEndLate(f, n) == Len(f) < n * BlockSize  \* a slip: one block too late

(* Reading block n of f sets eof if that gets less than a whole block.     *)
HitsEnd(f, n) == Len(f) < (n + 1) * BlockSize

(* The body of the while loop.                                             *)
MultiplyBlock ==
  LET product == [i \in 1..BlockSize |->
                    Xor(Buffer("first", i), Buffer("second", i))]
  IN
  /\ at = "loop"
  /\ read' = read + 1
  /\ eof' = {s \in Stream : HitsEnd(Given(s), read)}
  /\ \/ /\ eof' = {}
        /\ out' = out \o product
        /\ UNCHANGED at
     \/ /\ eof' # {}
        /\ out' = out \o Trim(product)
        /\ at' = "rest"
  /\ UNCHANGED <<file, ends>>

(* The tail of the file whose stream has not ended, if there is one.       *)
CopyRest ==
  LET other == IF "first" \in eof THEN "second" ELSE "first" IN
  /\ at = "rest"
  /\ out' = out \o RestFrom(Given(other), read * BlockSize)
  /\ at' = "done"
  /\ UNCHANGED <<file, ends, read, eof>>

Next == MultiplyBlock \/ CopyRest

Spec == Init /\ [][Next]_vars

------------------------------------------------------------------------------
(* Properties *)

(* The loop writes the product in closed form, whatever the two lengths    *)
(* are: blocks, logical ending and rest meet without a gap or an overlap.  *)
WritesProduct == at = "done" => out = Multiply(Given("first"), Given("second"))

(* The call has ended, on texts without NUL bytes.                         *)
TextDone ==
  at = "done" /\ \A s \in Stream : NulFree(file[s]) /\ Given(s) = file[s]

(* What multiplyFiles_8 makes from curr and the diff.                      *)
Undone == Multiply(file["first"], Text(out))

(* If no byte of the diff ends a text, that is prev, and behind it NULs up *)
(* to the last whole block of curr.  So it is prev itself, unless prev     *)
(* ends before that block.                                                 *)
UndoPads ==
  TextDone /\ Text(out) = out => Undone =
    Padded(file["second"], (Len(file["first"]) \div BlockSize) * BlockSize)

(* If a byte does, it is prev as far as the diff is read, and then what    *)
(* curr has from there on.                                                 *)
UndoStops ==
  TextDone /\ Text(out) # out =>
    LET n == Len(Text(out)) IN
    Undone = [i \in 1..n |-> At(file["second"], i)]
               \o SubSeq(file["first"], n + 1, Len(file["first"]))
==============================================================================
