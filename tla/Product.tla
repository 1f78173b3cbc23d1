------------------------------- MODULE Product -------------------------------
(***************************************************************************)
(* The product of two files that FileMultiplier::multiplyFiles_8 writes,   *)
(* in closed form.  FileMultiplier has the loop itself, and shows that it  *)
(* writes this; VersionController uses it as one operation.                *)
(*                                                                         *)
(* A byte is the set of its bits that are 1, so that ^ is the symmetric    *)
(* difference and the NUL byte is the empty set.                           *)
(***************************************************************************)
EXTENDS Integers, SequencesExt

CONSTANTS Bits,       \* the bits of a byte: 1..8 in the program
          BlockSize   \* BUFFER_SIZE: 8 in the program

ASSUME BlockAssumption == BlockSize \in Nat \ {0}

Byte == SUBSET Bits
File == Seq(Byte)
NUL == {}

AsAnd(a, b) == a \cap b                       \* a slip: & (as in line 144)

Xor(a, b) == (a \ b) \cup (b \ a)

(* A byte of a buffer that was filled with NULs before the read.           *)
At(f, i) == IF i <= Len(f) THEN f[i] ELSE NUL

Least(m, n) == IF m <= n THEN m ELSE n

(* How many times the loop reads a whole block from both files.            *)
FullBlocks(a, b) == Least(Len(a) \div BlockSize, Len(b) \div BlockSize)

(* The length of block s without the NULs at its end.                      *)
TrimmedLen(s) ==
  CHOOSE n \in 0..Len(s) :
    /\ n > 0 => s[n] # NUL
    /\ \A i \in 1..Len(s) : i > n => s[i] = NUL

(* find_if_not over the reversed out_buffer: what is output before the     *)
(* "logical ending".                                                       *)
Trim(s) == SubSeq(s, 1, TrimmedLen(s))

(* The block in which one of the files ends, and what is left of the file  *)
(* that is longer than that block.                                         *)
LastBlock(a, b) ==
  LET done == FullBlocks(a, b) * BlockSize IN
  [i \in 1..BlockSize |-> Xor(At(a, done + i), At(b, done + i))]

RestOverlaps(f, done) == SubSeq(f, done, Len(f))  \* a slip: one too early

RestFrom(f, done) == SubSeq(f, done + 1, Len(f))

Rest(a, b) ==
  LET done == (FullBlocks(a, b) + 1) * BlockSize IN
  IF Len(a) < done THEN RestFrom(b, done) ELSE RestFrom(a, done)

Multiply(a, b) ==
  [i \in 1..FullBlocks(a, b) * BlockSize |-> Xor(a[i], b[i])]
    \o Trim(LastBlock(a, b)) \o Rest(a, b)

(* What a text-mode stream gives of f where the bytes E end a text.        *)
TextUpTo(f, E) ==
  LET n == SelectInSeq(f, LAMBDA b : b \in E) IN
  IF n = 0 THEN f ELSE SubSeq(f, 1, n - 1)

------------------------------------------------------------------------------
NulFree(f) == \A i \in 1..Len(f) : f[i] # NUL

(* f with NULs behind it up to length n.                                   *)
Padded(f, n) == [i \in 1..(IF n > Len(f) THEN n ELSE Len(f)) |-> At(f, i)]
==============================================================================
