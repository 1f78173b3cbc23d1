------------------------------ MODULE RunLength ------------------------------
(***************************************************************************)
(* The two run-length encoders of "Compression alternatives": ByteCoding-  *)
(* Model (Byte_RLE.hpp) counts equal bytes, BitCodingModel (Bit_RLE.hpp)   *)
(* equal bits from the top of each byte down, in the seven low bits of a   *)
(* Byte (Byte.hpp).  Both are built with the file, given each further byte *)
(* by <<, and ended by a flush.  The program has no call of them.          *)
(*                                                                         *)
(* A code is a pair: what is repeated, and how often.                      *)
(***************************************************************************)
EXTENDS Product, SequencesExt, FiniteSets

CONSTANTS MaxBytes,  \* the largest amount of a byte: 255
          MaxBits    \* the largest amount of a bit: 127

ASSUME RunAssumption ==
  /\ Bits \subseteq Nat /\ IsFiniteSet(Bits) /\ Bits # {}
  /\ MaxBytes \in Nat \ {0} /\ MaxBits \in Nat \ {0}

(* get() at the end of a file gives -1: a byte of ones. *)
FirstByte(f) == IF f = <<>> THEN Bits ELSE f[1]
Further(f) == SubSeq(f, 2, Len(f))

AnyLonger(code, max) == TRUE                 \* a slip: the amount wraps

MayGrow(code, max) == code[2] < max

(* resetAmount and setValue; setAmount by one more, which keeps the value  *)
(* (a uint8_t wraps, a Byte has an assert).                                *)
Fresh(v) == <<v, 1>>
Grown(code, max) == [code EXCEPT ![2] = (@ + 1) % (max + 1)]

(* operator<<, and the loop of encodeBits: the run grows, or is output and *)
(* a new one begins.                                                       *)
Extend(run, v, max) ==
  IF v = run.code[1] /\ MayGrow(run.code, max)
  THEN [run EXCEPT !.code = Grown(@, max)]
  ELSE [out |-> Append(run.out, run.code), code |-> Fresh(v)]

(* From the constructor to the flush. *)
Codes(first, others, max) ==
  LET run[i \in 0..Len(others)] ==
        IF i = 0 THEN [out |-> <<>>, code |-> Fresh(first)]
                 ELSE Extend(run[i - 1], others[i], max)
      last == run[Len(others)]
  IN Append(last.out, last.code)

ByteCodes(f) == Codes(FirstByte(f), Further(f), MaxBytes)

(* encodeBits(7) goes through a whole byte, from the top bit down.         *)
BitsOf(byte) ==
  [i \in 1..Cardinality(Bits) |-> SetToSortSeq(Bits, >)[i] \in byte]
FileBits(f) == FlattenSeq([i \in DOMAIN f |-> BitsOf(f[i])])

(* The constructor takes the top bit of the first byte, encodeBits(6) the  *)
(* other ones.                                                             *)
BitCodes(f) ==
  LET bits == FileBits(<<FirstByte(f)>> \o Further(f)) IN
  Codes(Head(bits), Tail(bits), MaxBits)

------------------------------------------------------------------------------
(* What codes stand for. *)
Decoded(codes) ==
  FlattenSeq([k \in DOMAIN codes |->
                [i \in 1..codes[k][2] |-> codes[k][1]]])

(* Codes stand for s, each amount fits, and no run is cut before it has to *)
(* be.                                                                     *)
Encodes(codes, s, max) ==
  /\ Decoded(codes) = s
  /\ \A k \in DOMAIN codes :
       /\ codes[k][2] \in 1..max
       /\ k > 1 /\ codes[k - 1][1] = codes[k][1] => codes[k - 1][2] = max
==============================================================================
