--------------------------- MODULE MCFileMultiplier ---------------------------
(* All pairs of files of at most MaxLen bytes; the run-length encoders are *)
(* tried on the same files.                                                *)
EXTENDS FileMultiplier, RunLength

CONSTANT MaxLen

MCFiles == BoundedSeq(Byte, MaxLen)

(* Either encoder loses nothing of a file that has bytes, lets no amount   *)
(* overflow, and makes runs as long as they can be.                        *)
RunsEncodeFile ==
  LET f == file["first"] IN
  at = "done" /\ f # <<>> =>
    /\ Encodes(ByteCodes(f), f, MaxBytes)
    /\ Encodes(BitCodes(f), FileBits(f), MaxBits)
===============================================================================
