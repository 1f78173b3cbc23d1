------------------------- MODULE FileMultiplierProofs -------------------------
(***************************************************************************)
(* For files of any length, any size of a block and any bytes: the loop    *)
(* of multiplyFiles_8 writes the product in closed form, and the product   *)
(* of that with the first file is the second, where the text mode lets it  *)
(* be.  ProductProofs has what they rest on.  And the run-length encoders  *)
(* lose nothing of any such file.                                          *)
(***************************************************************************)
EXTENDS MCFileMultiplier, ProductProofs, FiniteSetTheorems

(* The product of the blocks that were read, and then with the ending.     *)
LoopInv ==
  LET a == Given("first")
      b == Given("second")
      n == read * BlockSize
      m == (read - 1) * BlockSize
  IN
  /\ file \in [Stream -> File] /\ ends \subseteq Byte
  /\ read \in Nat /\ at \in {"loop", "rest", "done"}
  /\ at = "loop" => /\ n <= Len(a) /\ n <= Len(b)
                    /\ out = Blocks(a, b, n)
  /\ at = "rest" => /\ read > 0 /\ read - 1 = FullBlocks(a, b)
                    /\ "first" \in eof <=> Len(a) < n
                    /\ out = Blocks(a, b, m) \o Trim(LastBlock(a, b))
  /\ WritesProduct

------------------------------------------------------------------------------
(* The loop *)

LEMMA TextOf ==
  ASSUME NEW f \in File
  PROVE  /\ Text(f) \in File /\ Len(Text(f)) \in Nat
         /\ \/ Text(f) = f
            \/ \E n \in Nat : /\ n < Len(f) /\ Text(f) = SubSeq(f, 1, n)
                              /\ Len(Text(f)) = n
                              /\ \A i \in 1..n : Text(f)[i] = f[i]
  BY TextUpToIs DEF Text

LEMMA LoopInit == Init => LoopInv
<1> SUFFICES ASSUME Init
             PROVE  LoopInv
  OBVIOUS
<1>1. file \in [Stream -> File] /\ ends \subseteq Byte
  BY TextAssumption DEF Init
<1>2. Given("first") \in File /\ Given("second") \in File
  BY <1>1, TextOf DEF Given, Stream
<1>3. read * BlockSize = 0
  BY BlockAssumption DEF Init
<1>4. out = Blocks(Given("first"), Given("second"), 0)
  BY DEF Init, Blocks
<1>5. 0 <= Len(Given("first")) /\ 0 <= Len(Given("second"))
  BY <1>2 DEF File
<1> QED
  BY <1>1, <1>3, <1>4, <1>5 DEF Init, LoopInv, WritesProduct

LEMMA LoopStep == LoopInv /\ [Next]_vars => LoopInv'
<1> SUFFICES ASSUME LoopInv, [Next]_vars
             PROVE  LoopInv'
  OBVIOUS
<1>1. /\ file \in [Stream -> File] /\ ends \subseteq Byte /\ read \in Nat
      /\ BlockSize \in Nat \ {0}
  BY BlockAssumption DEF LoopInv
<1>2. UNCHANGED <<file, ends>>
  BY DEF Next, MultiplyBlock, CopyRest, vars
<1>3. PICK a \in File, b \in File : a = Given("first") /\ b = Given("second")
  BY <1>1, TextOf DEF Given, Stream
<1>4. a = Given("first")' /\ b = Given("second")'
  BY <1>2, <1>3 DEF Given, Text, TextUpTo, SelectInSeq
<1>5. /\ a \in Seq(Byte) /\ b \in Seq(Byte)
      /\ Len(a) \in Nat /\ Len(b) \in Nat
  BY DEF File
<1>6. CASE MultiplyBlock
  <2>1. PICK n \in Nat : n = read * BlockSize
    BY <1>1
  <2>2. PICK product : product = [i \in 1..BlockSize |->
                                    Xor(Buffer("first", i), Buffer("second", i))]
    OBVIOUS
  <2>3. product = [i \in 1..BlockSize |-> ByteOf(a, b, n + i)]
    BY <1>3, <2>1, <2>2 DEF Buffer, ByteOf
  <2>4. /\ n <= Len(a) /\ n <= Len(b) /\ out = Blocks(a, b, n)
        /\ read' = read + 1 /\ at = "loop"
    BY <1>3, <1>6, <2>1 DEF LoopInv, MultiplyBlock
  <2>5. /\ (read + 1) * BlockSize = n + BlockSize
        /\ (read' - 1) * BlockSize = n /\ read' * BlockSize = n + BlockSize
    <3>1. read' - 1 = read
      BY <1>1, <2>4
    <3>2. (read + 1) * BlockSize = read * BlockSize + BlockSize
      BY <1>1
    <3> QED
      BY <2>1, <2>4, <3>1, <3>2
  <2>6. /\ "first" \in eof' <=> Len(a) < n + BlockSize
        /\ "second" \in eof' <=> Len(b) < n + BlockSize
        /\ eof' = {} <=> "first" \notin eof' /\ "second" \notin eof'
    BY <1>3, <1>6, <2>5 DEF MultiplyBlock, HitsEnd, Stream
  <2>7. \A i \in 1..BlockSize : ByteOf(a, b, n + i) \in Byte
    <3>1. \A i \in 1..BlockSize : n + i \in Nat \ {0}
      BY <1>1
    <3> QED
      BY <3>1, Bytes
  <2>8. product \in Seq(Byte) /\ Len(product) = BlockSize
    BY <2>3, <2>7, <1>1
  <2>9. CASE eof' = {} /\ out' = out \o product /\ at' = "loop"
    <3>1. n + BlockSize <= Len(a) /\ n + BlockSize <= Len(b)
      BY <2>6, <2>9, <1>1, <1>5
    <3>2. PICK m \in Nat : m = n + BlockSize
      BY <1>1
    <3>3. Blocks(a, b, n) \o product = Blocks(a, b, n + BlockSize)
      BY <2>3, <3>1, OneMoreBlock
    <3>8. out' = Blocks(a, b, m)
      BY <2>4, <2>9, <3>2, <3>3
    <3>9. read' \in Nat /\ read' * BlockSize = m /\ m <= Len(a) /\ m <= Len(b)
      BY <1>1, <2>4, <2>5, <3>1, <3>2
    <3> QED
      BY <1>1, <1>2, <1>4, <2>9, <3>8, <3>9 DEF LoopInv, WritesProduct
  <2>10. CASE eof' # {} /\ out' = out \o Trim(product) /\ at' = "rest"
    <3>1. read = FullBlocks(a, b)
      <4>1. Len(a) < (read + 1) * BlockSize \/ Len(b) < (read + 1) * BlockSize
        BY <2>5, <2>6, <2>10
      <4> QED
        BY <4>1, <2>1, <2>4, <1>1, FullBlocksIs
    <3>2. product = LastBlock(a, b)
      BY <2>1, <2>3, <3>1 DEF LastBlock, ByteOf
    <3>3. /\ read' \in Nat /\ read' > 0 /\ read' - 1 = FullBlocks(a, b)
      BY <1>1, <2>4, <3>1
    <3>4. out' = Blocks(a, b, (read' - 1) * BlockSize) \o Trim(LastBlock(a, b))
      BY <2>4, <2>5, <2>10, <3>2
    <3>5. "first" \in eof' <=> Len(a) < read' * BlockSize
      BY <2>5, <2>6
    <3> QED
      BY <1>1, <1>2, <1>4, <2>10, <3>3, <3>4, <3>5 DEF LoopInv, WritesProduct
  <2> QED
    BY <1>6, <2>2, <2>4, <2>9, <2>10 DEF MultiplyBlock
<1>7. CASE CopyRest
  <2>1. /\ read > 0 /\ read - 1 = FullBlocks(a, b)
        /\ "first" \in eof <=> Len(a) < read * BlockSize
        /\ out = Blocks(a, b, (read - 1) * BlockSize) \o Trim(LastBlock(a, b))
    BY <1>3, <1>7 DEF LoopInv, CopyRest
  <2>2. (FullBlocks(a, b) + 1) * BlockSize = read * BlockSize
    <3>1. FullBlocks(a, b) + 1 = read
      BY <2>1, <1>1
    <3> QED
      BY <3>1
  <2>3. Rest(a, b) = IF "first" \in eof THEN RestFrom(b, read * BlockSize)
                     ELSE RestFrom(a, read * BlockSize)
    BY <2>1, <2>2 DEF Rest
  <2>4. out' = out \o Rest(a, b)
    BY <1>3, <1>7, <2>3 DEF CopyRest
  <2>5. out' = Multiply(a, b)
    BY <2>1, <2>4 DEF Multiply, Blocks
  <2>6. at' = "done" /\ read' = read
    BY <1>7 DEF CopyRest
  <2> QED
    BY <1>1, <1>2, <1>4, <2>5, <2>6 DEF LoopInv, WritesProduct
<1>8. CASE UNCHANGED vars
  BY <1>3, <1>4, <1>8 DEF vars, LoopInv, WritesProduct
<1> QED
  BY <1>6, <1>7, <1>8 DEF Next

(* Whatever the lengths are, the loop, its logical ending and the copied   *)
(* tail write the product that the rest of the program counts on.          *)
THEOREM LoopWritesProduct == Spec => []WritesProduct
<1>1. LoopInv => WritesProduct
  BY DEF LoopInv
<1> QED
  BY <1>1, LoopInit, LoopStep, PTL DEF Spec

------------------------------------------------------------------------------
(* Undoing *)

LEMMA TwoTexts ==
  ASSUME LoopInv, TextDone
  PROVE  /\ file["first"] \in File /\ file["second"] \in File
         /\ NulFree(file["first"]) /\ NulFree(file["second"])
         /\ out = Multiply(file["first"], file["second"])
  BY DEF LoopInv, TextDone, WritesProduct, Stream

(* Multiplying curr with the diff brings prev back, with NULs up to the    *)
(* last whole block of curr behind it, and no other change.                *)
THEOREM UndoingPads == Spec => []UndoPads
<1>1. LoopInv => UndoPads
  <2>1. SUFFICES ASSUME LoopInv, TextDone, Text(out) = out
                 PROVE  Undone = Padded(file["second"],
                          (Len(file["first"]) \div BlockSize) * BlockSize)
    BY DEF UndoPads
  <2> QED
    BY <2>1, TwoTexts, PadsAgain DEF Undone
<1> QED
  BY <1>1, LoopInit, LoopStep, PTL DEF Spec

(* A byte of the diff that ends a text: from there on curr comes back and  *)
(* not prev.                                                               *)
THEOREM UndoingStops == Spec => []UndoStops
<1>1. LoopInv => UndoStops
  <2>1. SUFFICES ASSUME LoopInv, TextDone, Text(out) # out
                 PROVE  LET n == Len(Text(out)) IN
                        Undone = [i \in 1..n |-> At(file["second"], i)]
                          \o SubSeq(file["first"], n + 1, Len(file["first"]))
    BY DEF UndoStops
  <2>2. PICK a \in File, b \in File : a = file["first"] /\ b = file["second"]
    BY <2>1, TwoTexts
  <2>3. NulFree(a) /\ NulFree(b) /\ out = Multiply(a, b)
    BY <2>1, <2>2, TwoTexts
  <2>4. out \in File
    <3>1. PICK o \in File : o = Multiply(a, b)
      BY <2>3, ProductOfTexts
    <3> QED
      BY <3>1, <2>3
  <2>5. PICK d \in File, n \in Nat :
          /\ d = Text(out) /\ n < Len(out) /\ Len(d) = n
          /\ \A i \in 1..n : d[i] = out[i]
    BY <2>1, <2>4, TextOf
  <2> QED
    <3>1. Multiply(a, d) = [i \in 1..n |-> At(b, i)] \o SubSeq(a, n + 1, Len(a))
      <4>1. n < Len(Multiply(a, b)) /\ \A i \in 1..n : d[i] = Multiply(a, b)[i]
        BY <2>3, <2>5
      <4> QED
        BY <4>1, <2>3, <2>5, StopsThere, SMTT(30)
    <3> QED
      BY <3>1, <2>2, <2>5 DEF Undone
<1> QED
  BY <1>1, LoopInit, LoopStep, PTL DEF Spec
------------------------------------------------------------------------------
(* Flattened sequences *)

(* w has what the sequences of ss make, one after the other.               *)
Flattens(w, ss) ==
  /\ w[0] = <<>>
  /\ \A i \in 1..Len(ss) : w[i] = w[i - 1] \o ss[i]

(* Every sequence of sequences has such a w.                              *)
LEMMA FlattenExists ==
  ASSUME NEW V, NEW ss \in Seq(Seq(V))
  PROVE  \E w \in [0..Len(ss) -> Seq(V)] : Flattens(w, ss)
<1> DEFINE Up(n) == \E w \in [0..n -> Seq(V)] :
                      /\ w[0] = <<>>
                      /\ \A i \in 1..n : w[i] = w[i - 1] \o ss[i]
           T == {n \in Nat : n <= Len(ss) /\ ~Up(n)}
<1>1. Len(ss) \in Nat /\ \A i \in 1..Len(ss) : ss[i] \in Seq(V)
  BY LenProperties, ElementOfSeq
<1>2. T = {}
  <2> SUFFICES ASSUME T # {} PROVE FALSE
    OBVIOUS
  <2>1. PICK n \in T : \A m \in T : n <= m
    <3>1. T \in SUBSET Nat
      OBVIOUS
    <3> HIDE DEF T
    <3> QED
      BY <3>1, LeastOne
  <2>2. /\ n \in Nat /\ n <= Len(ss) /\ ~Up(n)
        /\ \A m \in Nat : m <= Len(ss) /\ m < n => Up(m)
    <3> HIDE DEF Up
    <3> QED
      BY <1>1, <2>1
  <2>3. Up(0)
    <3>1. PICK w : w = [i \in 0..0 |-> <<>>]
      OBVIOUS
    <3>2. <<>> \in Seq(V)
      BY EmptySeq
    <3>3. w \in [0..0 -> Seq(V)] /\ w[0] = <<>> /\ 1..0 = {}
      BY <3>1, <3>2
    <3> QED
      BY <3>3
  <2>4. n > 0 /\ n - 1 \in Nat
    <3> HIDE DEF Up
    <3> QED
      BY <2>2, <2>3
  <2>5. Up(n - 1)
    <3> HIDE DEF Up
    <3> QED
      BY <1>1, <2>2, <2>4
  <2>6. PICK w \in [0..(n - 1) -> Seq(V)] :
          w[0] = <<>> /\ \A i \in 1..(n - 1) : w[i] = w[i - 1] \o ss[i]
    BY <2>5
  <2>7. PICK u : u = [i \in 0..n |-> IF i = n THEN w[n - 1] \o ss[n] ELSE w[i]]
    OBVIOUS
  <2>8. w[n - 1] \o ss[n] \in Seq(V)
    <3>1. w[n - 1] \in Seq(V) /\ ss[n] \in Seq(V)
      BY <1>1, <2>2, <2>4
    <3> QED
      BY <3>1, ConcatProperties
  <2>9. u \in [0..n -> Seq(V)] /\ u[0] = <<>>
    <3>1. \A i \in 0..n : i # n => i \in 0..(n - 1)
      BY <2>2, <2>4
    <3>2. u[0] = w[0]
      <4>1. 0 \in 0..n /\ 0 # n
        BY <2>4
      <4> QED
        BY <2>7, <4>1
    <3>3. \A i \in 0..n : (IF i = n THEN w[n - 1] \o ss[n] ELSE w[i]) \in Seq(V)
      BY <2>6, <2>8, <3>1
    <3> QED
      BY <2>6, <2>7, <3>2, <3>3
  <2>10. ASSUME NEW i \in 1..n PROVE u[i] = u[i - 1] \o ss[i]
    <3>1. CASE i = n
      <4>1. n \in 0..n /\ n - 1 \in 0..n /\ n - 1 # n
        BY <2>4
      <4>2. u[n] = w[n - 1] \o ss[n] /\ u[n - 1] = w[n - 1]
        BY <2>7, <4>1
      <4> QED
        BY <3>1, <4>2
    <3>2. CASE i # n
      <4>1. i \in 1..(n - 1) /\ i \in 0..n /\ i - 1 \in 0..n /\ i - 1 # n
        BY <2>4, <3>2
      <4>2. u[i] = w[i] /\ u[i - 1] = w[i - 1]
        BY <2>7, <3>2, <4>1
      <4> QED
        BY <2>6, <4>1, <4>2
    <3> QED
      BY <3>1, <3>2
  <2> QED
    BY <2>2, <2>9, <2>10
<1>3. Up(Len(ss))
  <2> HIDE DEF Up
  <2> QED
    BY <1>1, <1>2
<1> QED
  BY <1>3 DEF Flattens

(* Its last value is what FlattenSeq makes.                                *)
LEMMA FlattenIs ==
  ASSUME NEW V, NEW ss \in Seq(Seq(V)), NEW w \in [0..Len(ss) -> Seq(V)],
         Flattens(w, ss)
  PROVE  FlattenSeq(ss) = w[Len(ss)]
<1> DEFINE Step(u) == [i \in 1..Len(ss) |->
                         IF i = 1 THEN ss[i] ELSE u[i - 1] \o ss[i]]
           flat == CHOOSE u : u = Step(u)
           Bad == {i \in 1..Len(ss) : flat[i] # w[i]}
<1>1. /\ Len(ss) \in Nat /\ \A i \in 1..Len(ss) : ss[i] \in Seq(V)
      /\ Len(ss) = 0 => ss = <<>>
  BY LenProperties, ElementOfSeq, EmptySeq
<1>2. FlattenSeq(ss) = IF Len(ss) = 0 THEN ss ELSE flat[Len(ss)]
  BY DEF FlattenSeq
<1>3. CASE Len(ss) = 0
  BY <1>1, <1>2, <1>3 DEF Flattens
<1>4. CASE Len(ss) # 0
  <2>1. PICK l \in Nat \ {0} : l = Len(ss)
    BY <1>1, <1>4
  <2>2. /\ w[1] = ss[1]
        /\ \A i \in 1..l : w[i] = w[i - 1] \o ss[i]
    <3>1. 1 \in 1..l /\ 1 - 1 = 0
      BY <2>1
    <3>2. w[1] = w[0] \o ss[1] /\ w[0] = <<>> /\ ss[1] \in Seq(V)
      BY <1>1, <2>1, <3>1 DEF Flattens
    <3>3. <<>> \o ss[1] = ss[1]
      BY <3>2, ConcatEmptySeq
    <3> QED
      BY <2>1, <3>2, <3>3 DEF Flattens
  <2>3. PICK u : u = [i \in 1..l |-> w[i]]
    OBVIOUS
  <2>4. u = Step(u)
    <3>1. \A i \in 1..l : u[i] = IF i = 1 THEN ss[i] ELSE u[i - 1] \o ss[i]
      <4> SUFFICES ASSUME NEW i \in 1..l
                   PROVE  u[i] = IF i = 1 THEN ss[i] ELSE u[i - 1] \o ss[i]
        OBVIOUS
      <4>1. i # 1 => i - 1 \in 1..l
        BY <2>1
      <4> QED
        BY <2>2, <2>3, <4>1
    <3> QED
      BY <2>1, <2>3, <3>1
  <2>5. flat = Step(flat)
    <3> HIDE DEF Step
    <3> QED
      BY <2>4
  <2>6. /\ flat[1] = ss[1]
        /\ \A i \in 2..l : flat[i] = flat[i - 1] \o ss[i]
    <3> HIDE DEF flat
    <3>1. \A i \in 1..l : flat[i] = IF i = 1 THEN ss[i] ELSE flat[i - 1] \o ss[i]
      BY <2>1, <2>5
    <3>2. 1 \in 1..l /\ \A i \in 2..l : i \in 1..l /\ i # 1
      BY <2>1
    <3>3. flat[1] = ss[1]
      BY <3>1, <3>2
    <3> QED
      BY <3>1, <3>2, <3>3, Zenon
  <2>7. Bad = {}
    <3> SUFFICES ASSUME Bad # {} PROVE FALSE
      OBVIOUS
    <3> HIDE DEF flat
    <3>1. PICK n \in Bad : \A m \in Bad : n <= m
      <4>1. Bad \in SUBSET Nat
        OBVIOUS
      <4> HIDE DEF Bad
      <4> QED
        BY <4>1, LeastOne
    <3>2. n \in 1..l /\ flat[n] # w[n]
      BY <2>1
    <3>3. n # 1
      BY <2>2, <2>6, <3>2
    <3>4. n \in 2..l /\ n - 1 \in 1..l /\ n - 1 < n
      BY <3>2, <3>3
    <3>5. flat[n - 1] = w[n - 1]
      <4>1. n - 1 \in 1..Len(ss) /\ ~(n <= n - 1)
        BY <2>1, <3>2, <3>4
      <4>2. n - 1 \notin Bad
        <5> HIDE DEF Bad
        <5> QED
          BY <3>1, <4>1
      <4> QED
        BY <4>1, <4>2
    <3> QED
      BY <2>2, <2>6, <3>2, <3>4, <3>5
  <2>8. flat[l] = w[l]
    <3> HIDE DEF flat
    <3>1. l \in 1..Len(ss)
      BY <2>1
    <3> QED
      BY <2>1, <2>7, <3>1
  <2> HIDE DEF flat
  <2> QED
    BY <1>2, <1>4, <2>1, <2>8
<1> QED
  BY <1>3, <1>4

(* One more sequence goes behind what the others make.                     *)
LEMMA FlattenAppend ==
  ASSUME NEW V, NEW ss \in Seq(Seq(V)), NEW t \in Seq(V)
  PROVE  /\ FlattenSeq(ss) \in Seq(V)
         /\ FlattenSeq(Append(ss, t)) = FlattenSeq(ss) \o t
<1> DEFINE tt == Append(ss, t)
<1>1. /\ tt \in Seq(Seq(V)) /\ Len(tt) = Len(ss) + 1 /\ Len(ss) \in Nat
      /\ tt[Len(ss) + 1] = t /\ \A i \in 1..Len(ss) : tt[i] = ss[i]
  BY AppendProperties, LenProperties
<1> HIDE DEF tt
<1>2. PICK w \in [0..Len(tt) -> Seq(V)] : Flattens(w, tt)
  BY <1>1, FlattenExists
<1>3. FlattenSeq(tt) = w[Len(tt)]
  BY <1>1, <1>2, FlattenIs
<1>4. PICK u : u = [i \in 0..Len(ss) |-> w[i]]
  OBVIOUS
<1>5. u \in [0..Len(ss) -> Seq(V)]
  BY <1>1, <1>4
<1>6. Flattens(u, ss)
  <2>1. u[0] = <<>>
    BY <1>1, <1>2, <1>4 DEF Flattens
  <2>2. ASSUME NEW i \in 1..Len(ss) PROVE u[i] = u[i - 1] \o ss[i]
    <3>1. i \in 0..Len(ss) /\ i - 1 \in 0..Len(ss) /\ i \in 1..Len(tt)
      BY <1>1
    <3>2. w[i] = w[i - 1] \o tt[i] /\ tt[i] = ss[i]
      BY <1>1, <1>2, <3>1 DEF Flattens
    <3>3. u[i] = w[i] /\ u[i - 1] = w[i - 1]
      BY <1>4, <3>1
    <3> QED
      BY <3>2, <3>3
  <2> QED
    BY <2>1, <2>2 DEF Flattens
<1>7. FlattenSeq(ss) = u[Len(ss)]
  BY <1>5, <1>6, FlattenIs
<1>8. FlattenSeq(tt) = w[Len(ss)] \o t
  <2>1. Len(tt) \in 1..Len(tt) /\ Len(tt) - 1 = Len(ss)
    BY <1>1
  <2>2. w[Len(tt)] = w[Len(tt) - 1] \o tt[Len(tt)]
    BY <1>2, <2>1 DEF Flattens
  <2> QED
    BY <1>1, <1>3, <2>1, <2>2
<1>9. u[Len(ss)] = w[Len(ss)] /\ u[Len(ss)] \in Seq(V)
  BY <1>1, <1>4, <1>5
<1> QED
  BY <1>7, <1>8, <1>9 DEF tt

LEMMA FlattenNothing == FlattenSeq(<<>>) = <<>>
<1>1. Len(<<>>) = 0
  BY EmptySeq
<1> QED
  BY <1>1 DEF FlattenSeq

------------------------------------------------------------------------------
(* Codes *)

(* What one code stands for.                                               *)
Repeated(c) == [i \in 1..c[2] |-> c[1]]

LEMMA RepeatedType == \A V : \A c \in V \X Nat : Repeated(c) \in Seq(V)
BY DEF Repeated

(* And one code more, behind what the others stand for.                    *)
LEMMA DecodedAppend ==
  ASSUME NEW V, NEW cs \in Seq(V \X Nat), NEW c \in V \X Nat
  PROVE  /\ Decoded(cs) \in Seq(V)
         /\ Decoded(Append(cs, c)) = Decoded(cs) \o Repeated(c)
<1> DEFINE t == Append(cs, c)
           R(q) == [k \in DOMAIN q |-> Repeated(q[k])]
<1>1. \A d \in V \X Nat : Repeated(d) \in Seq(V)
  BY RepeatedType
<1>2. /\ t \in Seq(V \X Nat) /\ Len(t) = Len(cs) + 1 /\ Len(cs) \in Nat
      /\ DOMAIN cs = 1..Len(cs) /\ DOMAIN t = 1..Len(t)
      /\ t[Len(cs) + 1] = c /\ \A i \in 1..Len(cs) : t[i] = cs[i]
      /\ \A i \in 1..Len(cs) : cs[i] \in V \X Nat
  BY AppendProperties, LenProperties, ElementOfSeq
<1> HIDE DEF t
<1>3. R(cs) \in Seq(Seq(V)) /\ Len(R(cs)) = Len(cs)
  <2>1. PICK n \in Nat : n = Len(cs)
    BY <1>2
  <2>2. R(cs) = [k \in 1..n |-> Repeated(cs[k])]
    BY <1>2, <2>1
  <2>3. \A k \in 1..n : Repeated(cs[k]) \in Seq(V)
    BY <1>1, <1>2, <2>1
  <2> HIDE DEF R
  <2> QED
    BY <2>1, <2>2, <2>3
<1>4. R(t) = Append(R(cs), Repeated(c))
  <2>1. PICK n \in Nat : n = Len(cs)
    BY <1>2
  <2>2. R(t) = [k \in 1..(n + 1) |-> Repeated(t[k])]
    BY <1>2, <2>1
  <2>3. PICK a : a = Append(R(cs), Repeated(c))
    OBVIOUS
  <2>4. Repeated(c) \in Seq(V)
    BY <1>1
  <2>5. /\ a \in Seq(Seq(V)) /\ Len(a) = n + 1 /\ a[n + 1] = Repeated(c)
        /\ \A k \in 1..n : a[k] = R(cs)[k]
    <3> HIDE DEF R
    <3> QED
      BY <1>3, <2>1, <2>3, <2>4, AppendProperties
  <2>6. \A k \in 1..n : R(cs)[k] = Repeated(t[k])
    BY <1>2, <2>1
  <2>7. \A k \in 1..(n + 1) : k \in 1..n \/ k = n + 1
    OBVIOUS
  <2> HIDE DEF R
  <2>8. \A k \in 1..(n + 1) : a[k] = Repeated(t[k])
    BY <1>2, <2>1, <2>5, <2>6, <2>7
  <2>9. a = [k \in 1..(n + 1) |-> a[k]]
    BY <2>5
  <2> QED
    BY <2>2, <2>3, <2>8, <2>9
<1>5. Decoded(cs) = FlattenSeq(R(cs)) /\ Decoded(t) = FlattenSeq(R(t))
  BY DEF Decoded, Repeated
<1>6. Repeated(c) \in Seq(V)
  BY <1>1
<1> HIDE DEF R
<1> QED
  BY <1>3, <1>4, <1>5, <1>6, FlattenAppend DEF t

LEMMA DecodedOneMore ==
  \A V : \A cs \in Seq(V \X Nat), c \in V \X Nat :
    /\ Decoded(cs) \in Seq(V)
    /\ Decoded(Append(cs, c)) = Decoded(cs) \o Repeated(c)
BY DecodedAppend

(* The states of an encoder of values from V, and what a flush makes of    *)
(* one.                                                                    *)
Run(V) == [out : Seq(V \X Nat), code : V \X Nat]
CodesOf(r) == Append(r.out, r.code)

LEMMA CodesAre ==
  ASSUME NEW V, NEW r \in Run(V)
  PROVE  /\ r.out \in Seq(V \X Nat) /\ r.code \in V \X Nat
         /\ r.code[1] \in V /\ r.code[2] \in Nat
         /\ CodesOf(r) \in Seq(V \X Nat) /\ DOMAIN CodesOf(r) = 1..(Len(r.out) + 1)
         /\ CodesOf(r)[Len(r.out) + 1] = r.code /\ Len(r.out) \in Nat
         /\ \A i \in 1..Len(r.out) : CodesOf(r)[i] = r.out[i]
<1>1. /\ r.out \in Seq(V \X Nat) /\ r.code \in V \X Nat
      /\ r.code[1] \in V /\ r.code[2] \in Nat
  BY DEF Run
<1>2. /\ Append(r.out, r.code) \in Seq(V \X Nat)
      /\ Len(Append(r.out, r.code)) = Len(r.out) + 1 /\ Len(r.out) \in Nat
      /\ Append(r.out, r.code)[Len(r.out) + 1] = r.code
      /\ \A i \in 1..Len(r.out) : Append(r.out, r.code)[i] = r.out[i]
  BY <1>1, AppendProperties, LenProperties
<1>3. DOMAIN Append(r.out, r.code) = 1..(Len(r.out) + 1)
  BY <1>2, LenProperties
<1> QED
  BY <1>1, <1>2, <1>3 DEF CodesOf

(* operator<< in a run that may grow. *)
LEMMA GrownEncodes ==
  ASSUME NEW V, NEW r \in Run(V), NEW p \in Seq(V), NEW max \in Nat \ {0},
         Encodes(CodesOf(r), p, max), NEW v \in V,
         v = r.code[1], r.code[2] < max
  PROVE  LET g == [r EXCEPT !.code = Grown(@, max)] IN
         g \in Run(V) /\ Encodes(CodesOf(g), Append(p, v), max)
<1> DEFINE n == Len(r.out)
           c == <<r.code[1], r.code[2] + 1>>
           g == [r EXCEPT !.code = Grown(@, max)]
<1>1. /\ r.out \in Seq(V \X Nat) /\ r.code \in V \X Nat /\ n \in Nat
      /\ r.code[1] \in V /\ r.code[2] \in Nat
      /\ DOMAIN CodesOf(r) = 1..(n + 1) /\ CodesOf(r)[n + 1] = r.code
      /\ \A i \in 1..n : CodesOf(r)[i] = r.out[i]
  BY CodesAre
<1>2. r = [out |-> r.out, code |-> r.code]
  BY DEF Run
<1>3. Grown(r.code, max) = c
  <2>1. (r.code[2] + 1) % (max + 1) = r.code[2] + 1
    <3>1. \A a \in Nat, m \in Nat : a < m => (a + 1) % (m + 1) = a + 1
      OBVIOUS
    <3> QED
      BY <1>1, <3>1
  <2>2. r.code = <<r.code[1], r.code[2]>>
    BY <1>1
  <2> QED
    BY <2>1, <2>2 DEF Grown
<1>4. g.out = r.out /\ g.code = c /\ g \in Run(V)
  <2>1. g = [out |-> r.out, code |-> c]
    BY <1>2, <1>3
  <2>2. c \in V \X Nat
    BY <1>1
  <2> QED
    BY <1>1, <2>1, <2>2 DEF Run
<1>5. /\ DOMAIN CodesOf(g) = 1..(n + 1) /\ CodesOf(g)[n + 1] = c
      /\ \A i \in 1..n : CodesOf(g)[i] = r.out[i]
  <2> HIDE DEF g, c
  <2>1. /\ DOMAIN CodesOf(g) = 1..(Len(g.out) + 1)
        /\ CodesOf(g)[Len(g.out) + 1] = g.code
        /\ \A i \in 1..Len(g.out) : CodesOf(g)[i] = g.out[i]
    BY <1>4, CodesAre
  <2> QED
    BY <1>4, <2>1
<1> HIDE DEF g
<1>6. Repeated(c) = Append(Repeated(r.code), v)
  <2>1. PICK a \in Nat : a = r.code[2]
    BY <1>1
  <2>2. PICK q : q = [i \in 1..a |-> v]
    OBVIOUS
  <2>3. q \in Seq(V) /\ Len(q) = a /\ \A i \in 1..a : q[i] = v
    BY <2>2
  <2>4. PICK b : b = Append(q, v)
    OBVIOUS
  <2>5. /\ b \in Seq(V) /\ Len(b) = a + 1 /\ b[a + 1] = v
        /\ \A i \in 1..a : b[i] = v
    BY <2>3, <2>4, AppendProperties
  <2>6. \A i \in 1..(a + 1) : b[i] = v
    BY <2>5
  <2>7. b = [i \in 1..(a + 1) |-> v]
    BY <2>5, <2>6
  <2>8. Repeated(r.code) = q /\ Repeated(c) = b
    BY <2>1, <2>2, <2>7 DEF Repeated
  <2> QED
    BY <2>4, <2>8
<1>7. Decoded(CodesOf(g)) = Append(p, v)
  <2>1. /\ Decoded(r.out) \in Seq(V)
        /\ Decoded(CodesOf(r)) = Decoded(r.out) \o Repeated(r.code)
    <3>1. /\ Decoded(r.out) \in Seq(V)
          /\ Decoded(Append(r.out, r.code)) = Decoded(r.out) \o Repeated(r.code)
      BY <1>1, DecodedOneMore, SMTT(30)
    <3> QED
      BY <3>1 DEF CodesOf
  <2>2. Decoded(CodesOf(g)) = Decoded(r.out) \o Repeated(c)
    <3>1. PICK d \in V \X Nat : d = c
      <4>1. <<r.code[1], r.code[2] + 1>> \in V \X Nat
        BY <1>1
      <4> QED
        BY <4>1
    <3>2. \A cs \in Seq(V \X Nat) :
            Decoded(Append(cs, d)) = Decoded(cs) \o Repeated(d)
      BY DecodedOneMore, ZenonT(60)
    <3>3. Decoded(Append(r.out, d)) = Decoded(r.out) \o Repeated(d)
      BY <1>1, <3>2
    <3> QED
      BY <1>4, <3>1, <3>3 DEF CodesOf
  <2>3. Repeated(r.code) \in Seq(V) /\ <<v>> \in Seq(V)
    BY <1>1, RepeatedType
  <2>4. Append(Repeated(r.code), v) = Repeated(r.code) \o <<v>>
    BY <2>3, AppendIsConcat
  <2>5. Append(p, v) = p \o <<v>> /\ p = Decoded(r.out) \o Repeated(r.code)
    BY <2>1, AppendIsConcat DEF Encodes
  <2> HIDE DEF c
  <2> QED
    BY <1>6, <2>1, <2>2, <2>3, <2>4, <2>5, ConcatAssociative
<1>8. ASSUME NEW k \in 1..(n + 1)
      PROVE  /\ CodesOf(g)[k][2] \in 1..max
             /\ k > 1 /\ CodesOf(g)[k - 1][1] = CodesOf(g)[k][1]
                  => CodesOf(g)[k - 1][2] = max
  <2>1. /\ CodesOf(r)[k][2] \in 1..max
        /\ k > 1 /\ CodesOf(r)[k - 1][1] = CodesOf(r)[k][1]
             => CodesOf(r)[k - 1][2] = max
    BY <1>1 DEF Encodes
  <2>2. k \in 1..n \/ k = n + 1
    BY <1>1
  <2>3. CodesOf(g)[k][2] \in 1..max /\ CodesOf(g)[k][1] = CodesOf(r)[k][1]
    <3>1. CASE k \in 1..n
      BY <1>1, <1>5, <2>1, <3>1
    <3>2. CASE k = n + 1
      <4>1. CodesOf(g)[k] = <<r.code[1], r.code[2] + 1>> /\ CodesOf(r)[k] = r.code
        BY <1>1, <1>5, <3>2
      <4> QED
        BY <1>1, <4>1
    <3> QED
      BY <2>2, <3>1, <3>2
  <2>4. k > 1 => CodesOf(g)[k - 1] = CodesOf(r)[k - 1]
    <3>1. k > 1 => k - 1 \in 1..n
      BY <1>1
    <3> QED
      BY <1>1, <1>5, <3>1
  <2> QED
    BY <2>1, <2>3, <2>4
<1> QED
  BY <1>4, <1>5, <1>7, <1>8 DEF Encodes, g

(* And one that outputs the run, and begins a new one.                     *)
LEMMA FreshEncodes ==
  ASSUME NEW V, NEW r \in Run(V), NEW p \in Seq(V), NEW max \in Nat \ {0},
         Encodes(CodesOf(r), p, max), NEW v \in V,
         ~(v = r.code[1] /\ r.code[2] < max)
  PROVE  LET g == [out |-> CodesOf(r), code |-> Fresh(v)] IN
         g \in Run(V) /\ Encodes(CodesOf(g), Append(p, v), max)
<1> DEFINE n == Len(r.out)
           g == [out |-> CodesOf(r), code |-> Fresh(v)]
<1>1. /\ CodesOf(r) \in Seq(V \X Nat) /\ n \in Nat
      /\ DOMAIN CodesOf(r) = 1..(n + 1) /\ CodesOf(r)[n + 1] = r.code
      /\ r.code[2] \in Nat /\ Len(CodesOf(r)) = n + 1
  <2>1. /\ CodesOf(r) \in Seq(V \X Nat) /\ n \in Nat
        /\ DOMAIN CodesOf(r) = 1..(n + 1) /\ CodesOf(r)[n + 1] = r.code
        /\ r.code[2] \in Nat
    BY CodesAre
  <2>2. CodesOf(r) \in Seq(V \X Nat) => DOMAIN CodesOf(r) = 1..Len(CodesOf(r))
    BY LenProperties
  <2>3. Len(CodesOf(r)) = n + 1
    BY <2>1, AppendProperties, CodesAre DEF CodesOf
  <2> QED
    BY <2>1, <2>3
<1>2. Fresh(v) = <<v, 1>> /\ Fresh(v) \in V \X Nat
  BY DEF Fresh
<1>3. g \in Run(V) /\ g.out = CodesOf(r) /\ g.code = Fresh(v)
  BY <1>1, <1>2 DEF Run
<1>4. /\ DOMAIN CodesOf(g) = 1..(n + 2) /\ CodesOf(g)[n + 2] = Fresh(v)
      /\ \A i \in 1..(n + 1) : CodesOf(g)[i] = CodesOf(r)[i]
  <2> HIDE DEF g
  <2>1. /\ DOMAIN CodesOf(g) = 1..(Len(g.out) + 1)
        /\ CodesOf(g)[Len(g.out) + 1] = g.code
        /\ \A i \in 1..Len(g.out) : CodesOf(g)[i] = g.out[i]
    BY <1>3, CodesAre
  <2>2. Len(g.out) + 1 = n + 2 /\ Len(g.out) = n + 1
    BY <1>1, <1>3
  <2> QED
    BY <1>3, <2>1, <2>2
<1> HIDE DEF g
<1>5. Decoded(CodesOf(g)) = Append(p, v)
  <2>1. /\ Decoded(CodesOf(r)) = p
        /\ Decoded(CodesOf(g)) = Decoded(CodesOf(r)) \o Repeated(Fresh(v))
    <3>1. /\ Decoded(CodesOf(r)) \in Seq(V)
          /\ Decoded(Append(CodesOf(r), Fresh(v)))
               = Decoded(CodesOf(r)) \o Repeated(Fresh(v))
      BY <1>1, <1>2, DecodedOneMore, ZenonT(60)
    <3>2. CodesOf(g) = Append(CodesOf(r), Fresh(v))
      BY <1>3 DEF CodesOf
    <3> QED
      BY <3>1, <3>2 DEF Encodes
  <2>2. Repeated(Fresh(v)) = <<v>>
    BY <1>2 DEF Repeated
  <2> QED
    BY <2>1, <2>2, AppendIsConcat
<1>6. ASSUME NEW k \in 1..(n + 2)
      PROVE  /\ CodesOf(g)[k][2] \in 1..max
             /\ k > 1 /\ CodesOf(g)[k - 1][1] = CodesOf(g)[k][1]
                  => CodesOf(g)[k - 1][2] = max
  <2>1. CASE k \in 1..(n + 1)
    <3>1. /\ CodesOf(r)[k][2] \in 1..max
          /\ k > 1 /\ CodesOf(r)[k - 1][1] = CodesOf(r)[k][1]
               => CodesOf(r)[k - 1][2] = max
      BY <1>1, <2>1 DEF Encodes
    <3>2. k > 1 => k - 1 \in 1..(n + 1)
      BY <1>1, <2>1
    <3>3. /\ CodesOf(g)[k] = CodesOf(r)[k]
          /\ k > 1 => CodesOf(g)[k - 1] = CodesOf(r)[k - 1]
      BY <1>4, <2>1, <3>2
    <3> QED
      BY <3>1, <3>3
  <2>2. CASE k = n + 2
    <3>1. n + 1 \in 1..(n + 1) /\ k - 1 = n + 1
      BY <1>1, <2>2
    <3>2. CodesOf(g)[k - 1] = r.code /\ CodesOf(g)[k] = <<v, 1>>
      BY <1>1, <1>2, <1>4, <2>2, <3>1
    <3>3. r.code[2] \in 1..max
      BY <1>1, <3>1 DEF Encodes
    <3> QED
      BY <3>2, <3>3
  <2>3. k \in 1..(n + 1) \/ k = n + 2
    BY <1>1
  <2> QED
    BY <2>1, <2>2, <2>3
<1> QED
  BY <1>3, <1>4, <1>5, <1>6 DEF Encodes, g

(* operator<< keeps what has been output, and the run behind it, a code of *)
(* the values so far.                                                      *)
LEMMA ExtendEncodes ==
  ASSUME NEW V, NEW r \in Run(V), NEW p \in Seq(V), NEW max \in Nat \ {0},
         Encodes(CodesOf(r), p, max), NEW v \in V
  PROVE  /\ Extend(r, v, max) \in Run(V)
         /\ Encodes(CodesOf(Extend(r, v, max)), Append(p, v), max)
<1>1. CASE v = r.code[1] /\ r.code[2] < max
  <2>1. Extend(r, v, max) = [r EXCEPT !.code = Grown(@, max)]
    BY <1>1 DEF Extend, MayGrow
  <2> QED
    BY <1>1, <2>1, GrownEncodes
<1>2. CASE ~(v = r.code[1] /\ r.code[2] < max)
  <2>1. Extend(r, v, max) = [out |-> CodesOf(r), code |-> Fresh(v)]
    BY <1>2 DEF Extend, MayGrow, CodesOf
  <2> QED
    BY <1>2, <2>1, FreshEncodes
<1> QED
  BY <1>1, <1>2

(* The constructor: one value, once.                                       *)
LEMMA FirstEncodes ==
  ASSUME NEW V, NEW v \in V, NEW max \in Nat \ {0}
  PROVE  LET r == [out |-> <<>>, code |-> Fresh(v)] IN
         r \in Run(V) /\ Encodes(CodesOf(r), <<v>>, max)
<1> DEFINE r == [out |-> <<>>, code |-> Fresh(v)]
<1>1. Fresh(v) = <<v, 1>> /\ Fresh(v) \in V \X Nat
  BY DEF Fresh
<1>2. <<>> \in Seq(V \X Nat) /\ Len(<<>>) = 0
  BY EmptySeq
<1>3. r \in Run(V) /\ CodesOf(r) = <<Fresh(v)>>
  BY <1>1, <1>2 DEF Run, CodesOf
<1>4. Decoded(CodesOf(r)) = <<v>>
  <2>1. Decoded(Append(<<>>, Fresh(v))) = Decoded(<<>>) \o Repeated(Fresh(v))
    <3>1. PICK e \in Seq(V \X Nat) : e = <<>>
      BY <1>2
    <3>2. Decoded(Append(e, Fresh(v))) = Decoded(e) \o Repeated(Fresh(v))
      BY <1>1, DecodedOneMore, ZenonT(60)
    <3> QED
      BY <3>1, <3>2
  <2>2. Decoded(<<>>) = <<>>
    <3>1. [k \in DOMAIN <<>> |-> [i \in 1..<<>>[k][2] |-> <<>>[k][1]]] = <<>>
      BY <1>2
    <3> QED
      BY <3>1, FlattenNothing DEF Decoded
  <2>3. Repeated(Fresh(v)) = <<v>> /\ <<v>> \in Seq(V)
    BY <1>1 DEF Repeated
  <2>4. CodesOf(r) = Append(<<>>, Fresh(v))
    BY DEF CodesOf
  <2> QED
    BY <2>1, <2>2, <2>3, <2>4, ConcatEmptySeq
<1>5. DOMAIN CodesOf(r) = {1} /\ CodesOf(r)[1] = <<v, 1>>
  BY <1>1, <1>3
<1> HIDE DEF r
<1>6. \A k \in DOMAIN CodesOf(r) :
        /\ CodesOf(r)[k][2] \in 1..max
        /\ k > 1 /\ CodesOf(r)[k - 1][1] = CodesOf(r)[k][1]
             => CodesOf(r)[k - 1][2] = max
  BY <1>5
<1> QED
  BY <1>3, <1>4, <1>6 DEF Encodes, r

(* u has the encoder's states as the values of q follow v.                 *)
Follows(u, v, q, max) ==
  /\ u[0] = [out |-> <<>>, code |-> Fresh(v)]
  /\ \A i \in 1..Len(q) : u[i] = Extend(u[i - 1], q[i], max)

(* An encoder has such states, and its last one stands for v and all of q. *)
LEMMA StatesExist ==
  ASSUME NEW V, NEW v \in V, NEW q \in Seq(V), NEW max \in Nat \ {0}
  PROVE  \E u \in [0..Len(q) -> Run(V)] :
           /\ Follows(u, v, q, max)
           /\ Encodes(CodesOf(u[Len(q)]), <<v>> \o q, max)
<1> DEFINE Up(n) == \E u \in [0..n -> Run(V)] :
                      /\ u[0] = [out |-> <<>>, code |-> Fresh(v)]
                      /\ \A i \in 1..n : u[i] = Extend(u[i - 1], q[i], max)
                      /\ Encodes(CodesOf(u[n]), <<v>> \o SubSeq(q, 1, n), max)
           T == {n \in Nat : n <= Len(q) /\ ~Up(n)}
<1>1. Len(q) \in Nat /\ \A i \in 1..Len(q) : q[i] \in V
  BY LenProperties, ElementOfSeq
<1>2. <<v>> \in Seq(V)
  OBVIOUS
<1>3. T = {}
  <2> SUFFICES ASSUME T # {} PROVE FALSE
    OBVIOUS
  <2>1. PICK n \in T : \A m \in T : n <= m
    <3>1. T \in SUBSET Nat
      OBVIOUS
    <3> HIDE DEF T
    <3> QED
      BY <3>1, LeastOne
  <2>2. /\ n \in Nat /\ n <= Len(q) /\ ~Up(n)
        /\ \A m \in Nat : m <= Len(q) /\ m < n => Up(m)
    <3> HIDE DEF Up
    <3> QED
      BY <1>1, <2>1
  <2>3. Up(0)
    <3>1. PICK r : r = [out |-> <<>>, code |-> Fresh(v)]
      OBVIOUS
    <3>2. r \in Run(V) /\ Encodes(CodesOf(r), <<v>>, max)
      BY <3>1, FirstEncodes
    <3>3. SubSeq(q, 1, 0) = <<>> /\ <<v>> \o <<>> = <<v>>
      BY <1>2, SubSeqEmpty, ConcatEmptySeq
    <3>4. PICK u : u = [i \in 0..0 |-> r]
      OBVIOUS
    <3>5. u \in [0..0 -> Run(V)] /\ u[0] = r /\ 1..0 = {}
      BY <3>2, <3>4
    <3> QED
      BY <3>1, <3>2, <3>3, <3>5
  <2>4. n > 0 /\ n - 1 \in Nat
    <3> HIDE DEF Up
    <3> QED
      BY <2>2, <2>3
  <2>5. Up(n - 1)
    <3> HIDE DEF Up
    <3> QED
      BY <1>1, <2>2, <2>4
  <2>6. PICK w \in [0..(n - 1) -> Run(V)] :
          /\ w[0] = [out |-> <<>>, code |-> Fresh(v)]
          /\ \A i \in 1..(n - 1) : w[i] = Extend(w[i - 1], q[i], max)
          /\ Encodes(CodesOf(w[n - 1]), <<v>> \o SubSeq(q, 1, n - 1), max)
    BY <2>5
  <2>7. PICK g : g = Extend(w[n - 1], q[n], max)
    OBVIOUS
  <2>8. PICK u : u = [i \in 0..n |-> IF i = n THEN g ELSE w[i]]
    OBVIOUS
  <2>9. g \in Run(V) /\ Encodes(CodesOf(g), <<v>> \o SubSeq(q, 1, n), max)
    <3>1. q[n] \in V /\ w[n - 1] \in Run(V)
      BY <1>1, <2>2, <2>4, <2>6
    <3>2. /\ SubSeq(q, 1, n - 1) \in Seq(V)
          /\ SubSeq(q, 1, n) = Append(SubSeq(q, 1, n - 1), q[n])
      <4>1. \A i \in 1..(n - 1) : q[i] \in V
        BY <1>1, <2>2, <2>4
      <4>2. SubSeq(q, 1, n - 1) \in Seq(V)
        BY <2>4, <4>1, SubSeqProperties
      <4>3. n \in 1..Len(q)
        BY <1>1, <2>2, <2>4
      <4>4. SubSeq(q, 1, n - 1) \o SubSeq(q, (n - 1) + 1, n) = SubSeq(q, 1, n)
        <5>1. /\ 1 \in 1..(Len(q) + 1) /\ n - 1 \in (1 - 1)..Len(q)
              /\ n \in (n - 1)..Len(q)
          BY <1>1, <2>2, <2>4
        <5> QED
          BY <5>1, ConcatAdjacentSubSeq
      <4>5. SubSeq(q, (n - 1) + 1, n) = <<q[n]>>
        <5>1. PICK t : t = SubSeq(q, n, n)
          OBVIOUS
        <5>2. \A i \in n..n : q[i] \in V
          BY <1>1, <4>3
        <5>3. /\ t \in Seq(V) /\ Len(t) = n - n + 1
              /\ \A i \in 1..(n - n + 1) : t[i] = q[n + i - 1]
          BY <2>2, <5>1, <5>2, SubSeqProperties
        <5>4. n - n + 1 = 1 /\ n + 1 - 1 = n /\ (n - 1) + 1 = n /\ 1 \in 1..1
          BY <2>2
        <5>5. Len(t) = 1 /\ t[1] = q[n]
          BY <5>3, <5>4
        <5>6. t = <<q[n]>>
          BY <5>3, <5>5
        <5> QED
          BY <5>1, <5>4, <5>6
      <4> QED
        BY <3>1, <4>2, <4>4, <4>5, AppendIsConcat
    <3>3. /\ <<v>> \o SubSeq(q, 1, n - 1) \in Seq(V)
          /\ Append(<<v>> \o SubSeq(q, 1, n - 1), q[n]) = <<v>> \o SubSeq(q, 1, n)
      <4>1. PICK a : a = SubSeq(q, 1, n - 1)
        OBVIOUS
      <4>2. a \in Seq(V) /\ <<v>> \o a \in Seq(V) /\ <<q[n]>> \in Seq(V)
        BY <1>2, <3>1, <3>2, <4>1, ConcatProperties
      <4>3. Append(<<v>> \o a, q[n]) = (<<v>> \o a) \o <<q[n]>>
        BY <3>1, <4>2, AppendIsConcat
      <4>4. (<<v>> \o a) \o <<q[n]>> = <<v>> \o (a \o <<q[n]>>)
        BY <1>2, <4>2, ConcatAssociative
      <4>5. Append(a, q[n]) = a \o <<q[n]>>
        BY <3>1, <4>2, AppendIsConcat
      <4> QED
        BY <3>2, <4>1, <4>2, <4>3, <4>4, <4>5
    <3>4. /\ g \in Run(V)
          /\ Encodes(CodesOf(g), Append(<<v>> \o SubSeq(q, 1, n - 1), q[n]), max)
      BY <2>6, <2>7, <3>1, <3>3, ExtendEncodes
    <3> QED
      BY <3>3, <3>4
  <2>10. /\ u \in [0..n -> Run(V)] /\ u[n] = g
         /\ u[0] = [out |-> <<>>, code |-> Fresh(v)]
    <3>1. \A i \in 0..n : i # n => i \in 0..(n - 1)
      BY <2>2, <2>4
    <3>2. u[0] = w[0] /\ u[n] = g
      BY <2>4, <2>8
    <3> QED
      BY <2>6, <2>8, <2>9, <3>1, <3>2
  <2>11. ASSUME NEW i \in 1..n PROVE u[i] = Extend(u[i - 1], q[i], max)
    <3>1. CASE i = n
      <4>1. n \in 0..n /\ n - 1 \in 0..n /\ n - 1 # n
        BY <2>4
      <4>2. u[n] = g /\ u[n - 1] = w[n - 1]
        BY <2>8, <4>1
      <4> QED
        BY <2>7, <3>1, <4>2
    <3>2. CASE i # n
      <4>1. i \in 1..(n - 1) /\ i \in 0..n /\ i - 1 \in 0..n /\ i - 1 # n
        BY <2>4, <3>2
      <4>2. u[i] = w[i] /\ u[i - 1] = w[i - 1]
        BY <2>8, <3>2, <4>1
      <4> QED
        BY <2>6, <4>1, <4>2
    <3> QED
      BY <3>1, <3>2
  <2> QED
    BY <2>2, <2>9, <2>10, <2>11
<1>4. Up(Len(q))
  <2> HIDE DEF Up
  <2> QED
    BY <1>1, <1>3
<1>5. SubSeq(q, 1, Len(q)) = q
  OBVIOUS
<1> QED
  BY <1>4, <1>5 DEF Follows

(* Codes is the flush of the last one.                                     *)
LEMMA CodesFound ==
  ASSUME NEW V, NEW v \in V, NEW q \in Seq(V), NEW max \in Nat \ {0},
         NEW w \in [0..Len(q) -> Run(V)], Follows(w, v, q, max)
  PROVE  Codes(v, q, max) = CodesOf(w[Len(q)])
<1> DEFINE Step(u) == [i \in 0..Len(q) |->
                         IF i = 0 THEN [out |-> <<>>, code |-> Fresh(v)]
                                  ELSE Extend(u[i - 1], q[i], max)]
           run == CHOOSE u : u = Step(u)
           Bad == {i \in 0..Len(q) : run[i] # w[i]}
<1>1. Codes(v, q, max) = CodesOf(run[Len(q)])
  BY DEF Codes, CodesOf
<1>2. PICK l \in Nat : l = Len(q)
  BY LenProperties
<1>3. w = Step(w)
  <2>1. w = [i \in 0..Len(q) |-> w[i]]
    OBVIOUS
  <2>2. \A i \in 0..Len(q) : i = 0 \/ i \in 1..Len(q)
    BY <1>2
  <2>3. \A i \in 0..Len(q) :
          w[i] = IF i = 0 THEN [out |-> <<>>, code |-> Fresh(v)]
                          ELSE Extend(w[i - 1], q[i], max)
    BY <2>2 DEF Follows
  <2> QED
    BY <2>1, <2>3
<1>4. run = Step(run)
  <2> HIDE DEF Step
  <2> QED
    BY <1>3
<1>5. /\ run[0] = w[0]
      /\ \A i \in 1..l : run[i] = Extend(run[i - 1], q[i], max)
  <2> HIDE DEF run
  <2>1. \A i \in 0..l : run[i] = IF i = 0 THEN [out |-> <<>>, code |-> Fresh(v)]
                                           ELSE Extend(run[i - 1], q[i], max)
    BY <1>2, <1>4
  <2>2. 0 \in 0..l /\ \A i \in 1..l : i \in 0..l /\ i # 0
    BY <1>2
  <2>3. run[0] = [out |-> <<>>, code |-> Fresh(v)]
    BY <2>1, <2>2
  <2>4. \A i \in 1..l : run[i] = Extend(run[i - 1], q[i], max)
    BY <2>1, <2>2
  <2> QED
    BY <2>3, <2>4 DEF Follows
<1> HIDE DEF run
<1>6. Bad = {}
  <2> SUFFICES ASSUME Bad # {} PROVE FALSE
    OBVIOUS
  <2>1. PICK n \in Bad : \A m \in Bad : n <= m
    <3>1. Bad \in SUBSET Nat
      BY <1>2
    <3> HIDE DEF Bad
    <3> QED
      BY <3>1, LeastOne
  <2>2. n \in 0..l /\ run[n] # w[n]
    BY <1>2
  <2>3. n \in 1..l
    BY <1>2, <1>5, <2>2
  <2>4. n - 1 \in 0..Len(q) /\ ~(n <= n - 1)
    BY <1>2, <2>3
  <2>5. n - 1 \notin Bad
    <3> HIDE DEF Bad
    <3> QED
      BY <2>1, <2>4
  <2>6. run[n - 1] = w[n - 1]
    BY <2>4, <2>5
  <2>7. w[n] = Extend(w[n - 1], q[n], max)
    BY <1>2, <2>3 DEF Follows
  <2> QED
    BY <1>5, <2>2, <2>3, <2>6, <2>7
<1>7. run[Len(q)] = w[Len(q)]
  <2>1. Len(q) \in 0..Len(q)
    BY <1>2
  <2> QED
    BY <1>6, <2>1
<1> QED
  BY <1>1, <1>7

(* The codes of any values, at least one, stand for them.                  *)
LEMMA CodesEncode ==
  ASSUME NEW V, NEW v \in V, NEW q \in Seq(V), NEW max \in Nat \ {0}
  PROVE  Encodes(Codes(v, q, max), <<v>> \o q, max)
<1>1. PICK u \in [0..Len(q) -> Run(V)] :
        Follows(u, v, q, max) /\ Encodes(CodesOf(u[Len(q)]), <<v>> \o q, max)
  BY StatesExist
<1>2. Codes(v, q, max) = CodesOf(u[Len(q)])
  BY <1>1, CodesFound
<1> QED
  BY <1>1, <1>2
------------------------------------------------------------------------------
(* Bytes and bits of a file *)

LEMMA FirstAndFurther ==
  ASSUME NEW V, NEW f \in Seq(V), f # <<>>
  PROVE  /\ f[1] \in V /\ SubSeq(f, 2, Len(f)) \in Seq(V)
         /\ <<f[1]>> \o SubSeq(f, 2, Len(f)) = f
         /\ Len(f) \in Nat \ {0}
<1>1. Len(f) \in Nat \ {0}
  BY EmptySeq, LenProperties
<1>2. /\ 1 \in 1..Len(f) /\ Len(f) \in 1..Len(f) /\ 1 + 1 = 2
      /\ \A i \in 2..Len(f) : i \in 1..Len(f)
  BY <1>1
<1>3. \A i \in 1..Len(f) : f[i] \in V
  BY ElementOfSeq
<1>4. SubSeq(f, 2, Len(f)) \in Seq(V)
  BY <1>1, <1>2, <1>3, SubSeqProperties
<1>5. SubSeq(f, 1, Len(f)) = <<f[1]>> \o SubSeq(f, 1 + 1, Len(f))
  BY <1>2, SubSeqRecursiveFirst
<1>6. SubSeq(f, 1, Len(f)) = f
  BY SubSeqFull
<1> QED
  BY <1>1, <1>2, <1>3, <1>4, <1>5, <1>6

(* No byte is without bits, so no file that has bytes is.                  *)
LEMMA ByteHasBits ==
  \A b : BitsOf(b) \in Seq(BOOLEAN) /\ Len(BitsOf(b)) \in Nat \ {0}
<1>1. Cardinality(Bits) \in Nat \ {0}
  BY RunAssumption, FS_CardinalityType, FS_EmptySet
<1>2. PICK m \in Nat \ {0} : m = Cardinality(Bits)
  BY <1>1
<1>3. PICK order : order = SetToSortSeq(Bits, >)
  OBVIOUS
<1>4. \A b : BitsOf(b) = [i \in 1..m |-> order[i] \in b]
  BY <1>2, <1>3 DEF BitsOf
<1>5. \A b : BitsOf(b) \in [1..m -> BOOLEAN]
  <2>1. \A b : [i \in 1..m |-> order[i] \in b] \in [1..m -> BOOLEAN]
    <3>1. \A b : \A i \in 1..m : (order[i] \in b) \in BOOLEAN
      OBVIOUS
    <3> QED
      BY <3>1, Zenon
  <2> QED
    BY <1>4, <2>1, Zenon
<1>6. \A s \in [1..m -> BOOLEAN] : s \in Seq(BOOLEAN) /\ Len(s) = m
  BY <1>2
<1> QED
  BY <1>2, <1>5, <1>6, Zenon

LEMMA FileHasBits ==
  ASSUME NEW f \in File, f # <<>>
  PROVE  FileBits(f) \in Seq(BOOLEAN) /\ FileBits(f) # <<>>
<1> DEFINE ss == [i \in DOMAIN f |-> BitsOf(f[i])]
<1>1. PICK n \in Nat : n = Len(f) - 1 /\ DOMAIN f = 1..(n + 1)
  BY FirstAndFurther, LenProperties DEF File
<1>2. PICK rest : rest = [i \in 1..n |-> BitsOf(f[i])]
  OBVIOUS
<1>3. rest \in Seq(Seq(BOOLEAN)) /\ Len(rest) = n
  BY <1>2, ByteHasBits
<1>4. PICK t \in Seq(BOOLEAN) : t = BitsOf(f[n + 1]) /\ Len(t) \in Nat \ {0}
  BY ByteHasBits
<1>5. ss = Append(rest, t)
  <2>1. PICK a : a = Append(rest, t)
    OBVIOUS
  <2>2. /\ a \in Seq(Seq(BOOLEAN)) /\ Len(a) = n + 1 /\ a[n + 1] = t
        /\ \A i \in 1..n : a[i] = rest[i]
    BY <1>3, <2>1, AppendProperties
  <2>3. \A i \in 1..(n + 1) : i \in 1..n \/ i = n + 1
    OBVIOUS
  <2>4. \A i \in 1..(n + 1) : a[i] = BitsOf(f[i])
    BY <1>2, <1>4, <2>2, <2>3
  <2>5. a = [i \in 1..(n + 1) |-> a[i]]
    BY <2>2
  <2> QED
    BY <1>1, <2>1, <2>4, <2>5
<1>6. /\ FlattenSeq(rest) \in Seq(BOOLEAN)
      /\ FlattenSeq(Append(rest, t)) = FlattenSeq(rest) \o t
  BY <1>3, FlattenAppend
<1>7. FileBits(f) = FlattenSeq(rest) \o t
  BY <1>5, <1>6 DEF FileBits
<1>8. /\ FlattenSeq(rest) \o t \in Seq(BOOLEAN)
      /\ Len(FlattenSeq(rest) \o t) = Len(FlattenSeq(rest)) + Len(t)
      /\ Len(FlattenSeq(rest)) \in Nat
  BY <1>6, ConcatProperties, LenProperties
<1> QED
  BY <1>4, <1>7, <1>8, EmptySeq

LEMMA ByteCodesEncode ==
  ASSUME NEW f \in File, f # <<>>
  PROVE  Encodes(ByteCodes(f), f, MaxBytes)
<1>1. /\ f[1] \in Byte /\ SubSeq(f, 2, Len(f)) \in Seq(Byte)
      /\ <<f[1]>> \o SubSeq(f, 2, Len(f)) = f
  BY FirstAndFurther DEF File
<1>2. Encodes(Codes(f[1], SubSeq(f, 2, Len(f)), MaxBytes),
              <<f[1]>> \o SubSeq(f, 2, Len(f)), MaxBytes)
  BY <1>1, CodesEncode, RunAssumption
<1> QED
  BY <1>1, <1>2 DEF ByteCodes, FirstByte, Further

LEMMA BitCodesEncode ==
  ASSUME NEW f \in File, f # <<>>
  PROVE  Encodes(BitCodes(f), FileBits(f), MaxBits)
<1>1. PICK b \in Seq(BOOLEAN) : b = FileBits(f) /\ b # <<>>
  BY FileHasBits
<1>2. <<FirstByte(f)>> \o Further(f) = f
  BY FirstAndFurther DEF FirstByte, Further, File
<1>3. Head(b) \in BOOLEAN /\ Tail(b) \in Seq(BOOLEAN) /\ <<Head(b)>> \o Tail(b) = b
  <2>1. /\ b[1] \in BOOLEAN /\ SubSeq(b, 2, Len(b)) \in Seq(BOOLEAN)
        /\ <<b[1]>> \o SubSeq(b, 2, Len(b)) = b
    BY <1>1, FirstAndFurther
  <2>2. Head(b) = b[1] /\ Tail(b) = SubSeq(b, 2, Len(b))
    BY <1>1, TailIsSubSeq
  <2> QED
    BY <2>1, <2>2
<1>4. Encodes(Codes(Head(b), Tail(b), MaxBits), <<Head(b)>> \o Tail(b), MaxBits)
  BY <1>3, CodesEncode, RunAssumption
<1>5. BitCodes(f) = Codes(Head(b), Tail(b), MaxBits)
  BY <1>1, <1>2 DEF BitCodes
<1> QED
  BY <1>1, <1>3, <1>4, <1>5

(* RunsEncodeFile, of either encoder and of any file that has bytes: what  *)
(* decodes its codes gets the file (or its bits), no amount overflows, and *)
(* no run is cut before it is full.  A call changes no file.               *)
THEOREM RunsAreEncoded == Spec => []RunsEncodeFile
<1>1. LoopInv => RunsEncodeFile
  <2> SUFFICES ASSUME LoopInv, file["first"] # <<>>
               PROVE  /\ Encodes(ByteCodes(file["first"]), file["first"], MaxBytes)
                      /\ Encodes(BitCodes(file["first"]), FileBits(file["first"]),
                                 MaxBits)
    BY DEF RunsEncodeFile
  <2>1. file["first"] \in File
    BY DEF LoopInv, Stream
  <2> QED
    BY <2>1, ByteCodesEncode, BitCodesEncode
<1> QED
  BY <1>1, LoopInit, LoopStep, PTL DEF Spec
===============================================================================
