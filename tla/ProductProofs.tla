----------------------------- MODULE ProductProofs -----------------------------
(***************************************************************************)
(* What Multiply returns, for files of any length, any size of a block and *)
(* any bytes.                                                              *)
(*                                                                         *)
(* In a product whose longer file has no NUL behind the end of the other,  *)
(* or ends in the block where that ends, the blocks, the logical ending    *)
(* and the rest are together one piece up to the last byte that is not     *)
(* NUL: then what is done a second time undoes the first.                  *)
(***************************************************************************)
EXTENDS Product, SequenceTheorems, WellFoundedInduction, TLAPS

(* Byte i of the product of the two files, NUL behind both of them.        *)
ByteOf(a, b, i) == Xor(At(a, i), At(b, i))

Most(m, n) == IF m <= n THEN n ELSE m

(* Behind the end of one file the other has no NUL.                        *)
EndsClear(a, b) ==
  \A i \in Nat : Least(Len(a), Len(b)) < i /\ i <= Most(Len(a), Len(b))
    => ByteOf(a, b, i) # NUL

(* f has q whole blocks, and what follows does not end in a NUL.           *)
Fits(f, q) ==
  /\ f \in File /\ Len(f) \div BlockSize = q
  /\ Len(f) > q * BlockSize => f[Len(f)] # NUL

(* All that is whole blocks of both, up to the last byte but NUL.          *)
EndsAt(a, b, e) ==
  LET n == FullBlocks(a, b) * BlockSize IN
  /\ e \in n..Most(Len(a), Len(b))
  /\ e > n => ByteOf(a, b, e) # NUL
  /\ \A i \in Nat : i > e => ByteOf(a, b, i) = NUL

Blocks(a, b, n) == [i \in 1..n |-> Xor(a[i], b[i])]

------------------------------------------------------------------------------
(* Numbers *)

LEMMA LeastOne ==
  ASSUME NEW T \in SUBSET Nat, T # {}
  PROVE  \E n \in T : \A m \in T : n <= m
<1>1. PICK n \in T : \A m \in T : ~ (<<m, n>> \in OpToRel(<, Nat))
  BY NatLessThanWellFounded, WFMin
<1>2. \A m \in T : ~ (m < n)
  BY <1>1 DEF OpToRel
<1> QED
  BY <1>2

LEMMA Products ==
  ASSUME NEW m \in Nat, NEW n \in Nat, NEW k \in Nat, m <= n
  PROVE  m * k <= n * k
<1>1. PICK d \in Nat : n = m + d
  <2>1. n - m \in Nat /\ n = m + (n - m)
    OBVIOUS
  <2> QED
    BY <2>1
<1>2. n * k = m * k + d * k
  BY <1>1
<1>3. d * k >= 0 /\ d * k \in Int /\ m * k \in Int
  OBVIOUS
<1> QED
  BY <1>2, <1>3

LEMMA Quotients ==
  ASSUME NEW n \in Nat, NEW k \in Nat \ {0}
  PROVE  /\ n \div k \in Nat
         /\ (n \div k) * k <= n
         /\ n < ((n \div k) + 1) * k
<1>1. k \in Nat /\ k > 0
  OBVIOUS
<1>2. n = k * (n \div k) + (n % k)
  BY <1>1
<1>3. n % k \in 0..(k - 1)
  BY <1>1
<1>4. n \div k \in Nat
  BY <1>1
<1> DEFINE q == n \div k
           r == n % k
<1>5. q \in Nat /\ r \in 0..(k - 1) /\ n = k * q + r
  BY <1>2, <1>3, <1>4
<1> HIDE DEF q, r
<1>6. k * q = q * k /\ (q + 1) * k = q * k + k
      /\ q * k \in Nat
  BY <1>1, <1>5
<1>7. q * k <= n /\ n < (q + 1) * k
  BY <1>1, <1>5, <1>6
<1> QED
  BY <1>4, <1>7 DEF q

LEMMA QuotientIs ==
  ASSUME NEW n \in Nat, NEW k \in Nat \ {0}, NEW r \in Nat, r * k <= n
  PROVE  /\ r <= n \div k
         /\ n < (r + 1) * k => n \div k = r
<1>1. k \in Nat /\ k > 0
  OBVIOUS
<1>2. PICK q \in Nat : q = n \div k
  BY Quotients
<1>3. q * k <= n /\ n < (q + 1) * k
  BY <1>2, Quotients
<1>4. r <= q
  <2>1. SUFFICES ASSUME q + 1 <= r
                 PROVE  FALSE
    OBVIOUS
  <2>2. (q + 1) * k <= r * k
    BY <1>1, <2>1, Products
  <2>3. (q + 1) * k \in Nat /\ r * k \in Nat
    BY <1>1
  <2> QED
    BY <1>3, <2>2, <2>3
<1>5. ASSUME n < (r + 1) * k
      PROVE  q <= r
  <2>1. SUFFICES ASSUME r + 1 <= q
                 PROVE  FALSE
    OBVIOUS
  <2>2. (r + 1) * k <= q * k
    BY <1>1, <2>1, Products
  <2>3. (r + 1) * k \in Nat /\ q * k \in Nat
    BY <1>1
  <2> QED
    BY <1>3, <1>5, <2>2, <2>3
<1> QED
  BY <1>2, <1>4, <1>5

LEMMA QuotientsGrow ==
  ASSUME NEW m \in Nat, NEW n \in Nat, NEW k \in Nat \ {0}, m <= n
  PROVE  m \div k <= n \div k /\ n \div k <= n
<1>1. PICK p \in Nat : p = m \div k /\ p * k <= m
  BY Quotients
<1>2. PICK q \in Nat : q = n \div k /\ q * k <= n
  BY Quotients
<1>3. p * k \in Nat /\ p * k <= n
  BY <1>1
<1>4. p <= q
  BY <1>2, <1>3, QuotientIs
<1>5. 1 * q <= k * q /\ k * q = q * k /\ 1 * q = q /\ q * k \in Nat
  BY Products
<1> QED
  BY <1>1, <1>2, <1>4, <1>5

(* The whole blocks of both are those up to the block that is not whole.   *)
LEMMA FullBlocksIs ==
  ASSUME NEW a \in File, NEW b \in File
  PROVE  /\ FullBlocks(a, b) \in Nat
         /\ FullBlocks(a, b) * BlockSize <= Len(a)
         /\ FullBlocks(a, b) * BlockSize <= Len(b)
         /\ \/ Len(a) < (FullBlocks(a, b) + 1) * BlockSize
            \/ Len(b) < (FullBlocks(a, b) + 1) * BlockSize
         /\ \A r \in Nat :
              /\ r * BlockSize <= Len(a) /\ r * BlockSize <= Len(b)
              /\ \/ Len(a) < (r + 1) * BlockSize
                 \/ Len(b) < (r + 1) * BlockSize
              => r = FullBlocks(a, b)
<1>1. Len(a) \in Nat /\ Len(b) \in Nat /\ BlockSize \in Nat \ {0}
  BY BlockAssumption DEF File
<1>2. PICK p \in Nat, q \in Nat :
        p = Len(a) \div BlockSize /\ q = Len(b) \div BlockSize
  BY <1>1, Quotients
<1>3. FullBlocks(a, b) = Least(p, q)
  BY <1>2 DEF FullBlocks
<1>4. /\ p * BlockSize <= Len(a) /\ Len(a) < (p + 1) * BlockSize
      /\ q * BlockSize <= Len(b) /\ Len(b) < (q + 1) * BlockSize
  BY <1>1, <1>2, Quotients
<1>5. CASE p <= q
  <2>1. p * BlockSize <= q * BlockSize /\ p * BlockSize \in Nat /\ q * BlockSize \in Nat
    BY <1>1, <1>5, Products
  <2>2. FullBlocks(a, b) = p
    BY <1>3, <1>5 DEF Least
  <2>3. ASSUME NEW r \in Nat, r * BlockSize <= Len(a), r * BlockSize <= Len(b),
               \/ Len(a) < (r + 1) * BlockSize
               \/ Len(b) < (r + 1) * BlockSize
        PROVE  r = p
    <3>1. r <= p /\ r <= q
      BY <1>1, <1>2, <2>3, QuotientIs
    <3>2. p = r \/ q = r
      BY <1>1, <1>2, <2>3, QuotientIs
    <3> QED
      BY <3>1, <3>2, <1>5
  <2> QED
    BY <1>1, <1>4, <2>1, <2>2, <2>3
<1>6. CASE ~(p <= q)
  <2>1. q * BlockSize <= p * BlockSize /\ p * BlockSize \in Nat /\ q * BlockSize \in Nat
    BY <1>1, <1>6, Products
  <2>2. FullBlocks(a, b) = q
    BY <1>3, <1>6 DEF Least
  <2>3. ASSUME NEW r \in Nat, r * BlockSize <= Len(a), r * BlockSize <= Len(b),
               \/ Len(a) < (r + 1) * BlockSize
               \/ Len(b) < (r + 1) * BlockSize
        PROVE  r = q
    <3>1. r <= p /\ r <= q
      BY <1>1, <1>2, <2>3, QuotientIs
    <3>2. p = r \/ q = r
      BY <1>1, <1>2, <2>3, QuotientIs
    <3> QED
      BY <3>1, <3>2, <1>6
  <2> QED
    BY <1>1, <1>4, <2>1, <2>2, <2>3
<1> QED
  BY <1>5, <1>6

------------------------------------------------------------------------------
(* The product in one piece *)

LEMMA Trimmed ==
  ASSUME NEW s \in Seq(Byte)
  PROVE  /\ TrimmedLen(s) \in 0..Len(s)
         /\ TrimmedLen(s) > 0 => s[TrimmedLen(s)] # NUL
         /\ \A i \in 1..Len(s) : i > TrimmedLen(s) => s[i] = NUL
         /\ Trim(s) \in Seq(Byte) /\ Len(Trim(s)) = TrimmedLen(s)
         /\ \A i \in 1..TrimmedLen(s) : Trim(s)[i] = s[i]
<1> DEFINE T == {n \in 0..Len(s) : \A i \in 1..Len(s) : i > n => s[i] = NUL}
<1>1. Len(s) \in Nat /\ Len(s) \in T /\ T \in SUBSET Nat
  OBVIOUS
<1>2. PICK n \in T : \A m \in T : n <= m
  BY <1>1, LeastOne
<1>3. n > 0 => s[n] # NUL
  <2>1. SUFFICES ASSUME n > 0, s[n] = NUL
                 PROVE  FALSE
    OBVIOUS
  <2>2. n - 1 \in T
    BY <1>1, <2>1
  <2>3. n \in Nat /\ n <= n - 1
    <3> HIDE DEF T
    <3> QED
      BY <1>1, <1>2, <2>2
  <2> QED
    BY <2>3
<1>4. /\ TrimmedLen(s) \in 0..Len(s)
      /\ TrimmedLen(s) > 0 => s[TrimmedLen(s)] # NUL
      /\ \A i \in 1..Len(s) : i > TrimmedLen(s) => s[i] = NUL
  BY <1>2, <1>3 DEF TrimmedLen
<1> HIDE DEF T
<1>5. PICK t \in 0..Len(s) : t = TrimmedLen(s)
  BY <1>4
<1>6. /\ SubSeq(s, 1, t) \in Seq(Byte) /\ Len(SubSeq(s, 1, t)) = t
      /\ \A i \in 1..t : SubSeq(s, 1, t)[i] = s[i]
  BY <1>1, <1>5
<1> QED
  BY <1>4, <1>5, <1>6 DEF Trim

LEMMA Bytes ==
  ASSUME NEW a \in File, NEW b \in File, NEW i \in Nat \ {0}
  PROVE  /\ At(a, i) \in Byte /\ At(b, i) \in Byte
         /\ ByteOf(a, b, i) \in Byte
         /\ i > Len(a) => At(a, i) = NUL /\ ByteOf(a, b, i) = At(b, i)
         /\ i > Len(b) => At(b, i) = NUL /\ ByteOf(a, b, i) = At(a, i)
         /\ i > Len(a) /\ i > Len(b) => ByteOf(a, b, i) = NUL
         /\ i <= Len(a) => At(a, i) = a[i]
         /\ i <= Len(b) => At(b, i) = b[i]
<1>1. /\ Len(a) \in Nat /\ Len(b) \in Nat
      /\ \A j \in 1..Len(a) : a[j] \in Byte
      /\ \A j \in 1..Len(b) : b[j] \in Byte
  BY DEF File
<1>2. At(a, i) \in Byte /\ At(b, i) \in Byte
  BY <1>1 DEF At, Byte, NUL
<1>3. /\ i > Len(a) => At(a, i) = NUL
      /\ i > Len(b) => At(b, i) = NUL
      /\ i <= Len(a) => At(a, i) = a[i]
      /\ i <= Len(b) => At(b, i) = b[i]
  BY <1>1 DEF At
<1>4. /\ \A x : Xor(NUL, x) = x /\ Xor(x, NUL) = x
      /\ \A x, y \in Byte : Xor(x, y) \in Byte
  BY DEF Xor, NUL, Byte
<1> QED
  BY <1>2, <1>3, <1>4 DEF ByteOf

(* s is what the product has from byte n + 1 on.                           *)
PieceFrom(a, b, n, s) == \A i \in 1..Len(s) : s[i] = ByteOf(a, b, n + i)

(* Two pieces of the product are the piece that they make together.        *)
LEMMA Pieces ==
  ASSUME NEW a \in File, NEW b \in File,
         NEW s \in Seq(Byte), NEW t \in Seq(Byte),
         PieceFrom(a, b, 0, s), PieceFrom(a, b, Len(s), t)
  PROVE  /\ s \o t \in Seq(Byte) /\ Len(s \o t) = Len(s) + Len(t)
         /\ PieceFrom(a, b, 0, s \o t)
<1>1. /\ s \o t \in Seq(Byte) /\ Len(s \o t) = Len(s) + Len(t)
      /\ \A i \in 1..(Len(s) + Len(t)) :
           (s \o t)[i] = IF i <= Len(s) THEN s[i] ELSE t[i - Len(s)]
  BY ConcatProperties
<1>2. PICK m \in Nat, k \in Nat : m = Len(s) /\ k = Len(t)
  OBVIOUS
<1>3. /\ \A i \in 1..m : s[i] = ByteOf(a, b, i)
      /\ \A i \in 1..k : t[i] = ByteOf(a, b, m + i)
  BY <1>2 DEF PieceFrom
<1>4. ASSUME NEW i \in 1..(m + k)
      PROVE  (s \o t)[i] = ByteOf(a, b, i)
  <2>1. CASE i <= m
    BY <2>1, <1>1, <1>2, <1>3
  <2>2. CASE ~(i <= m)
    <3>1. i - m \in 1..k /\ m + (i - m) = i
      BY <2>2
    <3>2. (s \o t)[i] = t[i - m]
      BY <2>2, <1>1, <1>2
    <3>3. t[i - m] = ByteOf(a, b, m + (i - m))
      BY <3>1, <1>3
    <3> QED
      BY <3>1, <3>2, <3>3
  <2> QED
    BY <2>1, <2>2
<1>5. PieceFrom(a, b, 0, s \o t)
  <2>1. Len(s \o t) = m + k /\ \A i \in 1..(m + k) : 0 + i = i
    BY <1>1, <1>2
  <2> QED
    BY <2>1, <1>4 DEF PieceFrom
<1> QED
  BY <1>1, <1>5

LEMMA FirstPiece ==
  ASSUME NEW a, NEW b, NEW s \in Seq(Byte), PieceFrom(a, b, 0, s)
  PROVE  \A i \in 1..Len(s) : s[i] = ByteOf(a, b, i)
<1>1. \A i \in 1..Len(s) : 0 + i = i
  OBVIOUS
<1> QED
  BY <1>1 DEF PieceFrom

LEMMA LastPiece ==
  ASSUME NEW a, NEW b, NEW f \in Seq(Byte), NEW n \in Nat, n < Len(f),
         \A i \in Nat : n < i /\ i <= Len(f) => f[i] = ByteOf(a, b, i)
  PROVE  /\ SubSeq(f, n + 1, Len(f)) \in Seq(Byte)
         /\ Len(SubSeq(f, n + 1, Len(f))) = Len(f) - n
         /\ PieceFrom(a, b, n, SubSeq(f, n + 1, Len(f)))
<1>1. PICK l \in Nat : l = Len(f)
  OBVIOUS
<1>2. \A i \in (n + 1)..l : f[i] \in Byte
  BY <1>1
<1>3. n + 1 \in Int /\ l \in Int
  OBVIOUS
<1>4. PICK r : r = SubSeq(f, n + 1, l)
  OBVIOUS
<1>5. /\ r \in Seq(Byte)
      /\ Len(r) = IF n + 1 <= l THEN l - (n + 1) + 1 ELSE 0
      /\ \A i \in 1..(l - (n + 1) + 1) : r[i] = f[n + 1 + i - 1]
  BY <1>2, <1>3, <1>4, SubSeqProperties
<1>6. Len(r) = l - n /\ \A i \in 1..(l - n) : r[i] = f[n + i]
  <2>1. /\ l - (n + 1) + 1 = l - n /\ n + 1 <= l
        /\ \A i \in 1..(l - n) : n + 1 + i - 1 = n + i
    BY <1>1
  <2> QED
    BY <1>5, <2>1
<1>7. \A i \in 1..(l - n) : f[n + i] = ByteOf(a, b, n + i)
  BY <1>1
<1> QED
  BY <1>1, <1>4, <1>5, <1>6, <1>7 DEF PieceFrom

LEMMA SameSequence ==
  ASSUME NEW S, NEW s \in Seq(S), NEW t \in Seq(S), Len(s) = Len(t),
         \A i \in 1..Len(s) : s[i] = t[i]
  PROVE  s = t
  OBVIOUS

LEMMA BlocksOf ==
  ASSUME NEW a \in File, NEW b \in File, NEW n \in Nat,
         n <= Len(a), n <= Len(b)
  PROVE  /\ Blocks(a, b, n) \in Seq(Byte) /\ Len(Blocks(a, b, n)) = n
         /\ \A i \in 1..n : Blocks(a, b, n)[i] = ByteOf(a, b, i)
<1>1. Len(a) \in Nat /\ Len(b) \in Nat
  BY DEF File
<1>2. \A i \in 1..n : /\ Xor(a[i], b[i]) = ByteOf(a, b, i)
                      /\ ByteOf(a, b, i) \in Byte
  BY <1>1, Bytes DEF ByteOf
<1> QED
  BY <1>2 DEF Blocks

LEMMA OneMoreBlock ==
  ASSUME NEW a \in File, NEW b \in File, NEW n \in Nat,
         n + BlockSize <= Len(a), n + BlockSize <= Len(b)
  PROVE  Blocks(a, b, n) \o [i \in 1..BlockSize |-> ByteOf(a, b, n + i)]
           = Blocks(a, b, n + BlockSize)
<1>1. /\ Len(a) \in Nat /\ Len(b) \in Nat /\ BlockSize \in Nat \ {0}
      /\ n <= Len(a) /\ n <= Len(b) /\ n + BlockSize \in Nat
  BY BlockAssumption DEF File
<1>2. PICK u \in Seq(Byte) : /\ u = Blocks(a, b, n) /\ Len(u) = n
                             /\ \A i \in 1..n : u[i] = ByteOf(a, b, i)
  BY <1>1, BlocksOf
<1>3. PICK v \in Seq(Byte) :
        /\ v = Blocks(a, b, n + BlockSize) /\ Len(v) = n + BlockSize
        /\ \A i \in 1..(n + BlockSize) : v[i] = ByteOf(a, b, i)
  BY <1>1, BlocksOf
<1>4. PICK w : w = [i \in 1..BlockSize |-> ByteOf(a, b, n + i)]
  OBVIOUS
<1>5. \A i \in 1..BlockSize : ByteOf(a, b, n + i) \in Byte
  <2>1. \A i \in 1..BlockSize : n + i \in Nat \ {0}
    BY <1>1
  <2> QED
    BY <2>1, Bytes
<1>6. /\ w \in Seq(Byte) /\ Len(w) = BlockSize
      /\ \A i \in 1..BlockSize : w[i] = ByteOf(a, b, n + i)
  BY <1>1, <1>4, <1>5
<1>7. /\ u \o w \in Seq(Byte) /\ Len(u \o w) = Len(u) + Len(w)
      /\ \A i \in 1..Len(u \o w) : (u \o w)[i] = ByteOf(a, b, i)
  <2>1. PieceFrom(a, b, 0, u) /\ PieceFrom(a, b, Len(u), w)
    BY <1>2, <1>6 DEF PieceFrom
  <2>2. w \in Seq(Byte)
    BY <1>6
  <2>3. /\ u \o w \in Seq(Byte) /\ Len(u \o w) = Len(u) + Len(w)
        /\ PieceFrom(a, b, 0, u \o w)
    BY <2>1, <2>2, Pieces
  <2> QED
    BY <2>3, FirstPiece
<1>8. u \o w = v
  <2>1. Len(u \o w) = Len(v) /\ \A i \in 1..Len(u \o w) : (u \o w)[i] = v[i]
    BY <1>2, <1>3, <1>6, <1>7, ZenonT(40)
  <2> QED
    BY <2>1, <1>7, SameSequence
<1> QED
  BY <1>2, <1>3, <1>4, <1>8

LEMMA LastBlockOf ==
  ASSUME NEW a \in File, NEW b \in File
  PROVE  LET n == FullBlocks(a, b) * BlockSize IN
         /\ LastBlock(a, b) \in Seq(Byte) /\ Len(LastBlock(a, b)) = BlockSize
         /\ \A i \in 1..BlockSize : LastBlock(a, b)[i] = ByteOf(a, b, n + i)
<1>1. BlockSize \in Nat \ {0} /\ FullBlocks(a, b) * BlockSize \in Nat
  BY BlockAssumption, FullBlocksIs
<1>2. PICK n \in Nat : n = FullBlocks(a, b) * BlockSize
  BY <1>1
<1>3. LastBlock(a, b) = [i \in 1..BlockSize |-> ByteOf(a, b, n + i)]
  BY <1>2 DEF LastBlock, ByteOf
<1>4. \A i \in 1..BlockSize : ByteOf(a, b, n + i) \in Byte
  <2>1. \A i \in 1..BlockSize : n + i \in Nat \ {0}
    BY <1>1
  <2> QED
    BY <2>1, Bytes
<1> QED
  BY <1>1, <1>2, <1>3, <1>4

(* Whatever the files are, the product is a file.                          *)
LEMMA ProductIsFile ==
  ASSUME NEW a \in File, NEW b \in File
  PROVE  Multiply(a, b) \in File
<1>1. /\ Len(a) \in Nat /\ Len(b) \in Nat /\ BlockSize \in Nat \ {0}
      /\ a \in Seq(Byte) /\ b \in Seq(Byte)
  BY BlockAssumption DEF File
<1>2. FullBlocks(a, b) \in Nat
  BY FullBlocksIs
<1>3. PICK n \in Nat, d \in Nat : /\ n = FullBlocks(a, b) * BlockSize
                                  /\ d = (FullBlocks(a, b) + 1) * BlockSize
  <2>1. /\ FullBlocks(a, b) * BlockSize \in Nat
        /\ (FullBlocks(a, b) + 1) * BlockSize \in Nat
    BY <1>1, <1>2
  <2> QED
    BY <2>1
<1>4. Blocks(a, b, n) \in Seq(Byte)
  BY <1>3, FullBlocksIs, BlocksOf
<1>5. Trim(LastBlock(a, b)) \in Seq(Byte)
  BY LastBlockOf, Trimmed
<1>6. SubSeq(a, d + 1, Len(a)) \in Seq(Byte) /\ SubSeq(b, d + 1, Len(b)) \in Seq(Byte)
  <2>1. /\ \A i \in (d + 1)..Len(a) : a[i] \in Byte
        /\ \A i \in (d + 1)..Len(b) : b[i] \in Byte
    BY <1>1
  <2>2. d + 1 \in Int /\ Len(a) \in Int /\ Len(b) \in Int
    BY <1>1
  <2> QED
    BY <2>1, <2>2, SubSeqProperties
<1>7. Rest(a, b) \in Seq(Byte)
  BY <1>3, <1>6 DEF Rest, RestFrom
<1>8. Multiply(a, b) = (Blocks(a, b, n) \o Trim(LastBlock(a, b))) \o Rest(a, b)
  BY <1>3 DEF Multiply, Blocks
<1>9. Blocks(a, b, n) \o Trim(LastBlock(a, b)) \in Seq(Byte)
  BY <1>4, <1>5, ConcatProperties
<1> QED
  BY <1>7, <1>8, <1>9, ConcatProperties DEF File

LEMMA ProductInOne ==
  ASSUME NEW a \in File, NEW b \in File,
         \/ EndsClear(a, b)
         \/ Most(Len(a), Len(b)) <= (FullBlocks(a, b) + 1) * BlockSize
  PROVE  \E e \in Nat : /\ EndsAt(a, b, e)
                        /\ Multiply(a, b) \in File
                        /\ Len(Multiply(a, b)) = e
                        /\ \A i \in 1..e : Multiply(a, b)[i] = ByteOf(a, b, i)
<1>1. /\ Len(a) \in Nat /\ Len(b) \in Nat /\ BlockSize \in Nat \ {0}
      /\ a \in Seq(Byte) /\ b \in Seq(Byte)
  BY BlockAssumption DEF File
<1>2. PICK n \in Nat, d \in Nat :
        /\ n = FullBlocks(a, b) * BlockSize
        /\ d = (FullBlocks(a, b) + 1) * BlockSize
        /\ d = n + BlockSize
  <2>1. FullBlocks(a, b) \in Nat
    BY FullBlocksIs
  <2>2. /\ FullBlocks(a, b) * BlockSize \in Nat
        /\ (FullBlocks(a, b) + 1) * BlockSize
             = FullBlocks(a, b) * BlockSize + BlockSize
    BY <2>1, <1>1
  <2> QED
    BY <2>2, <1>1
<1>3. /\ n <= Len(a) /\ n <= Len(b) /\ (Len(a) < d \/ Len(b) < d)
  BY <1>2, FullBlocksIs
<1> DEFINE l == Most(Len(a), Len(b))
           block == LastBlock(a, b)
           s == Blocks(a, b, n)
           t == TrimmedLen(block)
           r == Rest(a, b)
<1>4. /\ l \in Nat /\ Len(a) <= l /\ Len(b) <= l /\ (l = Len(a) \/ l = Len(b))
      /\ \A i \in Nat : i > l => i > Len(a) /\ i > Len(b)
  BY <1>1 DEF Most
<1>5. Multiply(a, b) = (s \o Trim(block)) \o r
  BY <1>2 DEF Multiply, Blocks
<1>6. /\ s \in Seq(Byte) /\ Len(s) = n
      /\ \A i \in 1..n : s[i] = ByteOf(a, b, i)
  BY <1>3, BlocksOf
<1>7. /\ block \in Seq(Byte) /\ Len(block) = BlockSize
      /\ \A i \in 1..BlockSize : block[i] = ByteOf(a, b, n + i)
  BY <1>2, LastBlockOf
<1>8. /\ t \in 0..BlockSize
      /\ t > 0 => block[t] # NUL
      /\ \A i \in 1..BlockSize : i > t => block[i] = NUL
      /\ Trim(block) \in Seq(Byte) /\ Len(Trim(block)) = t
      /\ \A i \in 1..t : Trim(block)[i] = block[i]
  BY <1>7, Trimmed
<1> HIDE DEF s, block
<1>9. /\ t \in Nat
      /\ \A i \in 1..t : Trim(block)[i] = ByteOf(a, b, n + i)
      /\ t > 0 => ByteOf(a, b, n + t) # NUL
      /\ \A i \in 1..BlockSize : i > t => ByteOf(a, b, n + i) = NUL
  BY <1>1, <1>7, <1>8
<1> HIDE DEF t
<1>10. /\ s \o Trim(block) \in Seq(Byte) /\ Len(s \o Trim(block)) = n + t
       /\ \A i \in 1..(n + t) : (s \o Trim(block))[i] = ByteOf(a, b, i)
  <2>1. PICK v \in Seq(Byte) : v = Trim(block)
    BY <1>8
  <2>2. PICK u \in Seq(Byte) : u = s
    BY <1>6
  <2>3. /\ Len(u) = n /\ Len(v) = t
        /\ PieceFrom(a, b, 0, u) /\ PieceFrom(a, b, Len(u), v)
    <3>1. Len(u) = n /\ \A i \in 1..n : 0 + i = i /\ u[i] = ByteOf(a, b, i)
      BY <1>6, <2>2
    <3>2. Len(v) = t /\ \A i \in 1..t : v[i] = ByteOf(a, b, n + i)
      BY <1>8, <1>9, <2>1
    <3> QED
      BY <3>1, <3>2 DEF PieceFrom
  <2>4. /\ u \o v \in Seq(Byte) /\ Len(u \o v) = Len(u) + Len(v)
        /\ PieceFrom(a, b, 0, u \o v)
    BY <2>3, Pieces
  <2>5. \A i \in 1..Len(u \o v) : (u \o v)[i] = ByteOf(a, b, i)
    BY <2>4, FirstPiece
  <2> QED
    BY <2>1, <2>2, <2>3, <2>4, <2>5
<1>11. \A i \in Nat : i > l => ByteOf(a, b, i) = NUL
  BY <1>4, <1>1, Bytes
<1> HIDE DEF l
<1>12. ASSUME NEW k \in Nat, r \in Seq(Byte), Len(r) = k,
              PieceFrom(a, b, n + t, r)
       PROVE  /\ Multiply(a, b) \in File /\ Len(Multiply(a, b)) = (n + t) + k
              /\ \A i \in 1..((n + t) + k) :
                   Multiply(a, b)[i] = ByteOf(a, b, i)
  <2>1. PICK m \in Nat : m = n + t
    BY <1>9
  <2>2. PICK u \in Seq(Byte) : u = s \o Trim(block)
    BY <1>10
  <2>3. PICK v \in Seq(Byte) : v = r
    BY <1>12
  <2>4. /\ u \o v \in Seq(Byte) /\ Len(u \o v) = m + k
        /\ \A i \in 1..(m + k) : (u \o v)[i] = ByteOf(a, b, i)
    <3>1. /\ Len(u) = m /\ \A i \in 1..m : u[i] = ByteOf(a, b, i)
          /\ Len(v) = k /\ PieceFrom(a, b, Len(u), v)
      BY <1>10, <1>12, <2>1, <2>2, <2>3
    <3>2. PieceFrom(a, b, 0, u)
      BY <3>1 DEF PieceFrom
    <3>3. /\ u \o v \in Seq(Byte) /\ Len(u \o v) = Len(u) + Len(v)
          /\ PieceFrom(a, b, 0, u \o v)
      BY <3>1, <3>2, Pieces
    <3>4. \A i \in 1..Len(u \o v) : (u \o v)[i] = ByteOf(a, b, i)
      BY <3>3, FirstPiece
    <3> QED
      BY <3>1, <3>3, <3>4
  <2> QED
    BY <1>5, <2>1, <2>2, <2>3, <2>4 DEF File
(* The longer file ends in the block: there is no rest. *)
<1>13. CASE l <= d
  <2>1. r = <<>>
    <3>1. /\ SubSeq(b, d + 1, Len(b)) = <<>>
          /\ SubSeq(a, d + 1, Len(a)) = <<>>
      BY <1>1, <1>4, <1>13
    <3> QED
      BY <3>1, <1>2 DEF Rest, RestFrom
  <2>2. /\ Multiply(a, b) \in File /\ Len(Multiply(a, b)) = n + t
        /\ \A i \in 1..(n + t) : Multiply(a, b)[i] = ByteOf(a, b, i)
    <3>1. r \in Seq(Byte) /\ Len(r) = 0
      BY <2>1
    <3>2. n + t \in Nat /\ (n + t) + 0 = n + t
      BY <1>9
    <3>3. PieceFrom(a, b, n + t, r)
      BY <3>1 DEF PieceFrom
    <3> HIDE DEF r
    <3> QED
      BY <3>1, <3>2, <3>3, <1>12
  <2>3. EndsAt(a, b, n + t)
    <3>1. n + t <= l
      <4>1. CASE t = 0
        BY <4>1, <1>1, <1>3, <1>4
      <4>2. CASE t > 0
        <5>1. n + t \in Nat /\ ByteOf(a, b, n + t) # NUL
          BY <4>2, <1>9
        <5>2. ~(n + t > l)
          BY <5>1, <1>11
        <5> QED
          BY <5>1, <5>2, <1>4
      <4> QED
        BY <4>1, <4>2, <1>9
    <3>2. ASSUME NEW i \in Nat, i > n + t
          PROVE  ByteOf(a, b, i) = NUL
      <4>1. CASE i <= d
        <5>1. i - n \in 1..BlockSize /\ i - n > t /\ n + (i - n) = i
          BY <4>1, <3>2, <1>1, <1>2, <1>9
        <5> QED
          BY <5>1, <1>9
      <4>2. CASE i > d
        BY <4>2, <1>4, <1>11, <1>13
      <4> QED
        BY <4>1, <4>2
    <3> QED
      BY <3>1, <3>2, <1>2, <1>4, <1>9 DEF EndsAt, l
  <2> QED
    BY <2>2, <2>3, <1>9
(* It goes on behind the block: then the block is whole. *)
<1>14. CASE l > d
  <2>1. Least(Len(a), Len(b)) < d
    BY <1>1, <1>3 DEF Least
  <2>2. ByteOf(a, b, d) # NUL /\ ByteOf(a, b, l) # NUL
    <3>1. EndsClear(a, b)
      BY <1>2, <1>4, <1>14 DEF l
    <3> QED
      BY <2>1, <3>1, <1>1, <1>2, <1>4, <1>14 DEF EndsClear, l, Least
  <2>3. t = BlockSize
    <3>1. t < BlockSize => ByteOf(a, b, n + BlockSize) = NUL
      BY <1>1, <1>9
    <3> QED
      BY <3>1, <2>2, <1>1, <1>2, <1>8
  <2>4. n + t = d /\ l - d \in Nat /\ d + (l - d) = l
    BY <2>3, <1>2, <1>4, <1>14
  <2>5. r \in Seq(Byte) /\ Len(r) = l - d /\ PieceFrom(a, b, d, r)
    <3>1. CASE Len(a) < d
      <4>1. Len(b) = l /\ d < Len(b)
        BY <3>1, <1>1, <1>4, <1>14
      <4>2. r = SubSeq(b, d + 1, Len(b))
        BY <3>1, <1>2 DEF Rest, RestFrom
      <4>3. ASSUME NEW i \in Nat, d < i, i <= Len(b)
            PROVE  b[i] = ByteOf(a, b, i)
        <5>1. i \in Nat \ {0} /\ i > Len(a)
          BY <3>1, <4>3, <1>1
        <5> QED
          BY <5>1, <4>3, Bytes
      <4>4. /\ SubSeq(b, d + 1, Len(b)) \in Seq(Byte)
            /\ Len(SubSeq(b, d + 1, Len(b))) = Len(b) - d
            /\ PieceFrom(a, b, d, SubSeq(b, d + 1, Len(b)))
        BY <4>1, <4>3, <1>1, LastPiece
      <4> QED
        BY <4>1, <4>2, <4>4
    <3>2. CASE ~(Len(a) < d)
      <4>1. Len(b) < d /\ Len(a) = l /\ d < Len(a)
        BY <3>2, <1>1, <1>3, <1>4, <1>14
      <4>2. r = SubSeq(a, d + 1, Len(a))
        BY <3>2, <1>2 DEF Rest, RestFrom
      <4>3. ASSUME NEW i \in Nat, d < i, i <= Len(a)
            PROVE  a[i] = ByteOf(a, b, i)
        <5>1. i \in Nat \ {0} /\ i > Len(b)
          BY <4>1, <4>3, <1>1
        <5> QED
          BY <5>1, <4>3, Bytes
      <4>4. /\ SubSeq(a, d + 1, Len(a)) \in Seq(Byte)
            /\ Len(SubSeq(a, d + 1, Len(a))) = Len(a) - d
            /\ PieceFrom(a, b, d, SubSeq(a, d + 1, Len(a)))
        BY <4>1, <4>3, <1>1, LastPiece
      <4> QED
        BY <4>1, <4>2, <4>4
    <3> QED
      BY <3>1, <3>2
  <2>6. /\ Multiply(a, b) \in File /\ Len(Multiply(a, b)) = l
        /\ \A i \in 1..l : Multiply(a, b)[i] = ByteOf(a, b, i)
    <3>1. PICK k \in Nat : k = l - d
      BY <2>4
    <3> HIDE DEF r
    <3> QED
      BY <3>1, <2>4, <2>5, <1>12
  <2>7. EndsAt(a, b, l)
    BY <2>2, <1>1, <1>2, <1>3, <1>4, <1>11 DEF EndsAt, l
  <2> QED
    BY <2>6, <2>7, <1>4
<1> QED
  BY <1>13, <1>14, <1>2, <1>4

------------------------------------------------------------------------------
(* Undoing *)

(* The product of two texts without NULs ends with the longer of them, or, *)
(* if they are of one length, maybe earlier.                               *)
LEMMA ProductOfTexts ==
  ASSUME NEW a \in File, NEW b \in File, NulFree(a), NulFree(b)
  PROVE  \E o \in File :
           /\ o = Multiply(a, b) /\ Len(o) <= Most(Len(a), Len(b))
           /\ Len(a) < Len(b) => Len(o) = Len(b)
           /\ Len(b) < Len(a) => Len(o) = Len(a)
           /\ \A i \in Nat \ {0} : At(o, i) = ByteOf(a, b, i)
<1>1. Len(a) \in Nat /\ Len(b) \in Nat
  BY DEF File
<1>2. EndsClear(a, b)
  <2>1. SUFFICES ASSUME NEW i \in Nat, Least(Len(a), Len(b)) < i,
                        i <= Most(Len(a), Len(b))
                 PROVE  ByteOf(a, b, i) # NUL
    BY DEF EndsClear
  <2>2. i \in Nat \ {0}
    BY <2>1, <1>1 DEF Least
  <2>3. \/ i > Len(a) /\ i \in 1..Len(b)
        \/ i > Len(b) /\ i \in 1..Len(a)
    BY <2>1, <2>2, <1>1 DEF Least, Most
  <2> QED
    BY <2>2, <2>3, Bytes DEF NulFree
<1>3. PICK e \in Nat : /\ EndsAt(a, b, e)
                       /\ Multiply(a, b) \in File
                       /\ Len(Multiply(a, b)) = e
                       /\ \A i \in 1..e : Multiply(a, b)[i] = ByteOf(a, b, i)
  BY <1>2, ProductInOne
<1>4. PICK o \in File : o = Multiply(a, b)
  BY <1>3
<1>5. Len(o) = e /\ \A i \in 1..e : o[i] = ByteOf(a, b, i)
  BY <1>3, <1>4
<1>6. /\ e <= Most(Len(a), Len(b))
      /\ \A i \in Nat : i > e => ByteOf(a, b, i) = NUL
  BY <1>3 DEF EndsAt
<1>7. \A i \in Nat \ {0} : At(o, i) = ByteOf(a, b, i)
  BY <1>5, <1>6 DEF At
<1>8. ASSUME Len(a) < Len(b)
      PROVE  e = Len(b)
  <2>1. Len(b) \in Nat \ {0} /\ Len(b) > Len(a) /\ Len(b) \in 1..Len(b)
    BY <1>1, <1>8
  <2>2. ByteOf(a, b, Len(b)) # NUL
    BY <2>1, Bytes DEF NulFree
  <2>3. ~(Len(b) > e)
    BY <2>2, <1>1, <1>6
  <2> QED
    BY <2>3, <1>1, <1>6, <1>8 DEF Most
<1>9. ASSUME Len(b) < Len(a)
      PROVE  e = Len(a)
  <2>1. Len(a) \in Nat \ {0} /\ Len(a) > Len(b) /\ Len(a) \in 1..Len(a)
    BY <1>1, <1>9
  <2>2. ByteOf(a, b, Len(a)) # NUL
    BY <2>1, Bytes DEF NulFree
  <2>3. ~(Len(a) > e)
    BY <2>2, <1>1, <1>6
  <2> QED
    BY <2>3, <1>1, <1>6, <1>9 DEF Most
<1> QED
  BY <1>4, <1>5, <1>6, <1>7, <1>8, <1>9

(* Each byte of the first file cancels itself.                             *)
LEMMA Cancels ==
  ASSUME NEW a \in File, NEW b \in File, NEW o \in File, NEW i \in Nat \ {0},
         At(o, i) = ByteOf(a, b, i)
  PROVE  ByteOf(a, o, i) = At(b, i)
<1>1. At(a, i) \in Byte /\ At(b, i) \in Byte
  BY Bytes
<1>2. \A x, y \in Byte : Xor(x, Xor(x, y)) = y
  BY DEF Xor, Byte
<1> QED
  BY <1>1, <1>2 DEF ByteOf

(* The whole product is read: what comes back is the second file, and NULs *)
(* behind it as far as both have whole blocks.                             *)
LEMMA PadsAgain ==
  ASSUME NEW a \in File, NEW b \in File, NulFree(a), NulFree(b)
  PROVE  Multiply(a, Multiply(a, b)) =
           Padded(b, (Len(a) \div BlockSize) * BlockSize)
<1>1. Len(a) \in Nat /\ Len(b) \in Nat /\ BlockSize \in Nat \ {0}
  BY BlockAssumption DEF File
<1>2. PICK o \in File :
        /\ o = Multiply(a, b) /\ Len(o) <= Most(Len(a), Len(b))
        /\ Len(a) < Len(b) => Len(o) = Len(b)
        /\ Len(b) < Len(a) => Len(o) = Len(a)
        /\ \A i \in Nat \ {0} : At(o, i) = ByteOf(a, b, i)
  BY ProductOfTexts
<1>3. Len(o) \in Nat
  BY DEF File
<1>4. \A i \in Nat \ {0} : /\ ByteOf(a, o, i) = At(b, i)
                           /\ i <= Len(b) => At(b, i) # NUL
                           /\ i > Len(b) => At(b, i) = NUL
  BY <1>1, <1>2, Cancels, Bytes DEF NulFree
<1>5. EndsClear(a, o)
  <2>1. SUFFICES ASSUME NEW i \in Nat, Least(Len(a), Len(o)) < i,
                        i <= Most(Len(a), Len(o))
                 PROVE  ByteOf(a, o, i) # NUL
    BY DEF EndsClear
  <2>2. i \in Nat \ {0} /\ i <= Len(b)
    BY <2>1, <1>1, <1>2, <1>3 DEF Least, Most
  <2> QED
    BY <2>2, <1>4
<1>6. PICK e \in Nat, u \in File :
        /\ EndsAt(a, o, e) /\ u = Multiply(a, o) /\ Len(u) = e
        /\ \A i \in 1..e : u[i] = ByteOf(a, o, i)
  BY <1>5, ProductInOne
<1>7. PICK n \in Nat : n = FullBlocks(a, o) * BlockSize
  <2>1. FullBlocks(a, o) \in Nat
    BY FullBlocksIs
  <2>2. FullBlocks(a, o) * BlockSize \in Nat
    BY <2>1, <1>1
  <2> QED
    BY <2>2
<1>8. /\ e >= n
      /\ e > n => ByteOf(a, o, e) # NUL
      /\ \A i \in Nat : i > e => ByteOf(a, o, i) = NUL
  BY <1>6, <1>7 DEF EndsAt
<1>9. e >= Len(b) /\ (e = n \/ e = Len(b))
  <2>1. ASSUME Len(b) > e
        PROVE  FALSE
    BY <2>1, <1>1, <1>4, <1>8
  <2>2. ASSUME e > n
        PROVE  e <= Len(b)
    BY <2>2, <1>1, <1>4, <1>8
  <2> QED
    BY <2>1, <2>2, <1>1, <1>8
<1>10. PICK q \in Nat, m \in Nat :
         /\ q = Len(a) \div BlockSize /\ m = q * BlockSize
         /\ m <= Len(a) /\ Len(a) < (q + 1) * BlockSize
  <2>1. PICK q \in Nat : /\ q = Len(a) \div BlockSize /\ q * BlockSize <= Len(a)
                         /\ Len(a) < (q + 1) * BlockSize
    BY <1>1, Quotients
  <2>2. q * BlockSize \in Nat
    BY <1>1
  <2> QED
    BY <2>1, <2>2
<1>11. e = IF m > Len(b) THEN m ELSE Len(b)
  <2>1. CASE Len(o) >= Len(a)
    <3>1. q * BlockSize <= Len(o)
      BY <2>1, <1>1, <1>3, <1>10
    <3>2. q = FullBlocks(a, o)
      BY <3>1, <1>10, FullBlocksIs
    <3>3. m = n
      BY <3>2, <1>7, <1>10
    <3> QED
      BY <3>3, <1>1, <1>8, <1>9
  <2>2. CASE Len(o) < Len(a)
    <3>1. Len(a) = Len(b)
      BY <2>2, <1>1, <1>2, <1>3
    <3>2. n <= Len(a)
      BY <1>7, FullBlocksIs
    <3> QED
      BY <3>1, <3>2, <1>1, <1>8, <1>9, <1>10
  <2> QED
    BY <2>1, <2>2, <1>1, <1>3
<1>12. u \in Seq(Byte) /\ \A i \in 1..e : u[i] = At(b, i)
  BY <1>4, <1>6 DEF File
<1>13. u = [i \in 1..e |-> At(b, i)]
  BY <1>6, <1>12
<1> QED
  BY <1>2, <1>6, <1>10, <1>11, <1>13 DEF Padded

(* The product is read up to byte n: what comes back is the second file up *)
(* to there, and then the first.                                           *)
LEMMA StopsThere ==
  ASSUME NEW a \in File, NEW b \in File, NulFree(a), NulFree(b),
         NEW d \in File, NEW n \in Nat, n < Len(Multiply(a, b)), Len(d) = n,
         \A i \in 1..n : d[i] = Multiply(a, b)[i]
  PROVE  Multiply(a, d) =
           [i \in 1..n |-> At(b, i)] \o SubSeq(a, n + 1, Len(a))
<1>1. Len(a) \in Nat /\ Len(b) \in Nat /\ a \in Seq(Byte)
  BY DEF File
<1>2. PICK o \in File :
        /\ o = Multiply(a, b) /\ Len(o) <= Most(Len(a), Len(b))
        /\ Len(a) < Len(b) => Len(o) = Len(b)
        /\ Len(b) < Len(a) => Len(o) = Len(a)
        /\ \A i \in Nat \ {0} : At(o, i) = ByteOf(a, b, i)
  BY ProductOfTexts
<1>3. Len(o) \in Nat /\ n < Len(o)
  BY <1>2 DEF File
<1>4. \A i \in 1..n : ByteOf(a, d, i) = At(b, i)
  <2>1. SUFFICES ASSUME NEW i \in 1..n
                 PROVE  ByteOf(a, d, i) = At(b, i)
    OBVIOUS
  <2>2. i \in Nat \ {0} /\ At(d, i) = At(o, i)
    BY <1>2, <1>3 DEF At
  <2> QED
    BY <2>2, <1>2, Cancels
<1>5. \A i \in Nat \ {0} : i > n => ByteOf(a, d, i) = At(a, i)
  BY Bytes
<1>6. \A i \in Nat \ {0} : /\ i <= Len(a) => At(a, i) = a[i] /\ At(a, i) # NUL
                           /\ i <= Len(b) => At(b, i) # NUL
  BY <1>1, Bytes DEF NulFree
<1>7. Len(a) <= n => n < Len(b)
  BY <1>1, <1>2, <1>3 DEF Most
<1>8. EndsClear(a, d)
  <2>1. SUFFICES ASSUME NEW i \in Nat, Least(Len(a), n) < i, i <= Most(Len(a), n)
                 PROVE  ByteOf(a, d, i) # NUL
    BY DEF EndsClear
  <2>2. /\ i \in Nat \ {0}
        /\ \/ Len(a) <= n /\ i <= n /\ i <= Len(b)
           \/ i > n /\ i <= Len(a)
    BY <2>1, <1>1, <1>7 DEF Least, Most
  <2> QED
    BY <2>2, <1>4, <1>5, <1>6
<1>9. PICK e \in Nat, u \in File :
        /\ EndsAt(a, d, e) /\ u = Multiply(a, d) /\ Len(u) = e
        /\ \A i \in 1..e : u[i] = ByteOf(a, d, i)
  BY <1>8, ProductInOne
<1>10. /\ e <= Most(Len(a), n)
       /\ \A i \in Nat : i > e => ByteOf(a, d, i) = NUL
  BY <1>9 DEF EndsAt
<1>11. PICK k \in Nat : k = (IF n < Len(a) THEN Len(a) - n ELSE 0) /\ e = n + k
  <2>1. CASE n < Len(a)
    <3>1. ByteOf(a, d, Len(a)) # NUL
      BY <2>1, <1>1, <1>5, <1>6
    <3>2. e = Len(a)
      BY <3>1, <2>1, <1>1, <1>10 DEF Most
    <3>3. Len(a) - n \in Nat /\ e = n + (Len(a) - n)
      BY <3>2, <2>1, <1>1
    <3> QED
      BY <3>3, <2>1
  <2>2. CASE ~(n < Len(a))
    <3>1. n > 0 => ByteOf(a, d, n) # NUL
      BY <2>2, <1>1, <1>4, <1>6, <1>7
    <3>2. e = n
      BY <3>1, <2>2, <1>1, <1>10 DEF Most
    <3> QED
      BY <3>2, <2>2
  <2> QED
    BY <2>1, <2>2
<1>12. PICK r \in Seq(Byte) :
         /\ r = SubSeq(a, n + 1, Len(a)) /\ Len(r) = k
         /\ \A i \in 1..k : r[i] = a[n + i]
  <2>1. \A i \in (n + 1)..Len(a) : a[i] \in Byte
    BY <1>1
  <2>2. n + 1 \in Int /\ Len(a) \in Int
    BY <1>1
  <2>3. /\ SubSeq(a, n + 1, Len(a)) \in Seq(Byte)
        /\ Len(SubSeq(a, n + 1, Len(a))) =
             IF n + 1 <= Len(a) THEN Len(a) - (n + 1) + 1 ELSE 0
        /\ \A i \in 1..(Len(a) - (n + 1) + 1) :
             SubSeq(a, n + 1, Len(a))[i] = a[n + 1 + i - 1]
    BY <2>1, <2>2, SubSeqProperties
  <2>4. /\ (IF n + 1 <= Len(a) THEN Len(a) - (n + 1) + 1 ELSE 0) = k
        /\ 1..k \subseteq 1..(Len(a) - (n + 1) + 1)
        /\ \A i \in 1..k : n + 1 + i - 1 = n + i
    BY <1>1, <1>11
  <2>5. PICK r : r = SubSeq(a, n + 1, Len(a))
    OBVIOUS
  <2>6. r \in Seq(Byte) /\ Len(r) = k
    BY <2>3, <2>4, <2>5
  <2>7. ASSUME NEW i \in 1..k
        PROVE  r[i] = a[n + i]
    <3>1. i \in 1..(Len(a) - (n + 1) + 1) /\ n + 1 + i - 1 = n + i
      BY <2>4
    <3> QED
      BY <3>1, <2>3, <2>5
  <2> QED
    BY <2>5, <2>6, <2>7
<1>13. PICK s \in Seq(Byte) : /\ s = [i \in 1..n |-> At(b, i)] /\ Len(s) = n
                              /\ \A i \in 1..n : s[i] = At(b, i)
  <2>1. \A i \in 1..n : At(b, i) \in Byte
    BY Bytes
  <2>2. PICK s : s = [i \in 1..n |-> At(b, i)]
    OBVIOUS
  <2>3. s \in Seq(Byte) /\ Len(s) = n /\ \A i \in 1..n : s[i] = At(b, i)
    BY <2>1, <2>2
  <2> QED
    BY <2>2, <2>3
<1>14. /\ s \o r \in Seq(Byte) /\ Len(s \o r) = Len(s) + Len(r)
       /\ \A i \in 1..Len(s \o r) : (s \o r)[i] = ByteOf(a, d, i)
  <2>1. PieceFrom(a, d, 0, s)
    BY <1>4, <1>13 DEF PieceFrom
  <2>2. ASSUME NEW i \in 1..k
        PROVE  r[i] = ByteOf(a, d, n + i)
    <3>1. n + i \in Nat \ {0} /\ n + i > n /\ n + i <= Len(a)
      BY <1>1, <1>11
    <3> QED
      BY <3>1, <1>5, <1>6, <1>12
  <2>3. PieceFrom(a, d, Len(s), r)
    BY <2>2, <1>12, <1>13 DEF PieceFrom
  <2>4. /\ s \o r \in Seq(Byte) /\ Len(s \o r) = Len(s) + Len(r)
        /\ PieceFrom(a, d, 0, s \o r)
    BY <2>1, <2>3, Pieces
  <2> QED
    BY <2>4, FirstPiece
<1>15. s \o r = u
  <2>1. u \in Seq(Byte)
    BY DEF File
  <2>2. Len(s \o r) = e
    BY <1>11, <1>12, <1>13, <1>14
  <2>3. Len(s \o r) = Len(u) /\ \A i \in 1..Len(s \o r) : (s \o r)[i] = u[i]
    BY <2>2, <1>9, <1>14
  <2> QED
    BY <2>1, <2>3, <1>14, SameSequence
<1> QED
  BY <1>9, <1>12, <1>13, <1>15

(* Files of as many whole blocks, with no NUL at their ends: what is more, *)
(* the product is such a file again.                                       *)
LEMMA FittingProduct ==
  ASSUME NEW q \in Nat, NEW a, NEW b, Fits(a, q), Fits(b, q)
  PROVE  /\ Fits(Multiply(a, b), q)
         /\ \A i \in Nat \ {0} : At(Multiply(a, b), i) = ByteOf(a, b, i)
<1>1. /\ a \in File /\ b \in File /\ Len(a) \in Nat /\ Len(b) \in Nat
      /\ BlockSize \in Nat \ {0}
  BY BlockAssumption DEF Fits, File
<1>2. PICK n \in Nat, d \in Nat :
        n = q * BlockSize /\ d = (q + 1) * BlockSize /\ d = n + BlockSize
  <2>1. q * BlockSize \in Nat /\ (q + 1) * BlockSize = q * BlockSize + BlockSize
    BY <1>1
  <2> QED
    BY <2>1, <1>1
<1>3. n <= Len(a) /\ Len(a) < d /\ n <= Len(b) /\ Len(b) < d
  BY <1>1, <1>2, Quotients DEF Fits
<1>4. q = FullBlocks(a, b)
  BY <1>1, <1>2, <1>3, FullBlocksIs
<1>5. Most(Len(a), Len(b)) \in Nat /\ Most(Len(a), Len(b)) < d
  BY <1>1, <1>3 DEF Most
<1>6. PICK e \in Nat, o \in File :
        /\ EndsAt(a, b, e) /\ o = Multiply(a, b) /\ Len(o) = e
        /\ \A i \in 1..e : o[i] = ByteOf(a, b, i)
  <2>1. Most(Len(a), Len(b)) <= (FullBlocks(a, b) + 1) * BlockSize
    BY <1>2, <1>4, <1>5
  <2> QED
    BY <2>1, <1>1, ProductInOne
<1>7. /\ n <= e /\ e < d
      /\ e > n => ByteOf(a, b, e) # NUL
      /\ \A i \in Nat : i > e => ByteOf(a, b, i) = NUL
  <2>1. FullBlocks(a, b) * BlockSize = n
    BY <1>2, <1>4
  <2> QED
    BY <2>1, <1>5, <1>6 DEF EndsAt
<1>8. Fits(o, q)
  <2>1. e \div BlockSize = q
    BY <1>1, <1>2, <1>7, QuotientIs
  <2>2. e > n => o[e] # NUL
    BY <1>6, <1>7
  <2> QED
    BY <2>1, <2>2, <1>2, <1>6 DEF Fits
<1>9. \A i \in Nat \ {0} : At(o, i) = ByteOf(a, b, i)
  BY <1>6, <1>7 DEF At
<1> QED
  BY <1>6, <1>8, <1>9

(* So the product of the first file and the product is the second, to the  *)
(* byte.                                                                   *)
LEMMA FittingUndone ==
  ASSUME NEW q \in Nat, NEW a, NEW b, Fits(a, q), Fits(b, q)
  PROVE  Multiply(a, Multiply(a, b)) = b
<1>1. PICK o : /\ o = Multiply(a, b) /\ Fits(o, q)
               /\ \A i \in Nat \ {0} : At(o, i) = ByteOf(a, b, i)
  BY FittingProduct
<1>2. PICK u : /\ u = Multiply(a, o) /\ Fits(u, q)
               /\ \A i \in Nat \ {0} : At(u, i) = ByteOf(a, o, i)
  BY <1>1, FittingProduct
<1>3. a \in File /\ b \in File /\ o \in File /\ u \in File
  BY <1>1, <1>2 DEF Fits
<1>4. \A i \in Nat \ {0} : At(u, i) = At(b, i)
  BY <1>1, <1>2, <1>3, Cancels
<1>5. PICK l \in Nat, m \in Nat, n \in Nat :
        l = Len(u) /\ m = Len(b) /\ n = q * BlockSize /\ n <= l /\ n <= m
  <2>1. Len(u) \in Nat /\ Len(b) \in Nat /\ BlockSize \in Nat \ {0}
    BY <1>3, BlockAssumption DEF File
  <2>2. q * BlockSize \in Nat
    BY <2>1
  <2>3. q * BlockSize <= Len(u) /\ q * BlockSize <= Len(b)
    BY <1>2, <2>1, Quotients DEF Fits
  <2> QED
    BY <2>1, <2>2, <2>3
<1>6. l > n => u[l] # NUL
  BY <1>2, <1>5 DEF Fits
<1>7. m > n => b[m] # NUL
  BY <1>5 DEF Fits
<1>8. ~(l < m)
  <2>1. SUFFICES ASSUME l < m
                 PROVE  FALSE
    OBVIOUS
  <2>2. At(u, m) = NUL /\ At(b, m) = b[m] /\ m \in Nat \ {0} /\ m > n
    BY <2>1, <1>5 DEF At
  <2> QED
    BY <2>2, <1>4, <1>7
<1>9. ~(m < l)
  <2>1. SUFFICES ASSUME m < l
                 PROVE  FALSE
    OBVIOUS
  <2>2. At(b, l) = NUL /\ At(u, l) = u[l] /\ l \in Nat \ {0} /\ l > n
    BY <2>1, <1>5 DEF At
  <2> QED
    BY <2>2, <1>4, <1>6
<1>10. l = m
  BY <1>8, <1>9
<1>11. \A i \in 1..l : u[i] = b[i]
  <2>1. \A i \in 1..l : i \in Nat \ {0} /\ At(u, i) = u[i] /\ At(b, i) = b[i]
    BY <1>5, <1>10 DEF At
  <2> QED
    BY <2>1, <1>4
<1>12. u \in Seq(Byte) /\ b \in Seq(Byte) /\ Len(u) = Len(b)
  BY <1>3, <1>5, <1>10 DEF File
<1>13. u = b
  BY <1>5, <1>11, <1>12, SameSequence
<1> QED
  BY <1>1, <1>2, <1>13

LEMMA Prefix ==
  ASSUME NEW f \in Seq(Byte), NEW n \in Nat, n <= Len(f)
  PROVE  /\ SubSeq(f, 1, n) \in Seq(Byte) /\ Len(SubSeq(f, 1, n)) = n
         /\ \A i \in 1..n : SubSeq(f, 1, n)[i] = f[i]
  OBVIOUS

(* A text is read up to the first byte that ends it.                       *)
LEMMA TextUpToIs ==
  ASSUME NEW f \in File, NEW E
  PROVE  /\ TextUpTo(f, E) \in File /\ Len(TextUpTo(f, E)) \in Nat
         /\ \/ TextUpTo(f, E) = f
            \/ \E n \in Nat :
                 /\ n < Len(f) /\ TextUpTo(f, E) = SubSeq(f, 1, n)
                 /\ Len(TextUpTo(f, E)) = n
                 /\ \A i \in 1..n : TextUpTo(f, E)[i] = f[i]
<1> DEFINE I == {i \in 1..Len(f) : f[i] \in E}
<1>1. f \in Seq(Byte) /\ Len(f) \in Nat
  BY DEF File
<1>2. SelectInSeq(f, LAMBDA b : b \in E) = IF I # {} THEN Min(I) ELSE 0
  BY DEF SelectInSeq
<1>3. TextUpTo(f, E) = IF I # {} THEN
                  IF Min(I) = 0 THEN f ELSE SubSeq(f, 1, Min(I) - 1)
                ELSE f
  BY <1>2 DEF TextUpTo
<1>4. CASE I = {}
  <2>1. TextUpTo(f, E) = f
    <3> HIDE DEF I
    <3> QED
      BY <1>3, <1>4
  <2> QED
    BY <2>1, <1>1 DEF File
<1>5. CASE I # {}
  <2>1. I \in SUBSET Nat
    OBVIOUS
  <2>2. \E n \in I : \A m \in I : n <= m
    <3> HIDE DEF I
    <3> QED
      BY <1>5, <2>1, LeastOne
  <2>3. Min(I) \in I
    BY <2>2 DEF Min
  <2>4. PICK k \in 1..Len(f) : k = Min(I)
    BY <2>3
  <2> HIDE DEF I
  <2>5. PICK n \in Nat : n = k - 1 /\ n < Len(f) /\ k # 0
    <3>1. k - 1 \in Nat /\ k - 1 < Len(f) /\ k # 0
      BY <1>1
    <3> QED
      BY <3>1
  <2>6. TextUpTo(f, E) = SubSeq(f, 1, n)
    BY <1>3, <1>5, <2>4, <2>5
  <2>7. /\ SubSeq(f, 1, n) \in Seq(Byte) /\ Len(SubSeq(f, 1, n)) = n
        /\ \A i \in 1..n : SubSeq(f, 1, n)[i] = f[i]
    BY <1>1, <2>5, Prefix
  <2> QED
    BY <2>5, <2>6, <2>7 DEF File
<1> QED
  BY <1>4, <1>5
==============================================================================
