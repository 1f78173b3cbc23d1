-------------------------- MODULE FileTransferProofs --------------------------
(***************************************************************************)
(* For any files, threads, number of chunks and of transfers: what is      *)
(* logged as transferred is whole, and nothing that can be read stays in   *)
(* _files_in_process.                                                      *)
(*                                                                         *)
(* The receiver finds a chunk's place by its path alone.  So its entries   *)
(* say nothing without the messages on their way: what the sender sends    *)
(* next must be what follows the last of them, and the first of them what  *)
(* the entry lacks, for each path on its own.                              *)
(***************************************************************************)
EXTENDS FileTransfer, FiniteSetTheorems, SequenceTheorems, TLAPS

(* The positions of q, behind i, with the messages of file p.              *)
After(q, p, i) == {j \in 1..Len(q) : q[j].path = p /\ i < j}
FirstOf(S, j) == j \in S /\ \A l \in S : j <= l

Quiet(p) == \A s \in Senders : ~ Sends(s, p)

(* How far a transfer has come: the last chunk sent, and the revision it   *)
(* is of, which counts unless the file was written meanwhile.              *)
Stage == [sent : Nat, of : Rev, torn : BOOLEAN]
Dated(m) == m.type # "EndOfFile"
Age(m) == IF m.type = "FileHeader" THEN m.mtime ELSE m.data[2]
StageOf(m) ==
  [sent |-> IF m.type = "FileHeader" THEN 0 ELSE m.data[3],
   of |-> Age(m), torn |-> m.torn]

(* Thread s has sent k chunks: it will send the next one, or it has come   *)
(* to an end of the file.                                                  *)
Ends(p, k, torn) == k = Chunks \/ (k >= 1 /\ (p \in Cut \/ torn))
HasSent(s, k) ==
  \/ sending[s].next = k + 1
  \/ sending[s].next = 0 /\ k = 0
  \/ sending[s].next = Chunks + 1 /\ Ends(sending[s].path, k, sending[s].torn)

IsAt(s, x) ==
  /\ HasSent(s, x.sent)
  /\ x.torn => sending[s].torn
  /\ ~ sending[s].torn => rev[sending[s].path] = x.of

Awaits(p, x) ==
  \/ \E s \in Senders : Sends(s, p) /\ IsAt(s, x)
  \/ x.sent = 0 /\ p \in Unreadable /\ Quiet(p)

(* Message m may come at stage x: a header may be all there is, if the     *)
(* file did not open.                                                      *)
Fits(m, p, x) ==
  \/ /\ m.type = "FileTransfer" /\ m.data[1] = p /\ m.data[3] = x.sent + 1
     /\ x.torn => m.torn
     /\ ~ m.torn => m.data[2] = x.of
  \/ m.type = "EndOfFile" /\ (x.torn => m.torn) /\ Ends(p, x.sent, m.torn)
  \/ m.type = "FileHeader" /\ x.sent = 0 /\ p \in Unreadable

(* Behind i, stage x is followed by what fits. *)
GoesOn(p, i, x) ==
  /\ \A j \in After(net, p, i) :
       FirstOf(After(net, p, i), j) => Fits(net[j], p, x)
  /\ After(net, p, i) = {} => Awaits(p, x)

(* After an EndOfFile comes a header, or nothing yet.                      *)
BeginsAnew(p, i) ==
  /\ \A j \in After(net, p, i) :
       FirstOf(After(net, p, i), j) => net[j].type = "FileHeader"
  /\ After(net, p, i) = {} => Quiet(p)

Continues(p, i) ==
  LET m == net[i] IN
  /\ m.type = "FileTransfer" => m.parses \/ p \in NotUtf8
  /\ Dated(m) => GoesOn(p, i, StageOf(m))
  /\ ~ Dated(m) => BeginsAnew(p, i)

StreamOf(p) == \A i \in 1..Len(net) : net[i].path = p => Continues(p, i)

OneSender(p) ==
  \A s, t \in Senders : Sends(s, p) /\ Sends(t, p) => s = t

(* The entry has chunks of those sent, in order, and of a file of UTF-8    *)
(* all of them.  If nothing has written the file meanwhile, they are of    *)
(* one revision, not older than the entry's mtime.                         *)
Holds(e, x) ==
  /\ \A i \in 1..Len(e.data) :
       /\ e.data[i][1] = e.path /\ e.data[i][3] <= x.sent
       /\ \A j \in 1..(i - 1) : e.data[j][3] < e.data[i][3]
       /\ e.path \notin NotUtf8 => e.data[i][3] = i
       /\ ~ x.torn => e.data[i][2] = x.of
  /\ e.path \notin NotUtf8 => Len(e.data) = x.sent
  /\ ~ x.torn => e.mtime <= x.of
  /\ ~ x.torn /\ e.path \notin Unreadable => e.mtime = x.of

(* Only the first entry of a path gets data, and it lacks what comes.      *)
EntriesOf(p) ==
  /\ \A i, j \in EntriesFor(p) :
       i < j => p \in Unreadable /\ entries[j].data = <<>>
  /\ \A i \in EntriesFor(p) : FirstOf(EntriesFor(p), i) =>
       \E x \in Stage : Holds(entries[i], x) /\ GoesOn(p, 0, x)

TransferredOf(p) ==
  \A t \in transferred : t.path = p =>
    \E x \in Stage : /\ Holds(t, x) /\ x.torn = t.torn
                     /\ Ends(p, x.sent, t.torn)

WholeOf(p) ==
  StreamOf(p) /\ OneSender(p) /\ EntriesOf(p) /\ TransferredOf(p)
WholeInv == \A p \in Paths \ mixed : WholeOf(p)

(* The revisions of a file never go back along the stream, as far as they  *)
(* were read while nothing wrote the file.                                 *)
AgesInv ==
  /\ \A i \in 1..Len(net) : Dated(net[i]) =>
       /\ Age(net[i]) <= rev[net[i].path]
       /\ \A j \in 1..Len(net) :
            i < j /\ Dated(net[j]) /\ ~ net[j].torn /\ net[j].path = net[i].path
              => Age(net[i]) <= Age(net[j])
  /\ \A e \in 1..Len(entries) :
       /\ entries[e].mtime <= rev[entries[e].path]
       /\ \A j \in 1..Len(net) :
            Dated(net[j]) /\ ~ net[j].torn /\ net[j].path = entries[e].path
              => entries[e].mtime <= Age(net[j])

(* How many entries there may be along the stream: a header makes one, an  *)
(* EndOfFile takes one if there is one, and at the end as many may be left *)
(* as there are threads that will still send an EndOfFile.                 *)
Open(p) == {s \in Senders : Sends(s, p)}

Balances(p, h) ==
  /\ Cardinality(EntriesFor(p)) <= h[0]
  /\ h[Len(net)] = Cardinality(Open(p))
  /\ \A i \in 1..Len(net) :
       IF net[i].path # p \/ net[i].type = "FileTransfer"
       THEN h[i - 1] <= h[i]
       ELSE IF net[i].type = "FileHeader" THEN h[i - 1] + 1 <= h[i]
       ELSE h[i - 1] <= h[i] + 1

BalanceOf(p) ==
  /\ IsFiniteSet(Open(p))
  /\ \E h \in [0..Len(net) -> Nat] : Balances(p, h)
BalanceInv == \A p \in Paths \ Unreadable : BalanceOf(p)

------------------------------------------------------------------------------
(* Sequences *)

(* Where an entry that stays is found after one is erased.                 *)
Moved(i, j) == IF j < i THEN j ELSE j + 1

LEMMA ErasedElements ==
  ASSUME NEW S, NEW q \in Seq(S), NEW i \in 1..Len(q)
  PROVE  /\ Erased(q, i) \in Seq(S)
         /\ Len(Erased(q, i)) = Len(q) - 1
         /\ \A j \in 1..Len(Erased(q, i)) :
              Moved(i, j) \in 1..Len(q) /\ Erased(q, i)[j] = q[Moved(i, j)]
<1> DEFINE a == SubSeq(q, 1, i - 1)
           b == SubSeq(q, i + 1, Len(q))
<1>1. Len(q) \in Nat /\ i \in 1..Len(q)
  OBVIOUS
<1>2. /\ a \in Seq(S) /\ Len(a) = i - 1
      /\ \A j \in 1..(i - 1) : a[j] = q[j]
  BY <1>1
<1>3. /\ b \in Seq(S) /\ Len(b) = Len(q) - i
      /\ \A j \in 1..(Len(q) - i) : b[j] = q[i + j]
  BY <1>1
<1>4. Erased(q, i) = a \o b
  BY DEF Erased
<1> HIDE DEF a, b
<1>5. /\ a \o b \in Seq(S) /\ Len(a \o b) = Len(q) - 1
      /\ \A j \in 1..(Len(q) - 1) :
           (a \o b)[j] = IF j <= i - 1 THEN a[j] ELSE b[j - (i - 1)]
  <2>1. Len(a) + Len(b) = Len(q) - 1
    BY <1>1, <1>2, <1>3
  <2>2. /\ a \o b \in Seq(S) /\ Len(a \o b) = Len(a) + Len(b)
        /\ \A j \in 1..(Len(a) + Len(b)) :
             (a \o b)[j] = IF j <= Len(a) THEN a[j] ELSE b[j - Len(a)]
    BY <1>2, <1>3, ConcatProperties
  <2> QED
    BY <2>1, <2>2, <1>2
<1>6. ASSUME NEW j \in 1..(Len(q) - 1)
      PROVE  Moved(i, j) \in 1..Len(q) /\ (a \o b)[j] = q[Moved(i, j)]
  <2>1. CASE j < i
    BY <2>1, <1>1, <1>2, <1>5 DEF Moved
  <2>2. CASE ~(j < i)
    <3>1. j - (i - 1) \in 1..(Len(q) - i) /\ i + (j - (i - 1)) = j + 1
      BY <2>2, <1>1
    <3> QED
      BY <3>1, <2>2, <1>1, <1>3, <1>5 DEF Moved
  <2> QED
    BY <2>1, <2>2
<1> QED
  BY <1>4, <1>5, <1>6

(* What is at the front of the rest of the stream was one place behind.    *)
LEMMA AfterTail ==
  ASSUME NEW S, NEW q \in Seq(S), q # <<>>, NEW p, NEW i \in Nat
  PROVE  /\ After(Tail(q), p, i) = {} => After(q, p, i + 1) = {}
         /\ \A j \in After(Tail(q), p, i) :
              FirstOf(After(Tail(q), p, i), j) =>
                /\ j + 1 \in After(q, p, i + 1)
                /\ FirstOf(After(q, p, i + 1), j + 1)
                /\ Tail(q)[j] = q[j + 1]
<1>1. Len(Tail(q)) = Len(q) - 1 /\ Len(q) \in Nat
  OBVIOUS
<1>2. \A j \in 1..(Len(q) - 1) : Tail(q)[j] = q[j + 1]
  OBVIOUS
<1>3. \A j \in 1..(Len(q) - 1) :
        j \in After(Tail(q), p, i) <=> j + 1 \in After(q, p, i + 1)
  BY <1>1, <1>2 DEF After
<1>4. \A l \in After(q, p, i + 1) : l - 1 \in After(Tail(q), p, i)
  BY <1>1, <1>2 DEF After
<1>5. After(Tail(q), p, i) = {} => After(q, p, i + 1) = {}
  BY <1>4
<1>6. ASSUME NEW j \in After(Tail(q), p, i), FirstOf(After(Tail(q), p, i), j)
      PROVE  /\ j + 1 \in After(q, p, i + 1)
             /\ FirstOf(After(q, p, i + 1), j + 1)
             /\ Tail(q)[j] = q[j + 1]
  <2>1. j \in 1..(Len(q) - 1)
    BY <1>6, <1>1 DEF After
  <2>2. j + 1 \in After(q, p, i + 1)
    BY <2>1, <1>3, <1>6
  <2>3. ASSUME NEW l \in After(q, p, i + 1)
        PROVE  j + 1 <= l
    <3>1. l - 1 \in After(Tail(q), p, i) /\ l \in Nat
      BY <1>4 DEF After
    <3>2. j <= l - 1
      BY <3>1, <1>6 DEF FirstOf
    <3> QED
      BY <3>1, <3>2, <2>1
  <2> QED
    BY <2>1, <2>2, <2>3, <1>2 DEF FirstOf
<1> QED
  BY <1>5, <1>6

(* A new message is next only where nothing was.                           *)
LEMMA AfterAppend ==
  ASSUME NEW S, NEW q \in Seq(S), NEW m \in S, NEW p, NEW i \in 0..Len(q)
  PROVE  /\ After(Append(q, m), p, i) = {} =>
              After(q, p, i) = {} /\ m.path # p
         /\ \A j \in After(Append(q, m), p, i) :
              FirstOf(After(Append(q, m), p, i), j) =>
                \/ /\ j \in After(q, p, i) /\ FirstOf(After(q, p, i), j)
                   /\ Append(q, m)[j] = q[j]
                \/ /\ After(q, p, i) = {} /\ m.path = p
                   /\ Append(q, m)[j] = m
<1>1. /\ Len(Append(q, m)) = Len(q) + 1 /\ Len(q) \in Nat
      /\ Append(q, m)[Len(q) + 1] = m
      /\ \A j \in 1..Len(q) : Append(q, m)[j] = q[j]
  OBVIOUS
<1>2. \A j \in 1..Len(q) :
        j \in After(q, p, i) <=> j \in After(Append(q, m), p, i)
  BY <1>1 DEF After
<1>3. m.path = p <=> Len(q) + 1 \in After(Append(q, m), p, i)
  BY <1>1 DEF After
<1>4. After(q, p, i) \subseteq 1..Len(q)
  BY DEF After
<1>5. After(Append(q, m), p, i) = {} => After(q, p, i) = {} /\ m.path # p
  BY <1>2, <1>3, <1>4
<1>6. ASSUME NEW j \in After(Append(q, m), p, i),
             FirstOf(After(Append(q, m), p, i), j)
      PROVE  \/ /\ j \in After(q, p, i) /\ FirstOf(After(q, p, i), j)
                /\ Append(q, m)[j] = q[j]
             \/ /\ After(q, p, i) = {} /\ m.path = p
                /\ Append(q, m)[j] = m
  <2>1. CASE j \in 1..Len(q)
    BY <2>1, <1>1, <1>2, <1>4, <1>6 DEF FirstOf
  <2>2. CASE j = Len(q) + 1
    <3>1. ASSUME NEW l \in After(q, p, i)
          PROVE  FALSE
      <4>1. l \in 1..Len(q) /\ l \in After(Append(q, m), p, i)
        BY <1>2, <1>4
      <4>2. j <= l
        BY <4>1, <1>6 DEF FirstOf
      <4> QED
        BY <4>1, <4>2, <2>2, <1>1
    <3> QED
      BY <3>1, <2>2, <1>1, <1>3
  <2> QED
    BY <2>1, <2>2, <1>1 DEF After
<1> QED
  BY <1>5, <1>6

------------------------------------------------------------------------------
(* A set of natural numbers has a least one. *)
LEMMA LeastOne ==
  ASSUME NEW T \in SUBSET Nat, T # {}
  PROVE  \E n \in T : \A m \in T : n <= m
<1>1. PICK n \in T : \A m \in T : ~ (<<m, n>> \in OpToRel(<, Nat))
  BY NatLessThanWellFounded, WFMin
<1>2. \A m \in T : ~ (m < n)
  BY <1>1 DEF OpToRel
<1> QED
  BY <1>2

LEMMA FoundIsFirst ==
  ASSUME NEW p, EntriesFor(p) # {}
  PROVE  /\ First(EntriesFor(p)) \in EntriesFor(p)
         /\ FirstOf(EntriesFor(p), First(EntriesFor(p)))
<1>1. EntriesFor(p) \in SUBSET Nat
  BY DEF EntriesFor
<1>2. \E n \in EntriesFor(p) : \A m \in EntriesFor(p) : n <= m
  BY <1>1, LeastOne
<1> QED
  BY <1>2 DEF First, FirstOf

LEMMA Heads ==
  ASSUME TypeOK, net # <<>>
  PROVE  /\ Head(net) = net[1] /\ net[1] \in Msg /\ 1 \in 1..Len(net)
         /\ Tail(net) \in Seq(Msg)
         /\ Len(Tail(net)) = Len(net) - 1 /\ Len(net) \in Nat
         /\ \A i \in 1..(Len(net) - 1) : Tail(net)[i] = net[i + 1]
<1>1. net \in Seq(Msg)
  BY DEF TypeOK
<1> QED
  BY <1>1

LEMMA Headers ==
  ASSUME NEW m \in Msg
  PROVE  /\ m.path \in Paths /\ m.torn \in BOOLEAN
         /\ m.type \in {"FileHeader", "FileTransfer", "EndOfFile"}
         /\ m.type = "FileHeader" => m.mtime \in Rev
         /\ m.type = "FileTransfer" =>
              m.data \in Paths \X Rev \X (1..Chunks) /\ m.parses \in BOOLEAN
  BY DEF Msg, Chunk

LEMMA Files ==
  ASSUME TypeOK
  PROVE  /\ DOMAIN sending = Senders
         /\ Chunks \in Nat \ {0} /\ Idle \notin File
         /\ \A s \in Senders : sending[s] # Idle =>
              /\ sending[s] \in File
              /\ sending[s].path \in Paths /\ sending[s].torn \in BOOLEAN
              /\ sending[s].next \in 0..(Chunks + 1)
         /\ \A p \in Paths : rev[p] \in Rev /\ rev[p] \in Nat
  BY TransferAssumption DEF TypeOK, File, Rev

(* What is seen of a file is a revision it has had, the last one if        *)
(* nothing writes it.                                                      *)
LEMMA SeenRevisions ==
  ASSUME TypeOK, NEW p \in Paths, NEW torn \in BOOLEAN, NEW r \in Seen(p, torn)
  PROVE  r \in Rev /\ r <= rev[p] /\ (~ torn => r = rev[p])
<1>1. rev[p] \in 0..MaxRev /\ MaxRev \in Nat
  BY TransferAssumption DEF TypeOK, Rev
<1>2. CASE torn
  BY <1>1, <1>2 DEF Seen, Rev
<1>3. CASE ~ torn
  BY <1>1, <1>3 DEF Seen, Rev
<1> QED
  BY <1>2, <1>3

(* The next three state what a thread's step sends, and where it is then.  *)
LEMMA HeaderSent ==
  ASSUME TypeOK, NEW s \in Senders, SendHeader(s)
  PROVE  \E m \in Msg :
           /\ m.type = "FileHeader" /\ net' = Append(net, m)
           /\ m.mtime <= rev[m.path] /\ (~ m.torn => m.mtime = rev[m.path])
           /\ sending[s] = Idle /\ sending'[s] # Idle
           /\ sending'[s] = [path |-> m.path, next |-> 0, torn |-> m.torn]
           /\ sending'[s] \in File
           /\ sending' = [sending EXCEPT ![s] = sending'[s]]
           /\ mixed' = IF Quiet(m.path) THEN mixed ELSE mixed \cup {m.path}
           /\ sends' \in 0..MaxSends
           /\ UNCHANGED <<rev, writing, entries, transferred>>
<1>1. PICK p \in Paths, w \in BOOLEAN :
        /\ w = (p \in writing)
        /\ \E r \in Seen(p, w) :
              net' = Append(net, [type |-> "FileHeader", path |-> p,
                                  torn |-> w, mtime |-> r])
        /\ sending' = [sending EXCEPT ![s] = [path |-> p, next |-> 0,
                                              torn |-> w]]
        /\ mixed' = IF \E t \in Senders : Sends(t, p)
                    THEN mixed \cup {p} ELSE mixed
  <2>1. PICK p \in Paths :
          /\ \E r \in Seen(p, p \in writing) :
                net' = Append(net, [type |-> "FileHeader", path |-> p,
                                    torn |-> p \in writing, mtime |-> r])
          /\ sending' = [sending EXCEPT ![s] = [path |-> p, next |-> 0,
                                                torn |-> p \in writing]]
          /\ mixed' = IF \E t \in Senders : Sends(t, p)
                      THEN mixed \cup {p} ELSE mixed
    BY DEF SendHeader
  <2> DEFINE w == p \in writing
  <2>2. w \in BOOLEAN
    OBVIOUS
  <2> QED
    BY <2>1, <2>2
<1>2. PICK r \in Seen(p, w) :
        net' = Append(net, [type |-> "FileHeader", path |-> p,
                            torn |-> w, mtime |-> r])
  BY <1>1
<1>3. r \in Rev /\ r <= rev[p] /\ (~ w => r = rev[p])
  BY <1>2, SeenRevisions
<1>4. PICK m : m = [type |-> "FileHeader", path |-> p, torn |-> w, mtime |-> r]
  OBVIOUS
<1>5. m \in Msg
  BY <1>3, <1>4 DEF Msg
<1>6. PICK f : f = [path |-> p, next |-> 0, torn |-> w]
  OBVIOUS
<1>7. f \in File
  BY <1>6, TransferAssumption DEF File
<1>8. sending' = [sending EXCEPT ![s] = f] /\ sending'[s] = f
  BY <1>1, <1>6, Files
<1>9. mixed' = IF Quiet(p) THEN mixed ELSE mixed \cup {p}
  BY <1>1 DEF Quiet
<1>10. sends' \in 0..MaxSends
  BY TransferAssumption DEF SendHeader, TypeOK
<1>11. UNCHANGED <<rev, writing, entries, transferred>> /\ sending[s] = Idle
  BY DEF SendHeader
<1>12. f # Idle
  BY <1>7, Files
<1> QED
  BY <1>2, <1>3, <1>4, <1>5, <1>6, <1>7, <1>8, <1>9, <1>10, <1>11, <1>12

LEMMA ChunkSent ==
  ASSUME TypeOK, NEW s \in Senders, SendChunk(s)
  PROVE  \E m \in Msg :
           /\ m.type = "FileTransfer" /\ net' = Append(net, m)
           /\ Sends(s, m.path) /\ sending[s].next = m.data[3]
           /\ m.torn = sending[s].torn
           /\ m.data[1] = m.path /\ m.data[2] <= rev[m.path]
           /\ ~ m.torn => m.data[2] = rev[m.path]
           /\ m.parses \/ m.path \in NotUtf8
           /\ sending'[s] \in File /\ sending'[s] # Idle
           /\ sending'[s].path = m.path /\ sending'[s].torn = m.torn
           /\ \/ sending'[s].next = m.data[3] + 1
              \/ /\ sending'[s].next = Chunks + 1
                 /\ m.path \in Cut \/ m.torn
           /\ sending' = [sending EXCEPT ![s] = sending'[s]]
           /\ UNCHANGED <<rev, writing, sends, entries, transferred, mixed>>
<1>1. /\ sending[s] # Idle /\ sending[s] \in File
      /\ sending[s].next \in 1..Chunks /\ Chunks \in Nat
  BY Files DEF SendChunk
<1>2. PICK p \in Paths, k \in 1..Chunks, w \in BOOLEAN :
        /\ p = sending[s].path /\ k = sending[s].next /\ w = sending[s].torn
        /\ sending[s] = [path |-> p, next |-> k, torn |-> w]
  BY <1>1 DEF File
<1>3. PICK r \in Seen(p, w), b \in BOOLEAN :
        /\ b \/ p \in NotUtf8
        /\ net' = Append(net, [type |-> "FileTransfer", path |-> p,
                               torn |-> w, data |-> <<p, r, k>>,
                               parses |-> b])
  BY <1>2 DEF SendChunk
<1>4. r \in Rev /\ r <= rev[p] /\ (~ w => r = rev[p])
  BY <1>3, SeenRevisions
<1>5. PICK m : m = [type |-> "FileTransfer", path |-> p, torn |-> w,
                    data |-> <<p, r, k>>, parses |-> b]
  OBVIOUS
<1>6. m \in Msg
  BY <1>4, <1>5 DEF Msg, Chunk
<1>7. PICK n \in 0..(Chunks + 1) :
        /\ n = k + 1 \/ (n = Chunks + 1 /\ (p \in Cut \/ w))
        /\ sending' = [sending EXCEPT ![s].next = n]
  <2>1. \/ sending' = [sending EXCEPT ![s].next = k + 1]
        \/ /\ p \in Cut \/ w
           /\ sending' = [sending EXCEPT ![s].next = Chunks + 1]
    BY <1>2 DEF SendChunk, ChunkAfter
  <2>2. k + 1 \in 0..(Chunks + 1) /\ Chunks + 1 \in 0..(Chunks + 1)
    BY <1>1
  <2> QED
    BY <2>1, <2>2
<1>8. PICK f : f = [path |-> p, next |-> n, torn |-> w]
  OBVIOUS
<1>9. f \in File
  BY <1>8 DEF File
<1>10. sending' = [sending EXCEPT ![s] = f] /\ sending'[s] = f
  <2>1. sending' = [sending EXCEPT ![s] = [sending[s] EXCEPT !.next = n]]
    BY <1>7
  <2>2. [sending[s] EXCEPT !.next = n] = f
    BY <1>2, <1>8
  <2> QED
    BY <2>1, <2>2, Files
<1>11. f # Idle
  BY <1>9, Files
<1>12. UNCHANGED <<rev, writing, sends, entries, transferred, mixed>>
  BY DEF SendChunk
<1>13. Sends(s, p)
  BY <1>1, <1>2 DEF Sends
<1>14. /\ m.type = "FileTransfer" /\ m.path = p /\ m.torn = w /\ m.parses = b
       /\ m.data[1] = p /\ m.data[2] = r /\ m.data[3] = k
  BY <1>5
<1>15. /\ m \in Msg /\ net' = Append(net, m)
       /\ Sends(s, m.path) /\ sending[s].next = m.data[3]
       /\ m.torn = sending[s].torn
       /\ m.data[1] = m.path /\ m.data[2] <= rev[m.path]
       /\ ~ m.torn => m.data[2] = rev[m.path]
       /\ m.parses \/ m.path \in NotUtf8
  BY <1>2, <1>3, <1>4, <1>5, <1>6, <1>13, <1>14
<1>16. /\ sending'[s].path = m.path /\ sending'[s].torn = m.torn
       /\ \/ sending'[s].next = m.data[3] + 1
          \/ /\ sending'[s].next = Chunks + 1
             /\ m.path \in Cut \/ m.torn
  <2>1. f.path = p /\ f.next = n /\ f.torn = w
    BY <1>8
  <2> QED
    BY <2>1, <1>7, <1>10, <1>14
<1>17. /\ sending'[s] \in File /\ sending'[s] # Idle
       /\ sending' = [sending EXCEPT ![s] = sending'[s]]
  BY <1>9, <1>10, <1>11
<1> QED
  BY <1>12, <1>14, <1>15, <1>16, <1>17

LEMMA EndSent ==
  ASSUME TypeOK, NEW s \in Senders, SendEndOfFile(s)
  PROVE  \E m \in Msg :
           /\ m.type = "EndOfFile" /\ net' = Append(net, m)
           /\ Sends(s, m.path) /\ sending[s].next = Chunks + 1
           /\ m.torn = sending[s].torn
           /\ sending'[s] = Idle
           /\ sending' = [sending EXCEPT ![s] = sending'[s]]
           /\ UNCHANGED <<rev, writing, sends, entries, transferred, mixed>>
<1>1. /\ sending[s] # Idle /\ sending[s].path \in Paths
      /\ sending[s].torn \in BOOLEAN /\ sending[s].next = Chunks + 1
  BY Files DEF SendEndOfFile
<1>2. PICK m : m = [type |-> "EndOfFile", path |-> sending[s].path,
                    torn |-> sending[s].torn]
  OBVIOUS
<1>3. m \in Msg
  BY <1>1, <1>2 DEF Msg
<1>4. sending' = [sending EXCEPT ![s] = Idle] /\ sending'[s] = Idle
  BY Files DEF SendEndOfFile
<1>5. /\ net' = Append(net, m)
      /\ UNCHANGED <<rev, writing, sends, entries, transferred, mixed>>
  BY <1>2 DEF SendEndOfFile
<1> QED
  BY <1>1, <1>2, <1>3, <1>4, <1>5 DEF Sends

LEMMA FileOpened ==
  ASSUME TypeOK, NEW s \in Senders, OpenFile(s)
  PROVE  /\ sending[s] # Idle /\ sending[s].next = 0
         /\ sending' = [sending EXCEPT ![s] = sending'[s]]
         /\ \/ /\ sending'[s] \in File /\ sending'[s] # Idle
               /\ sending'[s].path = sending[s].path /\ sending'[s].next = 1
               /\ sending'[s].torn = sending[s].torn
            \/ sending[s].path \in Unreadable /\ sending'[s] = Idle
         /\ UNCHANGED <<rev, writing, sends, net, entries, transferred, mixed>>
<1>1. /\ sending[s] # Idle /\ sending[s].next = 0 /\ sending[s] \in File
      /\ UNCHANGED <<rev, writing, sends, net, entries, transferred, mixed>>
  BY Files DEF OpenFile
<1>2. CASE sending' = [sending EXCEPT ![s].next = 1]
  <2>1. PICK f : f = [sending[s] EXCEPT !.next = 1]
    OBVIOUS
  <2>2. /\ f \in File /\ f.path = sending[s].path /\ f.next = 1
        /\ f.torn = sending[s].torn
    BY <1>1, <2>1, TransferAssumption DEF File
  <2>3. sending' = [sending EXCEPT ![s] = f] /\ sending'[s] = f
    BY <1>2, <2>1, Files
  <2> QED
    BY <1>1, <2>2, <2>3, Files
<1>3. CASE /\ sending[s].path \in Unreadable
           /\ sending' = [sending EXCEPT ![s] = Idle]
  BY <1>1, <1>3, Files
<1> QED
  BY <1>2, <1>3 DEF OpenFile

(* A new revision changes of the senders only that their file was written. *)
LEMMA RewriteBegun ==
  ASSUME TypeOK, NEW q \in Paths, BeginRewrite(q)
  PROVE  /\ rev' \in [Paths -> Rev] /\ writing' \subseteq Paths
         /\ \A p \in Paths : rev[p] <= rev'[p] /\ (p # q => rev'[p] = rev[p])
         /\ \A s \in Senders :
              IF Sends(s, q)
              THEN /\ sending'[s] \in File /\ sending'[s] # Idle
                   /\ sending'[s].path = q /\ sending'[s].torn
                   /\ sending'[s].next = sending[s].next
              ELSE sending'[s] = sending[s]
         /\ sending' \in [Senders -> File \cup {Idle}]
         /\ UNCHANGED <<sends, net, entries, transferred, mixed>>
<1>1. UNCHANGED <<sends, net, entries, transferred, mixed>>
  BY DEF BeginRewrite
<1>2. /\ rev' \in [Paths -> Rev] /\ writing' \subseteq Paths
      /\ \A p \in Paths : rev[p] <= rev'[p] /\ (p # q => rev'[p] = rev[p])
  BY TransferAssumption DEF BeginRewrite, TypeOK, Rev
<1>3. ASSUME NEW s \in Senders
      PROVE  /\ IF Sends(s, q)
                THEN /\ sending'[s] \in File /\ sending'[s] # Idle
                     /\ sending'[s].path = q /\ sending'[s].torn
                     /\ sending'[s].next = sending[s].next
                ELSE sending'[s] = sending[s]
             /\ sending'[s] \in File \cup {Idle}
  <2>1. CASE Sends(s, q)
    <3>1. sending[s] \in File /\ sending[s].path = q
      BY <2>1, Files DEF Sends
    <3>2. PICK f : f = [sending[s] EXCEPT !.torn = TRUE]
      OBVIOUS
    <3>3. /\ f \in File /\ f.path = q /\ f.torn = TRUE
          /\ f.next = sending[s].next
      BY <3>1, <3>2 DEF File
    <3>4. sending'[s] = f
      BY <2>1, <3>2 DEF BeginRewrite
    <3> QED
      BY <2>1, <3>3, <3>4, Files
  <2>2. CASE ~ Sends(s, q)
    <3>1. sending'[s] = sending[s]
      BY <2>2 DEF BeginRewrite
    <3> QED
      BY <2>2, <3>1, Files
  <2> QED
    BY <2>1, <2>2
<1>4. sending' \in [Senders -> File \cup {Idle}]
  <2>1. /\ DOMAIN sending' = Senders
        /\ sending' = [s \in Senders |-> sending'[s]]
    BY DEF BeginRewrite
  <2> QED
    BY <2>1, <1>3
<1> QED
  BY <1>1, <1>2, <1>3, <1>4

LEMMA TypeStep == TypeOK /\ [Next]_vars => TypeOK'
<1> SUFFICES ASSUME TypeOK, [Next]_vars
             PROVE  TypeOK'
  OBVIOUS
<1>1. ASSUME NEW p \in Paths, BeginRewrite(p) \/ EndRewrite(p)
      PROVE  TypeOK'
  <2>1. CASE BeginRewrite(p)
    BY <2>1, RewriteBegun DEF TypeOK
  <2>2. CASE EndRewrite(p)
    BY <2>2 DEF EndRewrite, TypeOK
  <2> QED
    BY <1>1, <2>1, <2>2
<1>2. ASSUME NEW s \in Senders, Send(s)
      PROVE  TypeOK'
  <2>1. ASSUME NEW m \in Msg, net' = Append(net, m)
        PROVE  net' \in Seq(Msg)
    BY <2>1 DEF TypeOK
  <2>2. ASSUME sending' = [sending EXCEPT ![s] = sending'[s]],
               sending'[s] \in File \cup {Idle}
        PROVE  sending' \in [Senders -> File \cup {Idle}]
    BY <2>2 DEF TypeOK
  <2>3. CASE SendHeader(s)
    <3>1. PICK m \in Msg :
            /\ net' = Append(net, m) /\ sending'[s] \in File
            /\ sending' = [sending EXCEPT ![s] = sending'[s]]
            /\ mixed' = IF Quiet(m.path) THEN mixed ELSE mixed \cup {m.path}
            /\ sends' \in 0..MaxSends
            /\ UNCHANGED <<rev, writing, entries, transferred>>
      BY <2>3, HeaderSent
    <3>2. net' \in Seq(Msg) /\ sending' \in [Senders -> File \cup {Idle}]
      BY <2>1, <2>2, <3>1
    <3>3. mixed' \subseteq Paths
      BY <3>1, Headers DEF TypeOK
    <3> QED
      BY <3>1, <3>2, <3>3 DEF TypeOK
  <2>4. CASE OpenFile(s)
    <3>1. /\ sending' = [sending EXCEPT ![s] = sending'[s]]
          /\ sending'[s] \in File \cup {Idle}
          /\ UNCHANGED <<rev, writing, sends, net, entries, transferred, mixed>>
      BY <2>4, FileOpened
    <3>2. sending' \in [Senders -> File \cup {Idle}]
      BY <2>2, <3>1
    <3> QED
      BY <3>1, <3>2 DEF TypeOK
  <2>5. CASE SendChunk(s) \/ SendEndOfFile(s)
    <3>1. PICK m \in Msg :
            /\ net' = Append(net, m) /\ sending'[s] \in File \cup {Idle}
            /\ sending' = [sending EXCEPT ![s] = sending'[s]]
            /\ UNCHANGED <<rev, writing, sends, entries, transferred, mixed>>
      <4>1. CASE SendChunk(s)
        <5>1. PICK m \in Msg :
                /\ net' = Append(net, m) /\ sending'[s] \in File
                /\ sending' = [sending EXCEPT ![s] = sending'[s]]
                /\ UNCHANGED <<rev, writing, sends, entries, transferred, mixed>>
          BY <4>1, ChunkSent
        <5> QED
          BY <5>1
      <4>2. CASE SendEndOfFile(s)
        <5>1. PICK m \in Msg :
                /\ net' = Append(net, m) /\ sending'[s] = Idle
                /\ sending' = [sending EXCEPT ![s] = sending'[s]]
                /\ UNCHANGED <<rev, writing, sends, entries, transferred, mixed>>
          BY <4>2, EndSent
        <5> QED
          BY <5>1
      <4> QED
        BY <2>5, <4>1, <4>2
    <3>2. net' \in Seq(Msg) /\ sending' \in [Senders -> File \cup {Idle}]
      BY <2>1, <2>2, <3>1
    <3> QED
      BY <3>1, <3>2 DEF TypeOK
  <2> QED
    BY <1>2, <2>3, <2>4, <2>5 DEF Send
<1>3. CASE ReceiveNext
  <2>1. /\ net # <<>> /\ net' = Tail(net)
        /\ UNCHANGED <<rev, writing, sending, sends, mixed>>
    BY <1>3 DEF ReceiveNext, ReceiveHeader, ReceiveChunk, ReceiveEndOfFile,
                Receive
  <2>2. /\ net' \in Seq(Msg) /\ Head(net) \in Msg
    BY <2>1, Heads
  <2>3. entries' \in Seq(Entry) /\ transferred' \subseteq LoggedEntry
    <3> DEFINE m == Head(net)
    <3>0. entries \in Seq(Entry) /\ transferred \subseteq LoggedEntry
      BY DEF TypeOK, LoggedEntry
    <3>1. CASE ReceiveHeader
      <4> DEFINE e == [path |-> m.path, mtime |-> m.mtime, data |-> <<>>]
      <4>1. e \in Entry
        BY <3>1, <2>2, Headers DEF ReceiveHeader, Receive, Entry
      <4>2. entries' \in {entries, Append(entries, e)}
        BY <3>1 DEF ReceiveHeader
      <4> QED
        BY <4>1, <4>2, <3>0, <3>1 DEF ReceiveHeader
    <3>2. CASE ReceiveChunk
      <4>1. m.data \in Chunk
        BY <3>2, <2>2, Headers DEF ReceiveChunk, Receive, Chunk
      <4> DEFINE i == First(EntriesFor(m.path))
      <4>2. CASE entries' = [entries EXCEPT ![i].data = Append(@, m.data)]
                 /\ EntriesFor(m.path) # {}
        <5>1. i \in 1..Len(entries)
          BY <4>2, FoundIsFirst DEF EntriesFor
        <5>2. entries[i] \in Entry
          BY <5>1, <3>0
        <5>3. Append(entries[i].data, m.data) \in Seq(Chunk)
          BY <5>2, <4>1 DEF Entry
        <5> DEFINE e == [entries[i] EXCEPT !.data = Append(@, m.data)]
        <5>4. e \in Entry
          BY <5>2, <5>3 DEF Entry
        <5>5. entries' = [entries EXCEPT ![i] = e]
          BY <4>2
        <5> HIDE DEF e, i
        <5> QED
          BY <5>1, <5>4, <5>5, <3>0, <3>2 DEF ReceiveChunk
      <4>3. CASE entries' = entries
        BY <4>3, <3>0, <3>2 DEF ReceiveChunk
      <4> QED
        BY <4>2, <4>3, <3>2 DEF ReceiveChunk
    <3>3. CASE ReceiveEndOfFile
      <4> DEFINE i == First(EntriesFor(m.path))
      <4>1. CASE /\ EntriesFor(m.path) # {}
                 /\ transferred' =
                      transferred \cup {Logged(entries[i], m.torn)}
                 /\ entries' = Erased(entries, i)
        <5>1. i \in 1..Len(entries)
          BY <4>1, FoundIsFirst DEF EntriesFor
        <5>2. entries[i] \in Entry
          BY <5>1, <3>0
        <5>3. Erased(entries, i) \in Seq(Entry)
          BY <5>1, <3>0, ErasedElements
        <5>4. Logged(entries[i], m.torn) \in LoggedEntry
          <6>1. m.torn \in BOOLEAN
            BY <2>2, Headers
          <6>2. \A e \in Entry, b \in BOOLEAN : Logged(e, b) \in LoggedEntry
            BY DEF Logged, LoggedEntry, Entry
          <6> QED
            BY <6>1, <6>2, <5>2
        <5> QED
          BY <5>3, <5>4, <4>1, <3>0
      <4>2. CASE UNCHANGED <<entries, transferred>>
        BY <4>2, <3>0
      <4> QED
        BY <4>1, <4>2, <3>3 DEF ReceiveEndOfFile
    <3> QED
      BY <3>1, <3>2, <3>3, <1>3 DEF ReceiveNext
  <2> QED
    BY <2>1, <2>2, <2>3 DEF TypeOK, LoggedEntry
<1>4. CASE UNCHANGED vars
  BY <1>4 DEF TypeOK, vars
<1> QED
  BY <1>1, <1>2, <1>3, <1>4 DEF Next

------------------------------------------------------------------------------
(* Revisions *)

LEMMA AgesAreRevisions ==
  ASSUME NEW m \in Msg, Dated(m)
  PROVE  Age(m) \in Nat
<1>1. Rev \subseteq Nat
  BY TransferAssumption DEF Rev
<1>2. m.type \in {"FileHeader", "FileTransfer"}
  BY Headers DEF Dated
<1> QED
  BY <1>1, <1>2, Headers DEF Age

LEMMA StagesOfMessages ==
  ASSUME NEW m \in Msg, Dated(m)
  PROVE  /\ StageOf(m) \in Stage /\ StageOf(m).torn = m.torn
         /\ StageOf(m).of = Age(m)
         /\ m.type = "FileHeader" => StageOf(m).sent = 0 /\ Age(m) = m.mtime
         /\ m.type = "FileTransfer" =>
              StageOf(m).sent = m.data[3] /\ Age(m) = m.data[2]
<1>1. m.type \in {"FileHeader", "FileTransfer"} /\ m.torn \in BOOLEAN
  BY Headers DEF Dated
<1>2. CASE m.type = "FileHeader"
  BY <1>1, <1>2, Headers DEF StageOf, Stage, Age
<1>3. CASE m.type = "FileTransfer"
  <2>1. m.data[3] \in Nat /\ m.data[2] \in Rev
    BY <1>3, Headers, TransferAssumption
  <2> QED
    BY <1>1, <1>3, <2>1 DEF StageOf, Stage, Age
<1> QED
  BY <1>1, <1>2, <1>3

(* What a thread's step sends is of a revision the file has had.           *)
LEMMA AgeSent ==
  ASSUME TypeOK, NEW s \in Senders, Send(s)
  PROVE  /\ UNCHANGED <<rev, entries, transferred>>
         /\ \/ net' = net
            \/ \E m \in Msg :
                 /\ net' = Append(net, m)
                 /\ Dated(m) => /\ Age(m) <= rev[m.path]
                                /\ ~ m.torn => Age(m) = rev[m.path]
<1>1. CASE SendHeader(s)
  <2>1. PICK m \in Msg :
          /\ m.type = "FileHeader" /\ net' = Append(net, m)
          /\ m.mtime <= rev[m.path] /\ (~ m.torn => m.mtime = rev[m.path])
          /\ UNCHANGED <<rev, writing, entries, transferred>>
    BY <1>1, HeaderSent
  <2> QED
    BY <2>1 DEF Age
<1>2. CASE OpenFile(s)
  BY <1>2 DEF OpenFile
<1>3. CASE SendChunk(s)
  <2>1. PICK m \in Msg :
          /\ m.type = "FileTransfer" /\ net' = Append(net, m)
          /\ m.data[2] <= rev[m.path]
          /\ ~ m.torn => m.data[2] = rev[m.path]
          /\ UNCHANGED <<rev, writing, sends, entries, transferred, mixed>>
    BY <1>3, ChunkSent
  <2> QED
    BY <2>1 DEF Age
<1>4. CASE SendEndOfFile(s)
  <2>1. PICK m \in Msg :
          /\ m.type = "EndOfFile" /\ net' = Append(net, m)
          /\ UNCHANGED <<rev, writing, sends, entries, transferred, mixed>>
    BY <1>4, EndSent
  <2> QED
    BY <2>1 DEF Dated
<1> QED
  BY <1>1, <1>2, <1>3, <1>4 DEF Send

(* Each entry was there, or is the one of the header that is received.     *)
LEMMA EntriesAfter ==
  ASSUME TypeOK, ReceiveNext
  PROVE  /\ net # <<>> /\ net' = Tail(net)
         /\ UNCHANGED <<rev, writing, sending, sends, mixed>>
         /\ \A e \in 1..Len(entries') :
              \/ \E f \in 1..Len(entries) :
                   /\ entries'[e].path = entries[f].path
                   /\ entries'[e].mtime = entries[f].mtime
              \/ /\ Dated(net[1]) /\ entries'[e].path = net[1].path
                 /\ entries'[e].mtime = Age(net[1])
<1>1. /\ net # <<>> /\ net' = Tail(net)
      /\ UNCHANGED <<rev, writing, sending, sends, mixed>>
  BY DEF ReceiveNext, ReceiveHeader, ReceiveChunk, ReceiveEndOfFile, Receive
<1>2. Head(net) = net[1] /\ entries \in Seq(Entry)
  BY <1>1, Heads DEF TypeOK
<1>3. CASE UNCHANGED entries
  BY <1>1, <1>3
<1>4. ASSUME ReceiveHeader,
             entries' = Append(entries, [path |-> Head(net).path,
                                         mtime |-> Head(net).mtime,
                                         data |-> <<>>])
      PROVE  \A e \in 1..Len(entries') :
              \/ \E f \in 1..Len(entries) :
                   /\ entries'[e].path = entries[f].path
                   /\ entries'[e].mtime = entries[f].mtime
              \/ /\ Dated(net[1]) /\ entries'[e].path = net[1].path
                 /\ entries'[e].mtime = Age(net[1])
  <2> DEFINE new == [path |-> Head(net).path, mtime |-> Head(net).mtime,
                     data |-> <<>>]
  <2>1. Dated(net[1]) /\ Age(net[1]) = Head(net).mtime
    BY <1>4, <1>2 DEF ReceiveHeader, Receive, Dated, Age
  <2>2. new.path = net[1].path /\ new.mtime = Age(net[1])
    BY <2>1, <1>2
  <2> HIDE DEF new
  <2>3. /\ Len(entries') = Len(entries) + 1 /\ Len(entries) \in Nat
        /\ entries'[Len(entries) + 1] = new
        /\ \A e \in 1..Len(entries) : entries'[e] = entries[e]
    <3>1. entries' = Append(entries, new)
      BY <1>4 DEF new
    <3> QED
      BY <3>1, <1>2
  <2>4. ASSUME NEW e \in 1..Len(entries')
        PROVE  e \in 1..Len(entries) \/ entries'[e] = new
    BY <2>3
  <2> QED
    BY <2>1, <2>2, <2>3, <2>4
<1>5. ASSUME NEW i \in 1..Len(entries), NEW d,
             entries' = [entries EXCEPT ![i].data = d]
      PROVE  \A e \in 1..Len(entries') :
               /\ e \in 1..Len(entries)
               /\ entries'[e].path = entries[e].path
               /\ entries'[e].mtime = entries[e].mtime
  <2>1. \A e \in 1..Len(entries) : entries[e] \in Entry
    BY <1>2
  <2>2. [entries[i] EXCEPT !.data = d].path = entries[i].path
        /\ [entries[i] EXCEPT !.data = d].mtime = entries[i].mtime
    BY <2>1 DEF Entry
  <2>3. entries' = [entries EXCEPT ![i] = [entries[i] EXCEPT !.data = d]]
    BY <1>5
  <2> HIDE DEF Entry
  <2>4. Len(entries') = Len(entries) /\ \A e \in 1..Len(entries) :
          entries'[e] = IF e = i THEN [entries[i] EXCEPT !.data = d]
                        ELSE entries[e]
    BY <2>3, <1>2
  <2> QED
    BY <2>2, <2>4
<1>6. ASSUME NEW i \in 1..Len(entries), entries' = Erased(entries, i)
      PROVE  \A e \in 1..Len(entries') : \E f \in 1..Len(entries) :
               entries'[e] = entries[f]
  BY <1>2, <1>6, ErasedElements
<1>7. CASE ReceiveChunk
  <2>1. CASE EntriesFor(Head(net).path) # {}
    <3>1. First(EntriesFor(Head(net).path)) \in 1..Len(entries)
      BY <2>1, FoundIsFirst DEF EntriesFor
    <3> DEFINE i == First(EntriesFor(Head(net).path))
               d == Append(entries[i].data, Head(net).data)
    <3>2. CASE entries' = [entries EXCEPT ![i].data = d]
      <4> HIDE DEF i, d
      <4>1. i \in 1..Len(entries)
        BY <3>1 DEF i
      <4> QED
        BY <4>1, <3>2, <1>5, <1>1
    <3> QED
      BY <3>2, <1>3, <1>7 DEF ReceiveChunk
  <2>2. CASE EntriesFor(Head(net).path) = {}
    BY <2>2, <1>3, <1>7 DEF ReceiveChunk
  <2> QED
    BY <2>1, <2>2
<1>8. CASE ReceiveEndOfFile
  <2>1. CASE EntriesFor(Head(net).path) # {}
    <3>1. First(EntriesFor(Head(net).path)) \in 1..Len(entries)
      BY <2>1, FoundIsFirst DEF EntriesFor
    <3>2. entries' = Erased(entries, First(EntriesFor(Head(net).path)))
      BY <2>1, <1>8 DEF ReceiveEndOfFile
    <3> QED
      BY <3>1, <3>2, <1>6, <1>1
  <2>2. CASE EntriesFor(Head(net).path) = {}
    BY <2>2, <1>3, <1>8 DEF ReceiveEndOfFile
  <2> QED
    BY <2>1, <2>2
<1>9. CASE ReceiveHeader
  BY <1>9, <1>1, <1>3, <1>4 DEF ReceiveHeader
<1> QED
  BY <1>7, <1>8, <1>9 DEF ReceiveNext

LEMMA AgesStep == TypeOK /\ AgesInv /\ [Next]_vars => AgesInv'
<1> SUFFICES ASSUME TypeOK, AgesInv, [Next]_vars
             PROVE  AgesInv'
  OBVIOUS
<1>1. /\ net \in Seq(Msg) /\ Len(net) \in Nat
      /\ \A i \in 1..Len(net) : net[i] \in Msg /\ net[i].path \in Paths
  BY Headers DEF TypeOK
<1>2. /\ entries \in Seq(Entry) /\ Len(entries) \in Nat
      /\ \A e \in 1..Len(entries) :
           entries[e].path \in Paths /\ entries[e].mtime \in Nat
  <2>1. entries \in Seq(Entry)
    BY DEF TypeOK
  <2>2. \A e \in 1..Len(entries) : entries[e] \in Entry
    BY <2>1
  <2>3. Rev \subseteq Nat
    BY TransferAssumption DEF Rev
  <2>4. \A e \in 1..Len(entries) :
          entries[e].path \in Paths /\ entries[e].mtime \in Nat
    BY <2>2, <2>3 DEF Entry
  <2> QED
    BY <2>1, <2>4
<1>3. /\ \A p \in Paths : rev[p] \in Nat
      /\ \A i \in 1..Len(net) : Dated(net[i]) => Age(net[i]) \in Nat
  BY <1>1, AgesAreRevisions, TransferAssumption DEF TypeOK, Rev
<1>4. ASSUME NEW p \in Paths, BeginRewrite(p) \/ EndRewrite(p)
      PROVE  AgesInv'
  <2>1. /\ \A q \in Paths : rev[q] <= rev'[q] /\ rev'[q] \in Nat
        /\ UNCHANGED <<net, entries>>
    <3>1. CASE BeginRewrite(p)
      <4>1. \A q \in Paths : rev[q] <= rev'[q] /\ rev'[q] \in Rev
        BY <3>1, RewriteBegun
      <4>2. UNCHANGED <<net, entries>>
        BY <3>1, RewriteBegun
      <4> QED
        BY <4>1, <4>2, TransferAssumption DEF Rev
    <3>2. CASE EndRewrite(p)
      BY <3>2, <1>3 DEF EndRewrite
    <3> QED
      BY <1>4, <3>1, <3>2
  <2>2. ASSUME NEW i \in 1..Len(net), Dated(net[i])
        PROVE  Age(net[i]) <= rev'[net[i].path]
    <3>1. Age(net[i]) <= rev[net[i].path] /\ net[i].path \in Paths
      BY <1>1, <2>2 DEF AgesInv
    <3> QED
      BY <1>3, <2>1, <2>2, <3>1
  <2>3. ASSUME NEW e \in 1..Len(entries)
        PROVE  entries[e].mtime <= rev'[entries[e].path]
    <3>1. entries[e].mtime <= rev[entries[e].path]
      BY DEF AgesInv
    <3> QED
      BY <1>2, <1>3, <2>1, <3>1
  <2> QED
    BY <2>1, <2>2, <2>3 DEF AgesInv
<1>5. ASSUME NEW s \in Senders, Send(s)
      PROVE  AgesInv'
  <2>0. CASE net' = net
    BY <2>0, <1>5, AgeSent DEF AgesInv
  <2>1. ASSUME NEW m \in Msg, net' = Append(net, m), UNCHANGED <<rev, entries>>,
               Dated(m) => /\ Age(m) <= rev[m.path]
                           /\ ~ m.torn => Age(m) = rev[m.path]
        PROVE  AgesInv'
    <3>2. /\ Len(net') = Len(net) + 1 /\ net'[Len(net) + 1] = m
          /\ \A i \in 1..Len(net) : net'[i] = net[i]
      BY <1>1, <2>1
    <3>3. ASSUME NEW i \in 1..Len(net'), Dated(net'[i])
          PROVE  Age(net'[i]) <= rev[net'[i].path]
      <4>1. CASE i \in 1..Len(net)
        BY <4>1, <3>2, <3>3 DEF AgesInv
      <4>2. CASE i = Len(net) + 1
        BY <4>2, <2>1, <3>2, <3>3
      <4> QED
        BY <4>1, <4>2, <3>2, <1>1
    <3>4. ASSUME NEW i \in 1..Len(net'), Dated(net'[i]),
                 NEW j \in 1..Len(net'), i < j, Dated(net'[j]),
                 ~ net'[j].torn, net'[j].path = net'[i].path
          PROVE  Age(net'[i]) <= Age(net'[j])
      <4>1. i \in 1..Len(net)
        BY <3>4, <3>2, <1>1
      <4>2. CASE j \in 1..Len(net)
        BY <4>1, <4>2, <3>2, <3>4 DEF AgesInv
      <4>3. CASE j = Len(net) + 1
        BY <4>3, <2>1, <3>2, <3>3, <3>4
      <4> QED
        BY <4>2, <4>3, <3>2, <1>1
    <3>5. ASSUME NEW e \in 1..Len(entries), NEW j \in 1..Len(net'),
                 Dated(net'[j]), ~ net'[j].torn, net'[j].path = entries[e].path
          PROVE  entries[e].mtime <= Age(net'[j])
      <4>1. CASE j \in 1..Len(net)
        BY <4>1, <3>2, <3>5 DEF AgesInv
      <4>2. CASE j = Len(net) + 1
        BY <4>2, <2>1, <3>2, <3>5 DEF AgesInv
      <4> QED
        BY <4>1, <4>2, <3>2, <1>1
    <3> QED
      BY <2>1, <3>3, <3>4, <3>5 DEF AgesInv
  <2> QED
    BY <2>0, <2>1, <1>5, AgeSent
<1>6. CASE ReceiveNext
  <2>1. /\ net # <<>> /\ net' = Tail(net) /\ rev' = rev
        /\ \A e \in 1..Len(entries') :
              \/ \E f \in 1..Len(entries) :
                   /\ entries'[e].path = entries[f].path
                   /\ entries'[e].mtime = entries[f].mtime
              \/ /\ Dated(net[1]) /\ entries'[e].path = net[1].path
                 /\ entries'[e].mtime = Age(net[1])
    BY <1>6, EntriesAfter
  <2>2. /\ Len(net') = Len(net) - 1 /\ 1 \in 1..Len(net)
        /\ \A i \in 1..Len(net') : i + 1 \in 1..Len(net) /\ net'[i] = net[i + 1]
    BY <2>1, Heads
  <2>3. ASSUME NEW i \in 1..Len(net'), Dated(net'[i])
        PROVE  /\ Age(net'[i]) <= rev[net'[i].path]
               /\ \A j \in 1..Len(net') :
                    i < j /\ Dated(net'[j]) /\ ~ net'[j].torn
                      /\ net'[j].path = net'[i].path
                        => Age(net'[i]) <= Age(net'[j])
    <3>1. /\ i + 1 \in 1..Len(net) /\ net'[i] = net[i + 1]
          /\ \A j \in 1..Len(net') :
               /\ j + 1 \in 1..Len(net) /\ net'[j] = net[j + 1]
               /\ i < j => i + 1 < j + 1
      BY <2>2
    <3> QED
      BY <3>1, <2>3 DEF AgesInv
  <2>4. ASSUME NEW e \in 1..Len(entries')
        PROVE  /\ entries'[e].mtime <= rev[entries'[e].path]
               /\ \A j \in 1..Len(net') :
                    Dated(net'[j]) /\ ~ net'[j].torn
                      /\ net'[j].path = entries'[e].path
                        => entries'[e].mtime <= Age(net'[j])
    <3>1. CASE \E f \in 1..Len(entries) :
                   /\ entries'[e].path = entries[f].path
                   /\ entries'[e].mtime = entries[f].mtime
      BY <3>1, <2>2 DEF AgesInv
    <3>2. CASE /\ Dated(net[1]) /\ entries'[e].path = net[1].path
               /\ entries'[e].mtime = Age(net[1])
      BY <3>2, <2>2 DEF AgesInv
    <3> QED
      BY <3>1, <3>2, <2>1
  <2> QED
    BY <2>1, <2>3, <2>4 DEF AgesInv
<1>7. CASE UNCHANGED vars
  BY <1>7 DEF AgesInv, vars
<1> QED
  BY <1>4, <1>5, <1>6, <1>7 DEF Next

------------------------------------------------------------------------------
(* Whole files: the sending end *)

LEMMA NothingBehind ==
  ASSUME NEW S, NEW q \in Seq(S), NEW p
  PROVE  After(q, p, Len(q)) = {}
  BY DEF After

(* A message that fits where the stream of its file ends leaves it so.     *)
LEMMA StreamOnSend ==
  ASSUME TypeOK, NEW m \in Msg, NEW p \in Paths,
         net' = Append(net, m), UNCHANGED entries,
         StreamOf(p), EntriesOf(p),
         m.path = p =>
           /\ \A x \in Stage : Awaits(p, x) => Fits(m, p, x)
           /\ Quiet(p) => m.type = "FileHeader"
           /\ Dated(m) => Awaits(p, StageOf(m))'
           /\ m.type = "FileTransfer" => m.parses \/ p \in NotUtf8
           /\ ~ Dated(m) => Quiet(p)',
         m.path # p =>
           /\ \A x \in Stage : Awaits(p, x) => Awaits(p, x)'
           /\ Quiet(p) => Quiet(p)'
  PROVE  StreamOf(p)' /\ EntriesOf(p)'
<1>1. /\ net \in Seq(Msg) /\ Len(net) \in Nat
      /\ Len(net') = Len(net) + 1 /\ net'[Len(net) + 1] = m
      /\ \A i \in 1..Len(net) : net'[i] = net[i]
      /\ net' \in Seq(Msg)
  BY DEF TypeOK
<1>2. ASSUME NEW i \in 0..Len(net)
      PROVE  /\ After(net', p, i) = {} => After(net, p, i) = {} /\ m.path # p
             /\ \A j \in After(net', p, i) : FirstOf(After(net', p, i), j) =>
                  \/ /\ j \in After(net, p, i) /\ FirstOf(After(net, p, i), j)
                     /\ net'[j] = net[j]
                  \/ /\ After(net, p, i) = {} /\ m.path = p /\ net'[j] = m
  <2>1. /\ After(Append(net, m), p, i) = {} =>
             After(net, p, i) = {} /\ m.path # p
        /\ \A j \in After(Append(net, m), p, i) :
             FirstOf(After(Append(net, m), p, i), j) =>
               \/ /\ j \in After(net, p, i) /\ FirstOf(After(net, p, i), j)
                  /\ Append(net, m)[j] = net[j]
               \/ /\ After(net, p, i) = {} /\ m.path = p
                  /\ Append(net, m)[j] = m
    BY <1>1, AfterAppend
  <2> QED
    BY <2>1
<1>3. ASSUME NEW i \in 0..Len(net), NEW x \in Stage, GoesOn(p, i, x)
      PROVE  GoesOn(p, i, x)'
  <2>1. After(net', p, i) = {} => Awaits(p, x)'
    BY <1>2, <1>3 DEF GoesOn
  <2>2. ASSUME NEW j \in After(net', p, i), FirstOf(After(net', p, i), j)
        PROVE  Fits(net'[j], p, x)
    BY <1>2, <1>3, <2>2 DEF GoesOn
  <2> QED
    BY <2>1, <2>2 DEF GoesOn, Fits
<1>4. ASSUME NEW i \in 0..Len(net), BeginsAnew(p, i)
      PROVE  BeginsAnew(p, i)'
  <2>1. After(net', p, i) = {} => Quiet(p)'
    BY <1>2, <1>4 DEF BeginsAnew
  <2>2. ASSUME NEW j \in After(net', p, i), FirstOf(After(net', p, i), j)
        PROVE  net'[j].type = "FileHeader"
    BY <1>2, <1>4, <2>2 DEF BeginsAnew
  <2> QED
    BY <2>1, <2>2 DEF BeginsAnew
<1>5. After(net', p, Len(net) + 1) = {}
  BY <1>1, NothingBehind
<1>6. ASSUME NEW i \in 1..Len(net'), net'[i].path = p
      PROVE  Continues(p, i)'
  <2>1. CASE i \in 1..Len(net)
    <3>1. net'[i] = net[i] /\ Continues(p, i) /\ i \in 0..Len(net)
      BY <2>1, <1>1, <1>6 DEF StreamOf
    <3>2. net[i] \in Msg
      BY <2>1, <1>1
    <3>3. ASSUME Dated(net[i])
          PROVE  GoesOn(p, i, StageOf(net[i]))'
      <4>1. PICK x \in Stage : x = StageOf(net[i])
        BY <3>2, <3>3, StagesOfMessages
      <4>2. GoesOn(p, i, x)
        BY <3>1, <3>3, <4>1 DEF Continues
      <4>3. GoesOn(p, i, x)'
        BY <3>1, <4>2, <1>3
      <4> QED
        BY <3>1, <4>1, <4>3
    <3>4. ASSUME ~ Dated(net[i])
          PROVE  BeginsAnew(p, i)'
      BY <3>1, <3>4, <1>4 DEF Continues
    <3> QED
      BY <3>1, <3>3, <3>4 DEF Continues, Dated, StageOf, Age
  <2>2. CASE i = Len(net) + 1
    <3>1. net'[i] = m /\ m.path = p /\ After(net', p, i) = {}
      BY <2>2, <1>1, <1>5, <1>6
    <3>2. \A x : Awaits(p, x)' => GoesOn(p, i, x)'
      BY <3>1 DEF GoesOn
    <3>3. Quiet(p)' => BeginsAnew(p, i)'
      BY <3>1 DEF BeginsAnew
    <3>4. Dated(m) => GoesOn(p, i, StageOf(m))'
      BY <3>1, <3>2
    <3>5. ~ Dated(m) => BeginsAnew(p, i)'
      BY <3>1, <3>3
    <3> QED
      BY <3>1, <3>4, <3>5 DEF Continues, Dated, StageOf, Age
  <2> QED
    BY <2>1, <2>2, <1>1
<1>7. StreamOf(p)'
  BY <1>6 DEF StreamOf
<1>8. EntriesOf(p)'
  <2>1. /\ EntriesFor(p)' = EntriesFor(p)
        /\ \A i \in EntriesFor(p) : entries'[i] = entries[i]
    BY DEF EntriesFor
  <2>2. \A x \in Stage : GoesOn(p, 0, x) => GoesOn(p, 0, x)'
    BY <1>1, <1>3
  <2>3. \A i, j \in EntriesFor(p)' :
          i < j => p \in Unreadable /\ entries'[j].data = <<>>
    BY DEF EntriesOf, EntriesFor
  <2>4. ASSUME NEW i \in EntriesFor(p)', FirstOf(EntriesFor(p)', i)
        PROVE  \E x \in Stage : Holds(entries'[i], x) /\ GoesOn(p, 0, x)'
    <3>1. PICK x \in Stage : Holds(entries[i], x) /\ GoesOn(p, 0, x)
      BY <2>1, <2>4 DEF EntriesOf
    <3> QED
      BY <2>2, <3>1
  <2> QED
    BY <2>3, <2>4 DEF EntriesOf, Holds
<1> QED
  BY <1>7, <1>8

(* What sends nothing leaves a file's transfers alone, if what the stream  *)
(* waits for is still what the senders are at.                             *)
LEMMA WholeStays ==
  ASSUME TypeOK, NEW p \in Paths, WholeOf(p),
         UNCHANGED <<net, entries, transferred>>,
         \A x \in Stage : Awaits(p, x) => Awaits(p, x)',
         Quiet(p) => Quiet(p)', OneSender(p)'
  PROVE  WholeOf(p)'
<1>1. ASSUME NEW i, NEW x \in Stage, GoesOn(p, i, x)
      PROVE  GoesOn(p, i, x)'
  BY <1>1 DEF GoesOn, Fits
<1>2. \A i : BeginsAnew(p, i) => BeginsAnew(p, i)'
  BY DEF BeginsAnew
<1>3. ASSUME NEW i \in 1..Len(net), net[i].path = p
      PROVE  Continues(p, i)'
  <2>1. net[i] \in Msg /\ Continues(p, i) /\ net' = net
    BY <1>3 DEF TypeOK, WholeOf, StreamOf
  <2>2. ASSUME Dated(net[i])
        PROVE  GoesOn(p, i, StageOf(net[i]))'
    <3>1. PICK x \in Stage : x = StageOf(net[i])
      BY <2>1, <2>2, StagesOfMessages
    <3>2. GoesOn(p, i, x)
      BY <2>1, <2>2, <3>1 DEF Continues
    <3>3. GoesOn(p, i, x)'
      BY <3>2, <1>1
    <3> QED
      BY <2>1, <3>1, <3>3
  <2> QED
    BY <2>1, <2>2, <1>2 DEF Continues, Dated, StageOf, Age
<1>4. StreamOf(p)'
  BY <1>3 DEF StreamOf
<1>5. EntriesOf(p)'
  <2>1. EntriesFor(p)' = EntriesFor(p) /\ entries' = entries
    BY DEF EntriesFor
  <2>2. ASSUME NEW i \in EntriesFor(p), FirstOf(EntriesFor(p), i)
        PROVE  \E x \in Stage : Holds(entries[i], x) /\ GoesOn(p, 0, x)'
    <3>1. PICK x \in Stage : Holds(entries[i], x) /\ GoesOn(p, 0, x)
      BY <2>2 DEF WholeOf, EntriesOf
    <3> QED
      BY <3>1, <1>1
  <2>3. \A i, j \in EntriesFor(p) :
          i < j => p \in Unreadable /\ entries[j].data = <<>>
    BY DEF WholeOf, EntriesOf
  <2> QED
    BY <2>1, <2>2, <2>3 DEF EntriesOf, Holds
<1>6. TransferredOf(p)'
  BY DEF WholeOf, TransferredOf, Holds, Ends
<1> QED
  BY <1>4, <1>5, <1>6 DEF WholeOf

(* Files of other paths are sent without any effect on p.                  *)
LEMMA OthersSend ==
  ASSUME TypeOK, NEW s \in Senders, NEW p \in Paths,
         ~ Sends(s, p), ~ Sends(s, p)', rev'[p] = rev[p],
         sending' = [sending EXCEPT ![s] = sending'[s]]
  PROVE  /\ \A t \in Senders : Sends(t, p)' <=> Sends(t, p)
         /\ \A x \in Stage : Awaits(p, x) => Awaits(p, x)'
         /\ Quiet(p) <=> Quiet(p)'
         /\ OneSender(p) => OneSender(p)'
<1>1. \A t \in Senders \ {s} : sending'[t] = sending[t]
  BY Files
<1>2. /\ \A t \in Senders : Sends(t, p)' <=> Sends(t, p)
      /\ \A t \in Senders : Sends(t, p) => sending'[t] = sending[t]
  BY <1>1 DEF Sends
<1>3. Quiet(p) <=> Quiet(p)'
  BY <1>2 DEF Quiet
<1>4. ASSUME NEW x \in Stage, Awaits(p, x)
      PROVE  Awaits(p, x)'
  <2>1. CASE x.sent = 0 /\ p \in Unreadable /\ Quiet(p)
    BY <2>1, <1>3 DEF Awaits
  <2>2. CASE \E t \in Senders : Sends(t, p) /\ IsAt(t, x)
    <3>1. PICK t \in Senders : Sends(t, p) /\ IsAt(t, x)
      BY <2>2
    <3>2. sending'[t] = sending[t] /\ Sends(t, p)'
      BY <3>1, <1>2
    <3>3. IsAt(t, x)'
      BY <3>1, <3>2 DEF IsAt, HasSent, Ends, Sends
    <3> QED
      BY <3>2, <3>3 DEF Awaits
  <2> QED
    BY <1>4, <2>1, <2>2 DEF Awaits
<1>5. OneSender(p) => OneSender(p)'
  BY <1>2 DEF OneSender
<1> QED
  BY <1>2, <1>3, <1>4, <1>5

(* Where one thread sends a file, that one is what the stream waits for.   *)
LEMMA OneAwaited ==
  ASSUME NEW s \in Senders, NEW p \in Paths, Sends(s, p), OneSender(p),
         NEW x, Awaits(p, x)
  PROVE  IsAt(s, x)
<1>1. ~ Quiet(p)
  BY DEF Quiet
<1>2. PICK t \in Senders : Sends(t, p) /\ IsAt(t, x)
  BY <1>1 DEF Awaits
<1>3. t = s
  BY <1>2 DEF OneSender
<1> QED
  BY <1>2, <1>3

LEMMA WholeOnSend ==
  ASSUME TypeOK, TypeOK', NEW s \in Senders, Send(s),
         NEW p \in Paths \ mixed', WholeOf(p)
  PROVE  WholeOf(p)'
<1>0. /\ p \in Paths /\ p \notin mixed'
      /\ StreamOf(p) /\ OneSender(p) /\ EntriesOf(p) /\ TransferredOf(p)
  BY DEF WholeOf
<1>1. UNCHANGED <<rev, entries, transferred>>
  BY AgeSent
<1>2. TransferredOf(p)'
  BY <1>0, <1>1 DEF TransferredOf, Holds, Ends
<1>3. /\ Chunks \in Nat \ {0} /\ DOMAIN sending = Senders
      /\ \A t \in Senders : sending[t] # Idle =>
           sending[t].torn \in BOOLEAN /\ sending[t].next \in 0..(Chunks + 1)
  BY Files
<1>4. CASE SendHeader(s)
  <2>1. PICK m \in Msg :
          /\ m.type = "FileHeader" /\ net' = Append(net, m)
          /\ ~ m.torn => m.mtime = rev[m.path]
          /\ sending[s] = Idle /\ sending'[s] # Idle
          /\ sending'[s] = [path |-> m.path, next |-> 0, torn |-> m.torn]
          /\ sending' = [sending EXCEPT ![s] = sending'[s]]
          /\ mixed' = IF Quiet(m.path) THEN mixed ELSE mixed \cup {m.path}
    BY <1>4, HeaderSent
  <2>2. Dated(m) /\ Age(m) = m.mtime
    BY <2>1 DEF Dated, Age
  <2>3. CASE m.path = p
    <3>1. Quiet(p)
      BY <2>1, <2>3, <1>0
    <3>2. \A x \in Stage : Awaits(p, x) => Fits(m, p, x)
      BY <2>1, <3>1 DEF Awaits, Fits, Quiet
    <3>3. /\ \A t \in Senders \ {s} : ~ Sends(t, p)'
          /\ Sends(s, p)'
      BY <2>1, <2>3, <3>1, <1>3 DEF Sends, Quiet
    <3>4. OneSender(p)'
      BY <3>3 DEF OneSender
    <3>5. Awaits(p, StageOf(m))'
      <4>1. /\ StageOf(m).sent = 0 /\ StageOf(m).torn = m.torn
            /\ StageOf(m).of = m.mtime
        BY <2>1, <2>2, StagesOfMessages
      <4>2. PICK x : x = StageOf(m)
        OBVIOUS
      <4>3. HasSent(s, 0)' /\ sending'[s].torn = m.torn
        BY <2>1 DEF HasSent
      <4>4. Awaits(p, x)'
        BY <4>1, <4>2, <4>3, <3>3, <2>1, <2>3, <1>1 DEF Awaits, IsAt
      <4> QED
        BY <4>2, <4>4 DEF StageOf, Age
    <3>6. StreamOf(p)' /\ EntriesOf(p)'
      BY <1>0, <1>1, <2>1, <2>2, <2>3, <3>2, <3>5, StreamOnSend
    <3> QED
      BY <1>2, <3>4, <3>6 DEF WholeOf
  <2>4. CASE m.path # p
    <3>1. ~ Sends(s, p) /\ ~ Sends(s, p)'
      BY <2>1, <2>4 DEF Sends
    <3>2. /\ \A x \in Stage : Awaits(p, x) => Awaits(p, x)'
          /\ Quiet(p) => Quiet(p)'
          /\ OneSender(p)'
      BY <3>1, <2>1, <1>0, <1>1, OthersSend
    <3>3. StreamOf(p)' /\ EntriesOf(p)'
      BY <1>0, <1>1, <2>1, <2>4, <3>2, StreamOnSend
    <3> QED
      BY <1>2, <3>2, <3>3 DEF WholeOf
  <2> QED
    BY <2>3, <2>4
<1>5. CASE OpenFile(s)
  <2>1. /\ sending[s] # Idle /\ sending[s].next = 0
        /\ sending' = [sending EXCEPT ![s] = sending'[s]]
        /\ \/ /\ sending'[s] # Idle
              /\ sending'[s].path = sending[s].path /\ sending'[s].next = 1
              /\ sending'[s].torn = sending[s].torn
           \/ sending[s].path \in Unreadable /\ sending'[s] = Idle
        /\ UNCHANGED <<rev, net, entries, transferred>>
    BY <1>5, FileOpened
  <2>2. CASE ~ Sends(s, p)
    <3>1. ~ Sends(s, p)'
      BY <2>1, <2>2 DEF Sends
    <3>2. /\ \A x \in Stage : Awaits(p, x) => Awaits(p, x)'
          /\ Quiet(p) => Quiet(p)'
          /\ OneSender(p)'
      BY <3>1, <2>1, <2>2, <1>0, <1>1, OthersSend
    <3> QED
      BY <2>1, <3>2, WholeStays
  <2>3. CASE Sends(s, p)
    <3>1. /\ ~ Quiet(p) /\ sending[s].path = p
          /\ \A t \in Senders \ {s} : ~ Sends(t, p) /\ ~ Sends(t, p)'
      BY <2>1, <2>3, <1>0, <1>3 DEF Quiet, OneSender, Sends
    <3>2. OneSender(p)'
      BY <3>1 DEF OneSender
    <3>3. ASSUME NEW x \in Stage, Awaits(p, x)
          PROVE  Awaits(p, x)'
      <4>1. /\ HasSent(s, x.sent) /\ (x.torn => sending[s].torn)
            /\ ~ sending[s].torn => rev[p] = x.of
        BY <1>0, <2>3, <3>3, <3>1, OneAwaited DEF IsAt
      <4>2. x.sent = 0
        BY <4>1, <2>1, <1>3 DEF HasSent, Stage
      <4>3. CASE /\ sending'[s] # Idle
                 /\ sending'[s].path = sending[s].path /\ sending'[s].next = 1
                 /\ sending'[s].torn = sending[s].torn
        <5>1. Sends(s, p)' /\ HasSent(s, x.sent)'
          BY <4>2, <4>3, <3>1 DEF Sends, HasSent
        <5> QED
          BY <4>1, <4>3, <5>1, <3>1, <2>1 DEF Awaits, IsAt
      <4>4. CASE sending[s].path \in Unreadable /\ sending'[s] = Idle
        <5>1. Quiet(p)'
          BY <4>4, <3>1 DEF Quiet, Sends
        <5> QED
          BY <4>2, <4>4, <5>1, <3>1 DEF Awaits
      <4> QED
        BY <4>3, <4>4, <2>1
    <3> QED
      BY <2>1, <3>1, <3>2, <3>3, WholeStays
  <2> QED
    BY <2>2, <2>3
<1>6. CASE SendChunk(s)
  <2>1. PICK m \in Msg :
          /\ m.type = "FileTransfer" /\ net' = Append(net, m)
          /\ Sends(s, m.path) /\ sending[s].next = m.data[3]
          /\ m.torn = sending[s].torn /\ m.data[1] = m.path
          /\ ~ m.torn => m.data[2] = rev[m.path]
          /\ m.parses \/ m.path \in NotUtf8
          /\ sending'[s] # Idle
          /\ sending'[s].path = m.path /\ sending'[s].torn = m.torn
          /\ \/ sending'[s].next = m.data[3] + 1
             \/ /\ sending'[s].next = Chunks + 1
                /\ m.path \in Cut \/ m.torn
          /\ sending' = [sending EXCEPT ![s] = sending'[s]]
    BY <1>6, ChunkSent
  <2>2. PICK n \in 1..Chunks : n = m.data[3]
    BY <2>1, Headers
  <2>3. Dated(m) /\ sending[s].path = m.path
    BY <2>1 DEF Dated, Sends
  <2>4. CASE m.path = p
    <3>1. /\ Sends(s, p) /\ Sends(s, p)' /\ ~ Quiet(p)
          /\ \A t \in Senders \ {s} : ~ Sends(t, p) /\ ~ Sends(t, p)'
      BY <2>1, <2>4, <1>0, <1>3 DEF Quiet, OneSender, Sends
    <3>2. OneSender(p)'
      BY <3>1 DEF OneSender
    <3>3. ASSUME NEW x \in Stage, Awaits(p, x)
          PROVE  Fits(m, p, x)
      <4>1. /\ HasSent(s, x.sent) /\ (x.torn => sending[s].torn)
            /\ ~ sending[s].torn => rev[p] = x.of
        BY <1>0, <2>3, <2>4, <3>1, <3>3, OneAwaited DEF IsAt
      <4>2. n = x.sent + 1
        BY <4>1, <2>1, <2>2, <1>3 DEF HasSent
      <4>3. m.data[1] = p /\ m.data[3] = x.sent + 1
        BY <4>2, <2>1, <2>2, <2>4
      <4>4. x.torn => m.torn
        BY <4>1, <2>1
      <4>5. ~ m.torn => m.data[2] = x.of
        BY <4>1, <2>1, <2>4
      <4> QED
        BY <4>3, <4>4, <4>5, <2>1 DEF Fits
    <3>4. Awaits(p, StageOf(m))'
      <4>1. /\ StageOf(m).sent = n /\ StageOf(m).torn = m.torn
            /\ StageOf(m).of = m.data[2]
        BY <2>1, <2>2, <2>3, StagesOfMessages
      <4>2. PICK x : x = StageOf(m)
        OBVIOUS
      <4>3. HasSent(s, n)'
        BY <2>1, <2>2 DEF HasSent, Ends
      <4>4. Awaits(p, x)'
        BY <4>1, <4>2, <4>3, <3>1, <2>1, <2>4, <1>1 DEF Awaits, IsAt
      <4> QED
        BY <4>2, <4>4 DEF StageOf, Age
    <3>5. StreamOf(p)' /\ EntriesOf(p)'
      BY <1>0, <1>1, <2>1, <2>3, <2>4, <3>1, <3>3, <3>4, StreamOnSend
    <3> QED
      BY <1>2, <3>2, <3>5 DEF WholeOf
  <2>5. CASE m.path # p
    <3>1. ~ Sends(s, p) /\ ~ Sends(s, p)'
      BY <2>1, <2>3, <2>5 DEF Sends
    <3>2. /\ \A x \in Stage : Awaits(p, x) => Awaits(p, x)'
          /\ Quiet(p) => Quiet(p)'
          /\ OneSender(p)'
      BY <3>1, <2>1, <1>0, <1>1, OthersSend
    <3>3. StreamOf(p)' /\ EntriesOf(p)'
      BY <1>0, <1>1, <2>1, <2>5, <3>2, StreamOnSend
    <3> QED
      BY <1>2, <3>2, <3>3 DEF WholeOf
  <2> QED
    BY <2>4, <2>5
<1>7. CASE SendEndOfFile(s)
  <2>1. PICK m \in Msg :
          /\ m.type = "EndOfFile" /\ net' = Append(net, m)
          /\ Sends(s, m.path) /\ sending[s].next = Chunks + 1
          /\ m.torn = sending[s].torn
          /\ sending'[s] = Idle
          /\ sending' = [sending EXCEPT ![s] = sending'[s]]
    BY <1>7, EndSent
  <2>2. ~ Dated(m) /\ sending[s].path = m.path
    BY <2>1 DEF Dated, Sends
  <2>3. CASE m.path = p
    <3>1. /\ Sends(s, p) /\ ~ Quiet(p)
          /\ \A t \in Senders : ~ Sends(t, p)'
      BY <2>1, <2>3, <1>0, <1>3 DEF Quiet, OneSender, Sends
    <3>2. OneSender(p)' /\ Quiet(p)'
      BY <3>1 DEF OneSender, Quiet
    <3>3. ASSUME NEW x \in Stage, Awaits(p, x)
          PROVE  Fits(m, p, x)
      <4>1. /\ HasSent(s, x.sent) /\ (x.torn => sending[s].torn)
        BY <1>0, <2>3, <3>1, <3>3, OneAwaited DEF IsAt
      <4>2. Ends(p, x.sent, m.torn)
        BY <4>1, <2>1, <2>2, <2>3, <1>3 DEF HasSent, Ends, Stage
      <4> QED
        BY <4>1, <4>2, <2>1 DEF Fits
    <3>4. StreamOf(p)' /\ EntriesOf(p)'
      BY <1>0, <1>1, <2>1, <2>2, <2>3, <3>1, <3>2, <3>3, StreamOnSend
    <3> QED
      BY <1>2, <3>2, <3>4 DEF WholeOf
  <2>4. CASE m.path # p
    <3>1. ~ Sends(s, p) /\ ~ Sends(s, p)'
      BY <2>1, <2>2, <2>4 DEF Sends
    <3>2. /\ \A x \in Stage : Awaits(p, x) => Awaits(p, x)'
          /\ Quiet(p) => Quiet(p)'
          /\ OneSender(p)'
      BY <3>1, <2>1, <1>0, <1>1, OthersSend
    <3>3. StreamOf(p)' /\ EntriesOf(p)'
      BY <1>0, <1>1, <2>1, <2>4, <3>2, StreamOnSend
    <3> QED
      BY <1>2, <3>2, <3>3 DEF WholeOf
  <2> QED
    BY <2>3, <2>4
<1> QED
  BY <1>4, <1>5, <1>6, <1>7 DEF Send

------------------------------------------------------------------------------
(* Whole files: the receiving end *)

LEMMA StreamOnReceive ==
  ASSUME TypeOK, net # <<>>, net' = Tail(net), UNCHANGED <<rev, sending>>,
         NEW p \in Paths, StreamOf(p)
  PROVE  /\ StreamOf(p)'
         /\ \A x \in Stage :
              /\ GoesOn(p, 1, x) => GoesOn(p, 0, x)'
              /\ net[1].path # p /\ GoesOn(p, 0, x) => GoesOn(p, 0, x)'
         /\ BeginsAnew(p, 1) => BeginsAnew(p, 0)'
<1>1. /\ net \in Seq(Msg) /\ Len(net) \in Nat
      /\ Len(net') = Len(net) - 1
      /\ \A i \in 1..Len(net') : /\ i + 1 \in 1..Len(net)
                                 /\ net'[i] = net[i + 1]
  BY Heads DEF TypeOK
<1>2. /\ \A x : Awaits(p, x) <=> Awaits(p, x)'
      /\ Quiet(p) <=> Quiet(p)'
  BY DEF Awaits, IsAt, Quiet, Sends, HasSent, Ends
<1>3. ASSUME NEW i \in Nat
      PROVE  /\ After(net', p, i) = {} => After(net, p, i + 1) = {}
             /\ \A j \in After(net', p, i) : FirstOf(After(net', p, i), j) =>
                  /\ j + 1 \in After(net, p, i + 1)
                  /\ FirstOf(After(net, p, i + 1), j + 1)
                  /\ net'[j] = net[j + 1]
  <2>1. /\ After(Tail(net), p, i) = {} => After(net, p, i + 1) = {}
        /\ \A j \in After(Tail(net), p, i) :
              FirstOf(After(Tail(net), p, i), j) =>
                /\ j + 1 \in After(net, p, i + 1)
                /\ FirstOf(After(net, p, i + 1), j + 1)
                /\ Tail(net)[j] = net[j + 1]
    BY <1>1, AfterTail
  <2> QED
    BY <2>1
<1>4. ASSUME NEW i \in Nat, NEW x \in Stage, GoesOn(p, i + 1, x)
      PROVE  GoesOn(p, i, x)'
  <2>1. After(net', p, i) = {} => Awaits(p, x)'
    BY <1>2, <1>3, <1>4 DEF GoesOn
  <2>2. ASSUME NEW j \in After(net', p, i), FirstOf(After(net', p, i), j)
        PROVE  Fits(net'[j], p, x)
    BY <1>3, <1>4, <2>2 DEF GoesOn
  <2> QED
    BY <2>1, <2>2 DEF GoesOn, Fits
<1>5. ASSUME NEW i \in Nat, BeginsAnew(p, i + 1)
      PROVE  BeginsAnew(p, i)'
  <2>1. After(net', p, i) = {} => Quiet(p)'
    BY <1>2, <1>3, <1>5 DEF BeginsAnew
  <2>2. ASSUME NEW j \in After(net', p, i), FirstOf(After(net', p, i), j)
        PROVE  net'[j].type = "FileHeader"
    <3>1. /\ j + 1 \in After(net, p, i + 1)
          /\ FirstOf(After(net, p, i + 1), j + 1)
          /\ net'[j] = net[j + 1]
      BY <1>3, <2>2
    <3> HIDE DEF After
    <3>2. net[j + 1].type = "FileHeader"
      BY <3>1, <1>5 DEF BeginsAnew
    <3> QED
      BY <3>1, <3>2
  <2> QED
    BY <2>1, <2>2 DEF BeginsAnew
<1>6. ASSUME NEW i \in 1..Len(net'), net'[i].path = p
      PROVE  Continues(p, i)'
  <2>1. /\ net'[i] = net[i + 1] /\ net[i + 1] \in Msg /\ Continues(p, i + 1)
        /\ i \in Nat
    BY <1>1, <1>6 DEF StreamOf
  <2>2. ASSUME Dated(net[i + 1])
        PROVE  \E x \in Stage : x = StageOf(net'[i]) /\ GoesOn(p, i, x)'
    <3>1. PICK x \in Stage : x = StageOf(net[i + 1]) /\ x = StageOf(net'[i])
      BY <2>1, <2>2, StagesOfMessages
    <3>2. GoesOn(p, i + 1, x)
      BY <2>1, <2>2, <3>1 DEF Continues
    <3>3. GoesOn(p, i, x)'
      BY <2>1, <3>2, <1>4
    <3> QED
      BY <3>1, <3>3
  <2>3. ~ Dated(net[i + 1]) => BeginsAnew(p, i)'
    BY <2>1, <1>5 DEF Continues
  <2> QED
    BY <2>1, <2>2, <2>3 DEF Continues, Dated, StageOf, Age
<1>7. ASSUME net[1].path # p
      PROVE  After(net, p, 0) = After(net, p, 1)
  <2>1. \A j \in 1..Len(net) : net[j].path = p => j # 1
    BY <1>7
  <2> QED
    BY <2>1, <1>1 DEF After
<1>8. \A x \in Stage :
        net[1].path # p /\ GoesOn(p, 0, x) => GoesOn(p, 1, x)
  BY <1>7 DEF GoesOn
<1>9. \A x \in Stage : GoesOn(p, 1, x) => GoesOn(p, 0, x)'
  <2>1. 0 + 1 = 1
    OBVIOUS
  <2> QED
    BY <2>1, <1>4
<1>10. BeginsAnew(p, 1) => BeginsAnew(p, 0)'
  <2>1. 0 + 1 = 1
    OBVIOUS
  <2> QED
    BY <2>1, <1>5
<1> QED
  BY <1>6, <1>8, <1>9, <1>10 DEF StreamOf

(* Entries of another path are found, in their order, where they are now.  *)
LEMMA EntriesOfOthers ==
  ASSUME TypeOK, TypeOK', NEW p \in Paths, EntriesOf(p),
         \A x \in Stage : GoesOn(p, 0, x) => GoesOn(p, 0, x)',
         NEW g,
         \A j \in EntriesFor(p)' : /\ g[j] \in EntriesFor(p)
                                   /\ entries'[j] = entries[g[j]],
         \A i, j \in EntriesFor(p)' : i < j => g[i] < g[j],
         \A i \in EntriesFor(p) : \E j \in EntriesFor(p)' : g[j] = i
  PROVE  EntriesOf(p)'
<1>1. ASSUME NEW i \in EntriesFor(p)', NEW j \in EntriesFor(p)', i < j
      PROVE  p \in Unreadable /\ entries'[j].data = <<>>
  BY <1>1 DEF EntriesOf
<1>2. ASSUME NEW j \in EntriesFor(p)', FirstOf(EntriesFor(p)', j)
      PROVE  \E x \in Stage : Holds(entries'[j], x) /\ GoesOn(p, 0, x)'
  <2>1. ASSUME NEW i \in EntriesFor(p)
        PROVE  g[j] <= i
    <3>1. PICK l \in EntriesFor(p)' : g[l] = i
      OBVIOUS
    <3>2. j <= l /\ j \in Nat /\ l \in Nat
      BY <1>2 DEF FirstOf, EntriesFor
    <3>3. g[j] \in Nat /\ i \in Nat
      BY DEF EntriesFor
    <3> QED
      BY <3>1, <3>2, <3>3
  <2>2. FirstOf(EntriesFor(p), g[j])
    BY <2>1 DEF FirstOf
  <2>3. PICK x \in Stage : Holds(entries[g[j]], x) /\ GoesOn(p, 0, x)
    BY <2>2 DEF EntriesOf
  <2> QED
    BY <2>3
<1> QED
  BY <1>1, <1>2 DEF EntriesOf, Holds

LEMMA OthersOnReceive ==
  ASSUME TypeOK, TypeOK', ReceiveNext,
         NEW p \in Paths, WholeOf(p), Head(net).path # p
  PROVE  WholeOf(p)'
<1>1. /\ net # <<>> /\ net' = Tail(net) /\ UNCHANGED <<rev, sending, mixed>>
  BY EntriesAfter
<1>2. Head(net) = net[1] /\ net[1] \in Msg
  BY <1>1, Heads
<1>3. /\ StreamOf(p) /\ OneSender(p) /\ EntriesOf(p) /\ TransferredOf(p)
  BY DEF WholeOf
<1>4. /\ StreamOf(p)'
      /\ \A x \in Stage : GoesOn(p, 0, x) => GoesOn(p, 0, x)'
  BY <1>1, <1>2, <1>3, StreamOnReceive
<1>5. OneSender(p)'
  BY <1>1, <1>3 DEF OneSender, Sends
<1>6. entries \in Seq(Entry) /\ entries' \in Seq(Entry) /\ Len(entries) \in Nat
  BY DEF TypeOK
<1>7. ASSUME EntriesFor(p)' = EntriesFor(p),
             \A j \in EntriesFor(p) : entries'[j] = entries[j]
      PROVE  EntriesOf(p)'
  <2>1. PICK g : g = [j \in EntriesFor(p) |-> j]
    OBVIOUS
  <2>2. /\ \A j \in EntriesFor(p)' : /\ g[j] \in EntriesFor(p)
                                     /\ entries'[j] = entries[g[j]]
        /\ \A i, j \in EntriesFor(p)' : i < j => g[i] < g[j]
        /\ \A i \in EntriesFor(p) : \E j \in EntriesFor(p)' : g[j] = i
    BY <1>7, <2>1
  <2> QED
    BY <2>2, <1>3, <1>4, EntriesOfOthers
<1>8. CASE ReceiveHeader
  <2>1. TransferredOf(p)'
    BY <1>8, <1>3 DEF ReceiveHeader, TransferredOf, Holds, Ends
  <2>2. ASSUME UNCHANGED entries
        PROVE  EntriesOf(p)'
    BY <2>2, <1>7 DEF EntriesFor
  <2>3. ASSUME NEW e, e.path # p, entries' = Append(entries, e)
        PROVE  EntriesOf(p)'
    <3>1. /\ Len(entries') = Len(entries) + 1
          /\ entries'[Len(entries) + 1] = e
          /\ \A j \in 1..Len(entries) : entries'[j] = entries[j]
      BY <2>3, <1>6
    <3>2. EntriesFor(p)' = EntriesFor(p)
      BY <3>1, <2>3, <1>6 DEF EntriesFor
    <3> QED
      BY <3>1, <3>2, <1>7 DEF EntriesFor
  <2>4. PICK e : /\ e.path # p
                 /\ entries' \in {entries, Append(entries, e)}
    <3>1. PICK e : e = [path |-> Head(net).path, mtime |-> Head(net).mtime,
                        data |-> <<>>]
      OBVIOUS
    <3> QED
      BY <3>1, <1>8 DEF ReceiveHeader
  <2>5. EntriesOf(p)'
    BY <2>2, <2>3, <2>4, <1>7
  <2> QED
    BY <2>1, <2>5, <1>4, <1>5 DEF WholeOf
<1>9. CASE ReceiveChunk
  <2>1. TransferredOf(p)'
    BY <1>9, <1>3 DEF ReceiveChunk, TransferredOf, Holds, Ends
  <2>2. ASSUME UNCHANGED entries
        PROVE  EntriesOf(p)'
    BY <2>2, <1>7 DEF EntriesFor
  <2>3. ASSUME NEW i \in 1..Len(entries), entries[i].path # p, NEW d,
               entries' = [entries EXCEPT ![i].data = d]
        PROVE  EntriesOf(p)'
    <3>1. [entries[i] EXCEPT !.data = d].path = entries[i].path
      <4>1. entries[i] \in Entry
        BY <1>6
      <4> QED
        BY <4>1 DEF Entry
    <3>2. entries' = [entries EXCEPT ![i] = [entries[i] EXCEPT !.data = d]]
      BY <2>3
    <3>3. /\ Len(entries') = Len(entries)
          /\ \A j \in 1..Len(entries) : entries'[j] =
               IF j = i THEN [entries[i] EXCEPT !.data = d] ELSE entries[j]
      BY <3>2, <1>6
    <3>4. EntriesFor(p)' = EntriesFor(p)
      BY <3>1, <3>3, <2>3 DEF EntriesFor
    <3> QED
      BY <3>3, <3>4, <2>3, <1>7 DEF EntriesFor
  <2>4. EntriesOf(p)'
    <3>1. CASE EntriesFor(Head(net).path) = {}
      BY <3>1, <2>2, <1>9 DEF ReceiveChunk
    <3>2. CASE EntriesFor(Head(net).path) # {}
      <4>1. PICK i \in 1..Len(entries) :
              i = First(EntriesFor(Head(net).path)) /\ entries[i].path # p
        BY <3>2, FoundIsFirst DEF EntriesFor
      <4>2. PICK d : d = Append(entries[i].data, Head(net).data)
        OBVIOUS
      <4>3. \/ UNCHANGED entries
            \/ entries' = [entries EXCEPT ![i].data = d]
        BY <4>1, <4>2, <1>9 DEF ReceiveChunk
      <4> QED
        BY <4>1, <4>3, <2>2, <2>3
    <3> QED
      BY <3>1, <3>2
  <2> QED
    BY <2>1, <2>4, <1>4, <1>5 DEF WholeOf
<1>10. CASE ReceiveEndOfFile
  <2>1. CASE EntriesFor(Head(net).path) = {}
    <3>1. UNCHANGED <<entries, transferred>>
      BY <2>1, <1>10 DEF ReceiveEndOfFile
    <3>2. EntriesOf(p)'
      BY <3>1, <1>7 DEF EntriesFor
    <3>3. TransferredOf(p)'
      BY <3>1, <1>3 DEF TransferredOf, Holds, Ends
    <3> QED
      BY <3>2, <3>3, <1>4, <1>5 DEF WholeOf
  <2>2. CASE EntriesFor(Head(net).path) # {}
    <3>1. PICK i \in 1..Len(entries) :
            i = First(EntriesFor(Head(net).path)) /\ entries[i].path # p
      BY <2>2, FoundIsFirst DEF EntriesFor
    <3>2. /\ transferred' =
               transferred \cup {Logged(entries[i], Head(net).torn)}
          /\ entries' = Erased(entries, i)
      BY <2>2, <3>1, <1>10 DEF ReceiveEndOfFile
    <3>3. TransferredOf(p)'
      <4>1. Logged(entries[i], Head(net).torn).path # p
        BY <3>1 DEF Logged
      <4> QED
        BY <4>1, <3>2, <1>3 DEF TransferredOf, Holds, Ends
    <3>4. /\ Len(entries') = Len(entries) - 1
          /\ \A j \in 1..Len(entries') : /\ Moved(i, j) \in 1..Len(entries)
                                         /\ entries'[j] = entries[Moved(i, j)]
      <4>1. /\ Len(Erased(entries, i)) = Len(entries) - 1
            /\ \A j \in 1..Len(Erased(entries, i)) :
                 /\ Moved(i, j) \in 1..Len(entries)
                 /\ Erased(entries, i)[j] = entries[Moved(i, j)]
        BY <1>6, ErasedElements
      <4> QED
        BY <4>1, <3>2
    <3>5. PICK g : g = [j \in 1..Len(entries') |-> Moved(i, j)]
      OBVIOUS
    <3>6. EntriesFor(p)' \subseteq 1..Len(entries')
      BY DEF EntriesFor
    <3>7. \A j \in EntriesFor(p)' : /\ g[j] \in EntriesFor(p)
                                    /\ entries'[j] = entries[g[j]]
      BY <3>4, <3>5 DEF EntriesFor
    <3>8. \A l, j \in EntriesFor(p)' : l < j => g[l] < g[j]
      BY <3>5, <3>6 DEF Moved
    <3>9. ASSUME NEW l \in EntriesFor(p)
          PROVE  \E j \in EntriesFor(p)' : g[j] = l
      <4>1. l \in 1..Len(entries) /\ l # i /\ entries[l].path = p
        BY <3>1 DEF EntriesFor
      <4>2. PICK j \in 1..Len(entries') : Moved(i, j) = l
        <5>1. CASE l < i
          BY <5>1, <4>1, <3>4, <1>6 DEF Moved
        <5>2. CASE l > i
          <6>1. l - 1 \in 1..Len(entries') /\ ~(l - 1 < i)
            BY <5>2, <4>1, <3>4, <1>6
          <6>2. Moved(i, l - 1) = l
            BY <6>1, <4>1 DEF Moved
          <6> QED
            BY <6>1, <6>2
        <5> QED
          BY <5>1, <5>2, <4>1
      <4> QED
        BY <4>1, <4>2, <3>4, <3>5 DEF EntriesFor
    <3>10. EntriesOf(p)'
      BY <3>7, <3>8, <3>9, <1>3, <1>4, EntriesOfOthers
    <3> QED
      BY <3>3, <3>10, <1>4, <1>5 DEF WholeOf
  <2> QED
    BY <2>1, <2>2
<1> QED
  BY <1>8, <1>9, <1>10 DEF ReceiveNext

(* The next chunk is of the path, and of the revision if it is not torn;   *)
(* where it does not parse, only the stage goes on.                        *)
LEMMA ChunkFits ==
  ASSUME NEW p \in Paths, NEW e \in Entry, e.path = p, NEW x \in Stage,
         Holds(e, x), NEW m \in Msg, m.type = "FileTransfer", Fits(m, p, x)
  PROVE  /\ p \in NotUtf8 => Holds(e, StageOf(m))
         /\ Holds([e EXCEPT !.data = Append(@, m.data)], StageOf(m))
<1>1. /\ Dated(m) /\ m.data \in Chunk /\ m.torn \in BOOLEAN
      /\ m.data[1] = p /\ m.data[3] = x.sent + 1
      /\ (x.torn => m.torn) /\ (~ m.torn => m.data[2] = x.of)
      /\ x.sent \in Nat /\ x.torn \in BOOLEAN /\ m.data[3] \in 1..Chunks
  BY Headers, TransferAssumption DEF Fits, Dated, Chunk, Stage
<1>2. PICK y : /\ y = StageOf(m) /\ y.sent = x.sent + 1 /\ y.torn = m.torn
               /\ ~ m.torn => y.of = x.of
  BY <1>1, StagesOfMessages
<1>3. /\ e.data \in Seq(Chunk) /\ Len(e.data) \in Nat
      /\ \A i \in 1..Len(e.data) : e.data[i][3] \in Nat
  <2>1. e.data \in Seq(Chunk)
    BY DEF Entry
  <2>2. \A c \in Chunk : c[3] \in Nat
    BY TransferAssumption DEF Chunk
  <2> QED
    BY <2>1, <2>2
<1>4. p \in NotUtf8 => Holds(e, y)
  <2> SUFFICES ASSUME p \in NotUtf8
               PROVE  Holds(e, y)
    OBVIOUS
  <2>1. \A i \in 1..Len(e.data) : e.data[i][3] <= y.sent
    BY <1>1, <1>2, <1>3 DEF Holds
  <2>2. ~ y.torn => ~ x.torn /\ y.of = x.of
    BY <1>1, <1>2
  <2> QED
    BY <2>1, <2>2 DEF Holds
<1>5. PICK d : d = [e EXCEPT !.data = Append(@, m.data)]
  OBVIOUS
<1>6. /\ d.path = p /\ d.mtime = e.mtime /\ d.data = Append(e.data, m.data)
  BY <1>5 DEF Entry
<1>7. /\ Len(d.data) = Len(e.data) + 1 /\ d.data[Len(e.data) + 1] = m.data
      /\ \A i \in 1..Len(e.data) : d.data[i] = e.data[i]
  BY <1>1, <1>3, <1>6
<1>8. ASSUME NEW i \in 1..Len(d.data)
      PROVE  /\ d.data[i][1] = p /\ d.data[i][3] <= y.sent
             /\ \A j \in 1..(i - 1) : d.data[j][3] < d.data[i][3]
             /\ p \notin NotUtf8 => d.data[i][3] = i
             /\ ~ y.torn => d.data[i][2] = y.of
  <2>1. CASE i \in 1..Len(e.data)
    <3>1. /\ e.data[i][1] = p /\ e.data[i][3] <= x.sent
          /\ \A j \in 1..(i - 1) : e.data[j][3] < e.data[i][3]
          /\ p \notin NotUtf8 => e.data[i][3] = i
          /\ ~ x.torn => e.data[i][2] = x.of
      BY <2>1 DEF Holds
    <3>2. d.data[i] = e.data[i] /\ e.data[i][3] \in Nat
      BY <2>1, <1>3, <1>7
    <3>3. \A j \in 1..(i - 1) : d.data[j] = e.data[j]
      BY <2>1, <1>3, <1>7
    <3>4. d.data[i][1] = p /\ d.data[i][3] <= y.sent
      BY <3>1, <3>2, <1>1, <1>2
    <3>5. /\ \A j \in 1..(i - 1) : d.data[j][3] < d.data[i][3]
          /\ p \notin NotUtf8 => d.data[i][3] = i
      BY <3>1, <3>2, <3>3
    <3>6. ~ y.torn => d.data[i][2] = y.of
      BY <3>1, <3>2, <1>1, <1>2
    <3> QED
      BY <3>4, <3>5, <3>6
  <2>2. CASE i = Len(e.data) + 1
    <3>1. d.data[i] = m.data
      BY <2>2, <1>7
    <3>2. \A j \in 1..(i - 1) :
            d.data[j] = e.data[j] /\ e.data[j][3] <= x.sent /\ e.data[j][3] \in Nat
      BY <2>2, <1>3, <1>7 DEF Holds
    <3>3. p \notin NotUtf8 => Len(e.data) = x.sent
      BY DEF Holds
    <3>4. d.data[i][1] = p /\ d.data[i][3] = y.sent /\ y.sent = x.sent + 1
      BY <3>1, <1>1, <1>2
    <3>5. ASSUME NEW j \in 1..(i - 1)
          PROVE  d.data[j][3] < d.data[i][3]
      <4>1. PICK a \in Nat : a = d.data[j][3] /\ a <= x.sent
        BY <3>2
      <4> QED
        BY <4>1, <3>4, <1>1
    <3>6. p \notin NotUtf8 => d.data[i][3] = i
      BY <3>3, <3>4, <2>2
    <3>7. ~ y.torn => d.data[i][2] = y.of
      BY <3>1, <1>1, <1>2
    <3>8. d.data[i][3] <= y.sent
      BY <3>4, <1>1
    <3> QED
      BY <3>4, <3>5, <3>6, <3>7, <3>8
  <2> QED
    BY <2>1, <2>2, <1>3, <1>7
<1>9. /\ p \notin NotUtf8 => Len(d.data) = y.sent
      /\ ~ y.torn => d.mtime <= y.of
      /\ ~ y.torn /\ p \notin Unreadable => d.mtime = y.of
  <2>1. ~ y.torn => ~ x.torn /\ y.of = x.of
    BY <1>1, <1>2
  <2> QED
    BY <2>1, <1>2, <1>6, <1>7 DEF Holds
<1>10. Holds(d, y)
  BY <1>6, <1>8, <1>9 DEF Holds
<1> QED
  BY <1>2, <1>4, <1>5, <1>10

LEMMA OwnOnReceive ==
  ASSUME TypeOK, TypeOK', AgesInv, ReceiveNext,
         NEW p \in Paths, WholeOf(p), Head(net).path = p
  PROVE  WholeOf(p)'
<1>1. /\ net # <<>> /\ net' = Tail(net) /\ UNCHANGED <<rev, sending, mixed>>
  BY EntriesAfter
<1>2. /\ Head(net) = net[1] /\ net[1] \in Msg /\ net[1].path = p
      /\ 1 \in 1..Len(net)
  BY <1>1, Heads
<1>3. /\ StreamOf(p) /\ OneSender(p) /\ EntriesOf(p) /\ TransferredOf(p)
  BY DEF WholeOf
<1>4. /\ StreamOf(p)'
      /\ \A x \in Stage : GoesOn(p, 1, x) => GoesOn(p, 0, x)'
      /\ BeginsAnew(p, 1) => BeginsAnew(p, 0)'
  BY <1>1, <1>2, <1>3, StreamOnReceive
<1>5. OneSender(p)'
  BY <1>1, <1>3 DEF OneSender, Sends
<1>6. /\ entries \in Seq(Entry) /\ entries' \in Seq(Entry)
      /\ Len(entries) \in Nat
      /\ \A i \in 1..Len(entries) : entries[i] \in Entry
  BY DEF TypeOK
<1>7. Continues(p, 1)
  BY <1>2, <1>3 DEF StreamOf
<1>8. ASSUME NEW x \in Stage, GoesOn(p, 0, x)
      PROVE  Fits(net[1], p, x)
  <2>1. 1 \in After(net, p, 0) /\ FirstOf(After(net, p, 0), 1)
    BY <1>2 DEF After, FirstOf
  <2> QED
    BY <2>1, <1>8 DEF GoesOn
<1>9. /\ \A i \in EntriesFor(p) : i \in 1..Len(entries) /\ i \in Nat
      /\ \A i \in EntriesFor(p) : entries[i].path = p /\ entries[i] \in Entry
  BY <1>6 DEF EntriesFor
(* What the first entry says of the message that comes. *)
<1>10. ASSUME NEW i \in EntriesFor(p), FirstOf(EntriesFor(p), i)
       PROVE  \E x \in Stage : Holds(entries[i], x) /\ Fits(net[1], p, x)
  BY <1>3, <1>8, <1>10 DEF EntriesOf
<1>11. ASSUME EntriesFor(p) = {}, UNCHANGED entries
       PROVE  EntriesOf(p)'
  BY <1>11 DEF EntriesOf, EntriesFor
<1>12. /\ Rev = 0..MaxRev /\ MaxRev \in Nat /\ Chunks \in Nat \ {0}
  BY TransferAssumption DEF Rev
<1>13. CASE ReceiveHeader
  <2>1. TransferredOf(p)'
    BY <1>13, <1>3 DEF ReceiveHeader, TransferredOf, Holds, Ends
  <2>2. /\ net[1].type = "FileHeader" /\ net[1].mtime \in Rev
        /\ Dated(net[1]) /\ Age(net[1]) = net[1].mtime
    BY <1>2, <1>13, Headers DEF ReceiveHeader, Receive, Dated, Age
  <2>3. PICK x \in Stage :
          /\ x = StageOf(net[1]) /\ x.sent = 0 /\ x.of = net[1].mtime
          /\ x.torn = net[1].torn
    BY <1>2, <2>2, StagesOfMessages
  <2>4. GoesOn(p, 0, x)'
    BY <2>2, <2>3, <1>4, <1>7 DEF Continues
  <2>5. PICK e : e = [path |-> p, mtime |-> net[1].mtime, data |-> <<>>]
    OBVIOUS
  <2>6. entries' = entries \/ entries' = Append(entries, e)
    BY <2>5, <1>2, <1>13 DEF ReceiveHeader
  <2>7. \A j \in 1..Len(entries) :
          /\ j \in 1..Len(entries') /\ entries'[j] = entries[j]
    BY <2>6, <1>6
  <2>8. ASSUME NEW i \in EntriesFor(p)', i \notin EntriesFor(p)
        PROVE  i = Len(entries) + 1 /\ entries'[i] = e
    BY <2>6, <2>8, <1>6 DEF EntriesFor
  (* An entry from before is of a file that could not be opened. *)
  <2>9. ASSUME NEW i \in EntriesFor(p)
        PROVE  /\ p \in Unreadable /\ entries[i].data = <<>>
               /\ ~ x.torn => entries[i].mtime <= x.of
    <3>1. PICK f \in EntriesFor(p) : FirstOf(EntriesFor(p), f)
      BY FoundIsFirst
    <3>2. PICK y \in Stage : Holds(entries[f], y) /\ Fits(net[1], p, y)
      BY <3>1, <1>10
    <3>3. y.sent = 0 /\ p \in Unreadable
      BY <3>2, <2>2 DEF Fits
    <3>4. entries[f].data = <<>>
      <4>1. entries[f].data \in Seq(Chunk)
        BY <1>9 DEF Entry
      <4>2. ASSUME Len(entries[f].data) # 0
            PROVE  FALSE
        <5>1. 1 \in 1..Len(entries[f].data)
          BY <4>1, <4>2
        <5>2. entries[f].data[1] \in Chunk
          BY <4>1, <5>1
        <5>3. entries[f].data[1][3] \in 1..Chunks
          BY <5>2 DEF Chunk
        <5>4. entries[f].data[1][3] <= 0
          BY <5>1, <3>2, <3>3 DEF Holds
        <5> QED
          BY <5>3, <5>4, TransferAssumption
      <4> QED
        BY <4>1, <4>2
    <3>5. f < i => entries[i].data = <<>>
      BY <1>3 DEF EntriesOf
    <3>6. f <= i
      BY <3>1 DEF FirstOf
    <3>7. ~ x.torn => entries[i].mtime <= x.of
      BY <2>2, <2>3, <1>2, <1>9 DEF AgesInv
    <3> QED
      BY <3>3, <3>4, <3>5, <3>6, <3>7, <1>9
  <2>10. ASSUME NEW i \in EntriesFor(p)'
         PROVE  /\ i \in Nat /\ entries'[i].data = <<>> /\ entries'[i].path = p
                /\ ~ x.torn => entries'[i].mtime <= x.of
                /\ ~ x.torn /\ p \notin Unreadable => entries'[i].mtime = x.of
                /\ p \notin Unreadable => i = Len(entries) + 1
    <3>1. CASE i \in EntriesFor(p)
      BY <3>1, <2>7, <2>9, <1>9
    <3>2. CASE i \notin EntriesFor(p)
      BY <3>2, <2>2, <2>3, <2>5, <2>8, <1>6, <1>12
    <3> QED
      BY <3>1, <3>2
  <2>11. \A i, j \in EntriesFor(p)' :
           i < j => p \in Unreadable /\ entries'[j].data = <<>>
    BY <2>10, <1>6
  <2>12. ASSUME NEW i \in EntriesFor(p)'
         PROVE  Holds(entries'[i], x)
    <3>1. Len(entries'[i].data) = 0
      BY <2>10
    <3> QED
      BY <3>1, <2>3, <2>10 DEF Holds
  <2>13. EntriesOf(p)'
    BY <2>4, <2>11, <2>12 DEF EntriesOf, Holds
  <2> QED
    BY <2>1, <2>13, <1>4, <1>5 DEF WholeOf
<1>14. CASE ReceiveChunk
  <2>1. TransferredOf(p)'
    BY <1>14, <1>3 DEF ReceiveChunk, TransferredOf, Holds, Ends
  <2>2. net[1].type = "FileTransfer" /\ Dated(net[1])
    BY <1>2, <1>14 DEF ReceiveChunk, Receive, Dated
  <2>3. PICK y \in Stage : y = StageOf(net[1])
    BY <1>2, <2>2, StagesOfMessages
  <2>4. GoesOn(p, 0, y)' /\ (net[1].parses \/ p \in NotUtf8)
    BY <2>2, <2>3, <1>4, <1>7 DEF Continues
  <2>5. EntriesOf(p)'
    <3>1. CASE EntriesFor(p) = {}
      BY <3>1, <1>2, <1>11, <1>14 DEF ReceiveChunk
    <3>2. CASE EntriesFor(p) # {}
      <4>1. PICK f \in EntriesFor(p) : /\ f = First(EntriesFor(p))
                                       /\ FirstOf(EntriesFor(p), f)
        BY <3>2, FoundIsFirst
      <4>2. PICK x \in Stage : Holds(entries[f], x) /\ Fits(net[1], p, x)
        BY <4>1, <1>10
      <4>3. PICK d : d = [entries[f] EXCEPT !.data = Append(@, net[1].data)]
        OBVIOUS
      <4>4. /\ p \in NotUtf8 => Holds(entries[f], y)
            /\ Holds(d, y) /\ d.path = p
        <5>1. d.path = p
          BY <4>3, <1>9 DEF Entry
        <5> QED
          BY <4>2, <4>3, <5>1, <2>2, <2>3, <1>2, <1>9, ChunkFits
      <4>5. PICK e : /\ Holds(e, y) /\ e.path = p
                     /\ entries' = [entries EXCEPT ![f] = e]
        <5>1. CASE net[1].parses
          <6>1. entries' = [entries EXCEPT ![f].data = Append(@, net[1].data)]
            BY <5>1, <3>2, <4>1, <1>2, <1>14 DEF ReceiveChunk
          <6>2. entries' = [entries EXCEPT ![f] = d]
            BY <6>1, <4>3
          <6> QED
            BY <6>2, <4>4
        <5>2. CASE ~ net[1].parses
          <6>1. entries' = entries
            BY <5>2, <1>2, <1>14 DEF ReceiveChunk
          <6>2. entries' = [entries EXCEPT ![f] = entries[f]]
            BY <6>1, <1>6, <1>9
          <6> QED
            BY <5>2, <6>2, <4>4, <2>4, <1>9
        <5> QED
          BY <5>1, <5>2
      <4>6. /\ Len(entries') = Len(entries)
            /\ \A j \in 1..Len(entries) :
                 entries'[j] = IF j = f THEN e ELSE entries[j]
        BY <4>5, <1>6, <1>9
      <4>7. EntriesFor(p)' = EntriesFor(p)
        BY <4>5, <4>6, <1>9 DEF EntriesFor
      <4>8. \A i, j \in EntriesFor(p) :
              i < j => p \in Unreadable /\ entries'[j].data = <<>>
        <5>1. \A j \in EntriesFor(p) : f <= j
          BY <4>1 DEF FirstOf
        <5>2. \A i, j \in EntriesFor(p) : i < j => j # f
          BY <5>1, <1>9
        <5> QED
          BY <5>2, <4>6, <1>3, <1>9 DEF EntriesOf
      <4>9. ASSUME NEW i \in EntriesFor(p), FirstOf(EntriesFor(p), i)
            PROVE  Holds(entries'[i], y)
        <5>1. i = f
          BY <4>1, <4>9, <1>9 DEF FirstOf
        <5> QED
          BY <5>1, <4>5, <4>6, <1>9
      <4> QED
        BY <4>7, <4>8, <4>9, <2>4 DEF EntriesOf, Holds
    <3> QED
      BY <3>1, <3>2
  <2> QED
    BY <2>1, <2>5, <1>4, <1>5 DEF WholeOf
<1>15. CASE ReceiveEndOfFile
  <2>1. net[1].type = "EndOfFile" /\ ~ Dated(net[1]) /\ net[1].torn \in BOOLEAN
    BY <1>2, <1>15, Headers DEF ReceiveEndOfFile, Receive, Dated
  <2>2. BeginsAnew(p, 0)'
    BY <1>4, <1>7, <2>1 DEF Continues
  <2>3. CASE EntriesFor(p) = {}
    <3>1. UNCHANGED <<entries, transferred>>
      BY <2>3, <1>2, <1>15 DEF ReceiveEndOfFile
    <3>2. TransferredOf(p)'
      BY <3>1, <1>3 DEF TransferredOf, Holds, Ends
    <3> QED
      BY <2>3, <3>1, <3>2, <1>4, <1>5, <1>11 DEF WholeOf
  <2>4. CASE EntriesFor(p) # {}
    <3>1. PICK f \in EntriesFor(p) : /\ f = First(EntriesFor(p))
                                     /\ FirstOf(EntriesFor(p), f)
      BY <2>4, FoundIsFirst
    <3>2. PICK x \in Stage : Holds(entries[f], x) /\ Fits(net[1], p, x)
      BY <3>1, <1>10
    <3>3. (x.torn => net[1].torn) /\ Ends(p, x.sent, net[1].torn)
      BY <3>2, <2>1 DEF Fits
    <3>4. PICK t : t = Logged(entries[f], net[1].torn)
      OBVIOUS
    <3>5. /\ transferred' = transferred \cup {t}
          /\ entries' = Erased(entries, f)
      BY <2>4, <3>1, <3>4, <1>2, <1>15 DEF ReceiveEndOfFile
    <3>6. TransferredOf(p)'
      <4>1. /\ t.path = entries[f].path /\ t.mtime = entries[f].mtime
            /\ t.data = entries[f].data /\ t.torn = net[1].torn
        BY <3>4 DEF Logged
      <4>2. PICK y : y = [sent |-> x.sent, of |-> x.of, torn |-> net[1].torn]
        OBVIOUS
      <4>3. /\ y \in Stage /\ y.sent = x.sent /\ y.of = x.of
            /\ y.torn = t.torn /\ (~ y.torn => ~ x.torn)
        BY <4>1, <4>2, <3>3, <2>1 DEF Stage
      <4>4. Holds(t, y)
        BY <4>1, <4>3, <3>2 DEF Holds
      <4>5. Ends(p, y.sent, t.torn)
        BY <4>1, <4>3, <3>3
      <4> QED
        BY <4>3, <4>4, <4>5, <3>5, <1>3 DEF TransferredOf, Holds, Ends
    <3>7. /\ Len(entries') = Len(entries) - 1
          /\ \A j \in 1..Len(entries') : /\ Moved(f, j) \in 1..Len(entries)
                                         /\ entries'[j] = entries[Moved(f, j)]
      <4>1. /\ Len(Erased(entries, f)) = Len(entries) - 1
            /\ \A j \in 1..Len(Erased(entries, f)) :
                 /\ Moved(f, j) \in 1..Len(entries)
                 /\ Erased(entries, f)[j] = entries[Moved(f, j)]
        BY <1>6, <1>9, ErasedElements
      <4> QED
        BY <4>1, <3>5
    <3>8. ASSUME NEW j \in EntriesFor(p)'
          PROVE  /\ p \in Unreadable /\ entries'[j].data = <<>>
                 /\ entries'[j].path = p /\ entries'[j].mtime \in Rev
      <4>1. j \in 1..Len(entries') /\ entries'[j].path = p
        BY DEF EntriesFor
      <4>2. /\ Moved(f, j) \in EntriesFor(p) /\ Moved(f, j) # f
            /\ entries'[j] = entries[Moved(f, j)]
        BY <4>1, <3>7, <1>9 DEF EntriesFor, Moved
      <4>3. f < Moved(f, j)
        BY <4>2, <3>1, <1>9 DEF FirstOf
      <4>4. entries[Moved(f, j)].mtime \in Rev
        BY <4>2, <1>9 DEF Entry
      <4> QED
        BY <4>1, <4>2, <4>3, <4>4, <1>3 DEF EntriesOf
    <3>9. ASSUME NEW j \in EntriesFor(p)'
          PROVE  \E x0 \in Stage : Holds(entries'[j], x0) /\ GoesOn(p, 0, x0)'
      <4>1. PICK y : y = [sent |-> 0, of |-> entries'[j].mtime, torn |-> FALSE]
        OBVIOUS
      <4>2. /\ y \in Stage /\ y.sent = 0 /\ y.of = entries'[j].mtime
            /\ y.of \in Nat
        BY <4>1, <3>8, <1>12 DEF Stage
      <4>3. Len(entries'[j].data) = 0
        BY <3>8
      <4>4. Holds(entries'[j], y)
        BY <4>2, <4>3, <3>8 DEF Holds
      <4>5. GoesOn(p, 0, y)'
        BY <2>2, <3>8, <4>2 DEF GoesOn, BeginsAnew, Fits, Awaits
      <4> QED
        BY <4>2, <4>4, <4>5
    <3>10. EntriesOf(p)'
      BY <3>8, <3>9 DEF EntriesOf, Holds
    <3> QED
      BY <3>6, <3>10, <1>4, <1>5 DEF WholeOf
  <2> QED
    BY <2>3, <2>4
<1> QED
  BY <1>13, <1>14, <1>15 DEF ReceiveNext

(* A file written anew is another one only for who has begun to send it.   *)
LEMMA WholeOnRewrite ==
  ASSUME TypeOK, NEW p \in Paths, NEW q \in Paths, BeginRewrite(q), WholeOf(p)
  PROVE  WholeOf(p)'
<1>1. UNCHANGED <<net, entries, transferred>>
  BY RewriteBegun
<1>2. /\ q # p => rev'[p] = rev[p]
      /\ \A s \in Senders :
              IF Sends(s, q)
              THEN /\ sending'[s] # Idle
                   /\ sending'[s].path = q /\ sending'[s].torn
                   /\ sending'[s].next = sending[s].next
              ELSE sending'[s] = sending[s]
  BY RewriteBegun
<1>3. \A s \in Senders : Sends(s, p)' <=> Sends(s, p)
  BY <1>2 DEF Sends
<1>4. (Quiet(p) <=> Quiet(p)') /\ OneSender(p)'
  BY <1>3 DEF Quiet, OneSender, WholeOf
<1>5. ASSUME NEW x \in Stage, Awaits(p, x)
      PROVE  Awaits(p, x)'
  <2>1. CASE x.sent = 0 /\ p \in Unreadable /\ Quiet(p)
    BY <2>1, <1>4 DEF Awaits
  <2>2. CASE \E s \in Senders : Sends(s, p) /\ IsAt(s, x)
    <3>1. PICK s \in Senders : Sends(s, p) /\ IsAt(s, x)
      BY <2>2
    <3>2. CASE q = p
      <4>1. /\ sending'[s].path = sending[s].path /\ sending'[s].torn
            /\ sending'[s].next = sending[s].next /\ Sends(s, p)'
        BY <3>1, <3>2, <1>2, <1>3 DEF Sends
      <4>2. HasSent(s, x.sent)'
        BY <3>1, <4>1 DEF IsAt, HasSent, Ends
      <4> QED
        BY <4>1, <4>2 DEF Awaits, IsAt
    <3>3. CASE q # p
      <4>1. sending'[s] = sending[s] /\ Sends(s, p)' /\ rev'[p] = rev[p]
        BY <3>1, <3>3, <1>2, <1>3 DEF Sends
      <4>2. IsAt(s, x)'
        BY <3>1, <4>1 DEF IsAt, HasSent, Ends, Sends
      <4> QED
        BY <4>1, <4>2 DEF Awaits
    <3> QED
      BY <3>2, <3>3
  <2> QED
    BY <1>5, <2>1, <2>2 DEF Awaits
<1> QED
  BY <1>1, <1>4, <1>5, WholeStays

LEMMA WholeStep ==
  TypeOK /\ TypeOK' /\ AgesInv /\ WholeInv /\ [Next]_vars => WholeInv'
<1> SUFFICES ASSUME TypeOK, TypeOK', AgesInv, WholeInv, [Next]_vars,
                    NEW p \in Paths \ mixed'
             PROVE  WholeOf(p)'
  BY DEF WholeInv
<1>1. mixed \subseteq mixed'
  BY DEF Next, Send, SendHeader, OpenFile, SendChunk, SendEndOfFile,
         BeginRewrite, EndRewrite,
         ReceiveNext, ReceiveHeader, ReceiveChunk, ReceiveEndOfFile, vars
<1>2. WholeOf(p) /\ p \in Paths
  BY <1>1 DEF WholeInv
<1>3. ASSUME UNCHANGED <<rev, sending, net, entries, transferred>>
      PROVE  WholeOf(p)'
  <2>1. /\ \A x \in Stage : Awaits(p, x) => Awaits(p, x)'
        /\ Quiet(p) => Quiet(p)'
    BY <1>3 DEF Awaits, IsAt, Quiet, Sends, HasSent, Ends
  <2>2. OneSender(p)'
    BY <1>2, <1>3 DEF WholeOf, OneSender, Sends
  <2> QED
    BY <1>2, <1>3, <2>1, <2>2, WholeStays
<1>4. ASSUME NEW q \in Paths, BeginRewrite(q) \/ EndRewrite(q)
      PROVE  WholeOf(p)'
  BY <1>2, <1>3, <1>4, WholeOnRewrite DEF EndRewrite
<1>5. ASSUME NEW s \in Senders, Send(s)
      PROVE  WholeOf(p)'
  BY <1>2, <1>5, WholeOnSend
<1>6. CASE ReceiveNext
  BY <1>2, <1>6, OwnOnReceive, OthersOnReceive
<1>7. CASE UNCHANGED vars
  BY <1>3, <1>7 DEF vars
<1> QED
  BY <1>4, <1>5, <1>6, <1>7 DEF Next

LEMMA WholeInit == Init => TypeOK /\ AgesInv /\ WholeInv
<1> SUFFICES ASSUME Init
             PROVE  TypeOK /\ AgesInv /\ WholeInv
  OBVIOUS
<1>1. TypeOK
  <2>1. rev \in [Paths -> Rev] /\ sends \in 0..MaxSends
    BY TransferAssumption DEF Init, Rev
  <2>2. net \in Seq(Msg) /\ entries \in Seq(Entry)
    BY DEF Init
  <2> QED
    BY <2>1, <2>2 DEF Init, TypeOK
<1>2. AgesInv
  BY DEF Init, AgesInv
<1>3. WholeInv
  <2> SUFFICES ASSUME NEW p \in Paths
               PROVE  WholeOf(p)
    BY DEF WholeInv
  <2>1. Len(net) = 0 /\ 1..Len(net) = {} /\ 1..Len(entries) = {}
    BY DEF Init
  <2>2. StreamOf(p)
    BY <2>1 DEF StreamOf
  <2>3. EntriesFor(p) = {}
    BY <2>1 DEF EntriesFor
  <2>4. EntriesOf(p)
    BY <2>3 DEF EntriesOf
  <2>5. OneSender(p)
    BY DEF Init, OneSender, Sends
  <2>6. TransferredOf(p)
    BY DEF Init, TransferredOf
  <2> QED
    BY <2>2, <2>4, <2>5, <2>6 DEF WholeOf
<1> QED
  BY <1>1, <1>2, <1>3

(* Whatever the constants are, entries keep to the stream: types,          *)
(* revisions and the stream of each path hold together.                    *)
THEOREM StreamsAreWhole == Spec => [](TypeOK /\ AgesInv /\ WholeInv)
  BY WholeInit, TypeStep, AgesStep, WholeStep, PTL DEF Spec

(* What an entry holds when its EndOfFile comes. *)
LEMMA HeldAtTheEnd ==
  ASSUME TypeOK, WholeInv, NEW t \in transferred, t.path \notin mixed
  PROVE  /\ \A i \in 1..Len(t.data) :
              /\ t.data[i][1] = t.path
              /\ \A j \in 1..(i - 1) : t.data[j][3] < t.data[i][3]
              /\ t.path \notin NotUtf8 => t.data[i][3] = i
         /\ ~ t.torn =>
              \E r \in t.mtime..MaxRev :
                /\ \A i \in 1..Len(t.data) : t.data[i][2] = r
                /\ t.path \notin NotUtf8 \cup Cut => t.data = Whole(t.path, r)
                /\ t.path \notin Unreadable => r = t.mtime
<1>1. t \in LoggedEntry
  BY DEF TypeOK
<1>2. /\ t.path \in Paths /\ t.mtime \in Rev /\ t.data \in Seq(Chunk)
      /\ t.torn \in BOOLEAN
  BY <1>1 DEF LoggedEntry
<1>3. TransferredOf(t.path)
  BY <1>2 DEF WholeInv, WholeOf
<1>4. PICK x \in Stage : /\ Holds(t, x) /\ x.torn = t.torn
                        /\ Ends(t.path, x.sent, t.torn)
  BY <1>3 DEF TransferredOf
<1>5. \A i \in 1..Len(t.data) :
        /\ t.data[i][1] = t.path
        /\ \A j \in 1..(i - 1) : t.data[j][3] < t.data[i][3]
        /\ t.path \notin NotUtf8 => t.data[i][3] = i
  BY <1>4 DEF Holds
<1>6. ASSUME ~ t.torn
      PROVE  /\ x.of \in t.mtime..MaxRev
             /\ \A i \in 1..Len(t.data) : t.data[i][2] = x.of
             /\ t.path \notin NotUtf8 \cup Cut => t.data = Whole(t.path, x.of)
             /\ t.path \notin Unreadable => x.of = t.mtime
  <2>1. \A i \in 1..Len(t.data) : t.data[i][2] = x.of
    BY <1>4, <1>6 DEF Holds
  <2>2. /\ t.mtime <= x.of /\ (t.path \notin Unreadable => t.mtime = x.of)
        /\ x.of \in t.mtime..MaxRev
    BY <1>2, <1>4, <1>6, TransferAssumption DEF Holds, Stage, Rev
  <2>3. ASSUME t.path \notin NotUtf8 \cup Cut
        PROVE  t.data = Whole(t.path, x.of)
    <3>1. Len(t.data) = Chunks
      BY <1>4, <1>6, <2>3 DEF Holds, Ends
    <3>2. ASSUME NEW i \in 1..Chunks
          PROVE  t.data[i] = <<t.path, x.of, i>>
      <4>1. t.data[i] \in Paths \X Rev \X (1..Chunks)
        BY <1>2, <3>1 DEF Chunk
      <4>2. /\ t.data[i][1] = t.path /\ t.data[i][2] = x.of
            /\ t.data[i][3] = i
        BY <1>5, <2>1, <2>3, <3>1
      <4> QED
        BY <4>1, <4>2
    <3>3. t.data = [i \in 1..Chunks |-> t.data[i]]
      BY <1>2, <3>1
    <3> QED
      BY <3>2, <3>3 DEF Whole
  <2> QED
    BY <2>1, <2>2, <2>3
<1> QED
  BY <1>5, <1>6

(* What is logged as transferred has all the chunks of one revision and    *)
(* its mtime: _msgHandler puts a readable file of UTF-8 together right,    *)
(* whatever the threads, the other files and their writers do.             *)
THEOREM TransfersAreWhole == Spec => []TransferInv
<1>1. TypeOK /\ WholeInv => TransferInv
  <2> SUFFICES ASSUME TypeOK, WholeInv, NEW t \in transferred,
                      t.path \notin Unreadable \cup mixed \cup NotUtf8 \cup Cut,
                      ~ t.torn
               PROVE  t.data = Whole(t.path, t.mtime)
    BY DEF TransferInv, FilesAreWhole
  <2> QED
    BY HeldAtTheEnd
<1> QED
  BY <1>1, StreamsAreWhole, PTL

(* Any file that one thread at a time sends gets its own chunks only, each *)
(* once and in order, and of one revision if nothing writes it meanwhile.  *)
THEOREM DataComesWhole == Spec => []DataIsWhole
<1>1. TypeOK /\ WholeInv => DataIsWhole
  <2> SUFFICES ASSUME TypeOK, WholeInv, NEW t \in transferred,
                      t.path \notin mixed
               PROVE  /\ \A i \in 1..Len(t.data) :
                           /\ t.data[i][1] = t.path
                           /\ \A j \in 1..(i - 1) : t.data[j][3] < t.data[i][3]
                           /\ t.path \notin NotUtf8 => t.data[i][3] = i
                      /\ ~ t.torn =>
                           \E r \in t.mtime..MaxRev :
                             /\ \A i \in 1..Len(t.data) : t.data[i][2] = r
                             /\ t.path \notin NotUtf8 \cup Cut =>
                                  t.data = Whole(t.path, r)
    BY DEF DataIsWhole
  <2> QED
    BY HeldAtTheEnd
<1> QED
  BY <1>1, StreamsAreWhole, PTL

------------------------------------------------------------------------------
(* Nothing left open *)

LEMMA EntriesFinite ==
  ASSUME TypeOK, NEW p
  PROVE  /\ IsFiniteSet(EntriesFor(p)) /\ Cardinality(EntriesFor(p)) \in Nat
         /\ EntriesFor(p) \subseteq 1..Len(entries)
<1>1. EntriesFor(p) \subseteq 1..Len(entries) /\ Len(entries) \in Nat
  BY DEF EntriesFor, TypeOK
<1>2. IsFiniteSet(1..Len(entries))
  BY <1>1, FS_Interval
<1> QED
  BY <1>1, <1>2, FS_Subset, FS_CardinalityType

LEMMA BalanceOnSend ==
  ASSUME TypeOK, NEW m \in Msg, NEW p \in Paths, NEW c \in Nat,
         net' = Append(net, m), UNCHANGED entries, BalanceOf(p),
         IsFiniteSet(Open(p))', c = Cardinality(Open(p))',
         IF m.path # p \/ m.type = "FileTransfer"
         THEN Cardinality(Open(p)) <= c
         ELSE IF m.type = "FileHeader" THEN Cardinality(Open(p)) + 1 <= c
         ELSE Cardinality(Open(p)) <= c + 1
  PROVE  BalanceOf(p)'
<1>1. PICK h \in [0..Len(net) -> Nat] : Balances(p, h)
  BY DEF BalanceOf
<1>2. /\ net \in Seq(Msg) /\ Len(net) \in Nat
      /\ Len(net') = Len(net) + 1 /\ net'[Len(net) + 1] = m
      /\ \A i \in 1..Len(net) : net'[i] = net[i]
  BY DEF TypeOK
<1>3. PICK g : g = [i \in 0..(Len(net) + 1) |-> IF i <= Len(net) THEN h[i]
                                                ELSE c]
  OBVIOUS
<1>4. /\ g \in [0..Len(net') -> Nat]
      /\ g[Len(net')] = c /\ g[Len(net)] = h[Len(net)]
      /\ \A i \in 0..Len(net) : g[i] = h[i]
  BY <1>2, <1>3
<1>5. Cardinality(EntriesFor(p))' <= g[0]
  BY <1>1, <1>2, <1>4 DEF Balances, EntriesFor
<1>6. ASSUME NEW i \in 1..Len(net')
      PROVE  IF net'[i].path # p \/ net'[i].type = "FileTransfer"
             THEN g[i - 1] <= g[i]
             ELSE IF net'[i].type = "FileHeader" THEN g[i - 1] + 1 <= g[i]
             ELSE g[i - 1] <= g[i] + 1
  <2>1. CASE i \in 1..Len(net)
    <3>1. i - 1 \in 0..Len(net) /\ i \in 0..Len(net) /\ net'[i] = net[i]
      BY <2>1, <1>2
    <3> QED
      BY <3>1, <2>1, <1>1, <1>4 DEF Balances
  <2>2. CASE i = Len(net) + 1
    <3>1. /\ net'[i] = m /\ g[i] = c /\ g[i - 1] = Cardinality(Open(p))
      BY <2>2, <1>1, <1>2, <1>4 DEF Balances
    <3> QED
      BY <3>1
  <2> QED
    BY <2>1, <2>2, <1>2
<1>7. Balances(p, g)'
  BY <1>4, <1>5, <1>6 DEF Balances
<1> QED
  BY <1>4, <1>7 DEF BalanceOf

LEMMA BalanceOnReceive ==
  ASSUME TypeOK, TypeOK', NEW p \in Paths, net # <<>>, net' = Tail(net),
         UNCHANGED sending, BalanceOf(p),
         IF net[1].path # p \/ net[1].type = "FileTransfer"
         THEN Cardinality(EntriesFor(p))' <= Cardinality(EntriesFor(p))
         ELSE IF net[1].type = "FileHeader"
         THEN Cardinality(EntriesFor(p))' <= Cardinality(EntriesFor(p)) + 1
         ELSE \/ Cardinality(EntriesFor(p))' = 0
              \/ Cardinality(EntriesFor(p))' + 1 <= Cardinality(EntriesFor(p))
  PROVE  BalanceOf(p)'
<1>1. PICK h \in [0..Len(net) -> Nat] : Balances(p, h)
  BY DEF BalanceOf
<1>2. /\ Len(net) \in Nat \ {0} /\ Len(net') = Len(net) - 1
      /\ \A i \in 1..Len(net') : net'[i] = net[i + 1]
      /\ 1 \in 1..Len(net)
  BY Heads
<1>3. PICK g : g = [i \in 0..(Len(net) - 1) |-> h[i + 1]]
  OBVIOUS
<1>4. /\ g \in [0..Len(net') -> Nat]
      /\ \A i \in 0..Len(net') : g[i] = h[i + 1] /\ h[i + 1] \in Nat
  <2>1. Len(net') = Len(net) - 1 /\ DOMAIN g = 0..Len(net')
    BY <1>2, <1>3
  <2>2. ASSUME NEW i \in 0..Len(net')
        PROVE  g[i] = h[i + 1] /\ h[i + 1] \in Nat
    <3>1. i + 1 \in 0..Len(net) /\ i \in 0..(Len(net) - 1)
      BY <1>2
    <3> QED
      BY <1>1, <1>3, <3>1
  <2> QED
    BY <1>3, <2>1, <2>2
<1>5. /\ Cardinality(EntriesFor(p)) \in Nat
      /\ Cardinality(EntriesFor(p))' \in Nat
  <2>1. EntriesFor(p)' \subseteq 1..Len(entries') /\ Len(entries') \in Nat
    BY DEF EntriesFor, TypeOK
  <2>2. IsFiniteSet(1..Len(entries'))
    BY <2>1, FS_Interval
  <2>3. Cardinality(EntriesFor(p)') \in Nat
    BY <2>1, <2>2, FS_Subset, FS_CardinalityType
  <2> QED
    BY <2>3, EntriesFinite
<1>6. Cardinality(EntriesFor(p))' <= g[0]
  <2>1. g[0] = h[1] /\ h[1] \in Nat /\ h[0] \in Nat
    BY <1>2, <1>4
  <2>2. Cardinality(EntriesFor(p)) <= h[0]
    BY <1>1 DEF Balances
  <2>3. IF net[1].path # p \/ net[1].type = "FileTransfer"
        THEN h[0] <= h[1]
        ELSE IF net[1].type = "FileHeader" THEN h[0] + 1 <= h[1]
        ELSE h[0] <= h[1] + 1
    <3>1. 1 - 1 = 0
      OBVIOUS
    <3> QED
      BY <3>1, <1>1, <1>2 DEF Balances
  <2>4. PICK a \in Nat, b \in Nat : /\ a = Cardinality(EntriesFor(p))
                                    /\ b = Cardinality(EntriesFor(p))'
    BY <1>5
  <2> QED
    BY <2>1, <2>2, <2>3, <2>4
<1>7. g[Len(net')] = h[Len(net)]
  BY <1>2, <1>4
<1>8. Open(p)' = Open(p)
  BY DEF Open, Sends
<1>9. ASSUME NEW i \in 1..Len(net')
      PROVE  IF net'[i].path # p \/ net'[i].type = "FileTransfer"
             THEN g[i - 1] <= g[i]
             ELSE IF net'[i].type = "FileHeader" THEN g[i - 1] + 1 <= g[i]
             ELSE g[i - 1] <= g[i] + 1
  <2>1. /\ i + 1 \in 1..Len(net) /\ net'[i] = net[i + 1]
        /\ g[i] = h[i + 1] /\ g[i - 1] = h[(i + 1) - 1]
    BY <1>2, <1>4
  <2> QED
    BY <2>1, <1>1 DEF Balances
<1>10. Balances(p, g)'
  BY <1>1, <1>6, <1>7, <1>8, <1>9 DEF Balances
<1> QED
  BY <1>4, <1>8, <1>10 DEF BalanceOf

LEMMA BalanceStep ==
  TypeOK /\ TypeOK' /\ BalanceInv /\ [Next]_vars => BalanceInv'
<1> SUFFICES ASSUME TypeOK, TypeOK', BalanceInv, [Next]_vars,
                    NEW p \in Paths \ Unreadable
             PROVE  BalanceOf(p)'
  BY DEF BalanceInv
<1>1. BalanceOf(p) /\ p \in Paths /\ p \notin Unreadable
  BY DEF BalanceInv
<1>2. IsFiniteSet(Open(p)) /\ Cardinality(Open(p)) \in Nat
  BY <1>1, FS_CardinalityType DEF BalanceOf
<1>3. \A t : t \in Open(p) <=> t \in Senders /\ Sends(t, p)
  BY DEF Open
<1>4. ASSUME NEW s \in Senders, sending' = [sending EXCEPT ![s] = sending'[s]],
             Sends(s, p) <=> Sends(s, p)'
      PROVE  Open(p)' = Open(p)
  <2>1. \A t \in Senders \ {s} : sending'[t] = sending[t]
    BY <1>4, Files
  <2>2. \A t \in Senders : Sends(t, p)' <=> Sends(t, p)
    BY <1>4, <2>1 DEF Sends
  <2> QED
    BY <2>2 DEF Open
<1>5. ASSUME NEW s \in Senders, Send(s)
      PROVE  BalanceOf(p)'
  <2>1. UNCHANGED entries
    BY <1>5, AgeSent
  <2>2. CASE SendHeader(s)
    <3>1. PICK m \in Msg :
            /\ m.type = "FileHeader" /\ net' = Append(net, m)
            /\ sending[s] = Idle /\ sending'[s] # Idle
            /\ sending'[s] = [path |-> m.path, next |-> 0, torn |-> m.torn]
            /\ sending' = [sending EXCEPT ![s] = sending'[s]]
      BY <2>2, HeaderSent
    <3>2. CASE m.path = p
      <4>1. \A t \in Senders \ {s} : sending'[t] = sending[t]
        BY <3>1, Files
      <4>2. Open(p)' = Open(p) \cup {s} /\ s \notin Open(p)
        BY <3>1, <3>2, <4>1 DEF Open, Sends
      <4>3. /\ IsFiniteSet(Open(p))'
            /\ Cardinality(Open(p))' = Cardinality(Open(p)) + 1
        BY <4>2, <1>2, FS_AddElement
      <4>4. PICK c \in Nat : c = Cardinality(Open(p))'
        BY <4>3, <1>2
      <4> QED
        BY <3>1, <3>2, <4>3, <4>4, <1>1, <1>2, <2>1, BalanceOnSend
    <3>3. CASE m.path # p
      <4>1. Open(p)' = Open(p)
        BY <3>1, <3>3, <1>4 DEF Sends
      <4>2. PICK c \in Nat : c = Cardinality(Open(p))'
        BY <4>1, <1>2
      <4> QED
        BY <3>1, <3>3, <4>1, <4>2, <1>1, <1>2, <2>1, BalanceOnSend
    <3> QED
      BY <3>2, <3>3
  <2>3. CASE OpenFile(s)
    <3>1. /\ sending' = [sending EXCEPT ![s] = sending'[s]]
          /\ sending[s] # Idle /\ UNCHANGED <<net, entries>>
          /\ \/ sending'[s] # Idle /\ sending'[s].path = sending[s].path
             \/ sending[s].path \in Unreadable /\ sending'[s] = Idle
      BY <2>3, FileOpened
    <3>2. Open(p)' = Open(p)
      BY <3>1, <1>1, <1>4 DEF Sends
    <3> QED
      BY <3>1, <3>2, <1>1 DEF BalanceOf, Balances, EntriesFor
  <2>4. CASE SendChunk(s)
    <3>1. PICK m \in Msg :
            /\ m.type = "FileTransfer" /\ net' = Append(net, m)
            /\ Sends(s, m.path)
            /\ sending'[s] # Idle /\ sending'[s].path = m.path
            /\ sending' = [sending EXCEPT ![s] = sending'[s]]
      BY <2>4, ChunkSent
    <3>2. Open(p)' = Open(p)
      BY <3>1, <1>4 DEF Sends
    <3>3. PICK c \in Nat : c = Cardinality(Open(p))'
      BY <3>2, <1>2
    <3> QED
      BY <3>1, <3>2, <3>3, <1>1, <1>2, <2>1, BalanceOnSend
  <2>5. CASE SendEndOfFile(s)
    <3>1. PICK m \in Msg :
            /\ m.type = "EndOfFile" /\ net' = Append(net, m)
            /\ Sends(s, m.path) /\ sending'[s] = Idle
            /\ sending' = [sending EXCEPT ![s] = sending'[s]]
      BY <2>5, EndSent
    <3>2. CASE m.path = p
      <4>1. \A t \in Senders \ {s} : sending'[t] = sending[t]
        BY <3>1, Files
      <4>2. Open(p)' = Open(p) \ {s} /\ s \in Open(p)
        BY <3>1, <3>2, <4>1 DEF Open, Sends
      <4>3. /\ IsFiniteSet(Open(p))' /\ Cardinality(Open(p))' \in Nat
            /\ Cardinality(Open(p)) <= Cardinality(Open(p))' + 1
        <5>1. /\ IsFiniteSet(Open(p) \ {s})
              /\ Cardinality(Open(p) \ {s}) = Cardinality(Open(p)) - 1
          BY <4>2, <1>2, FS_RemoveElement
        <5>2. Cardinality(Open(p) \ {s}) \in Nat
          BY <5>1, FS_CardinalityType
        <5> QED
          BY <4>2, <5>1, <5>2, <1>2
      <4>4. PICK c \in Nat : c = Cardinality(Open(p))'
        BY <4>3
      <4> QED
        BY <3>1, <3>2, <4>3, <4>4, <1>1, <1>2, <2>1, BalanceOnSend
    <3>3. CASE m.path # p
      <4>1. Open(p)' = Open(p)
        BY <3>1, <3>3, <1>4 DEF Sends
      <4>2. PICK c \in Nat : c = Cardinality(Open(p))'
        BY <4>1, <1>2
      <4> QED
        BY <3>1, <3>3, <4>1, <4>2, <1>1, <1>2, <2>1, BalanceOnSend
    <3> QED
      BY <3>2, <3>3
  <2> QED
    BY <2>2, <2>3, <2>4, <2>5, <1>5 DEF Send
<1>6. CASE ReceiveNext
  <2>1. /\ net # <<>> /\ net' = Tail(net) /\ UNCHANGED sending
        /\ Head(net) = net[1] /\ net[1] \in Msg
    BY <1>6, EntriesAfter, Heads
  <2>2. /\ entries \in Seq(Entry) /\ Len(entries) \in Nat
        /\ IsFiniteSet(EntriesFor(p)) /\ Cardinality(EntriesFor(p)) \in Nat
        /\ EntriesFor(p) \subseteq 1..Len(entries)
    BY EntriesFinite DEF TypeOK
  <2>3. CASE UNCHANGED entries /\ net[1].type # "EndOfFile"
    <3>1. EntriesFor(p)' = EntriesFor(p)
      BY <2>3 DEF EntriesFor
    <3> QED
      BY <3>1, <2>1, <2>2, <2>3, <1>1, Headers, BalanceOnReceive
  <2>4. CASE ReceiveHeader /\ entries' # entries
    <3>1. PICK e : /\ e.path = net[1].path /\ entries' = Append(entries, e)
                   /\ net[1].type = "FileHeader"
      <4>1. PICK e : e = [path |-> Head(net).path, mtime |-> Head(net).mtime,
                          data |-> <<>>]
        OBVIOUS
      <4> QED
        BY <4>1, <2>1, <2>4 DEF ReceiveHeader, Receive
    <3>2. /\ Len(entries') = Len(entries) + 1
          /\ entries'[Len(entries) + 1] = e
          /\ \A j \in 1..Len(entries) : entries'[j] = entries[j]
      BY <3>1, <2>2
    <3>3. CASE net[1].path # p
      <4>1. EntriesFor(p)' = EntriesFor(p)
        BY <3>1, <3>2, <3>3, <2>2 DEF EntriesFor
      <4> QED
        BY <3>3, <4>1, <2>1, <2>2, <1>1, BalanceOnReceive
    <3>4. CASE net[1].path = p
      <4>1. EntriesFor(p)' = EntriesFor(p) \cup {Len(entries) + 1}
        BY <3>1, <3>2, <3>4, <2>2 DEF EntriesFor
      <4>2. Cardinality(EntriesFor(p))' <= Cardinality(EntriesFor(p)) + 1
        <5>1. Len(entries) + 1 \notin EntriesFor(p)
          BY <2>2
        <5>2. Cardinality(EntriesFor(p) \cup {Len(entries) + 1})
                = Cardinality(EntriesFor(p)) + 1
          BY <5>1, <2>2, FS_AddElement
        <5> QED
          BY <4>1, <5>2, <2>2
      <4> QED
        BY <3>1, <3>4, <4>2, <2>1, <1>1, BalanceOnReceive
    <3> QED
      BY <3>3, <3>4
  <2>5. CASE ReceiveChunk /\ entries' # entries
    <3>1. PICK i \in 1..Len(entries) :
            \E d : entries' = [entries EXCEPT ![i].data = d]
      <4>1. EntriesFor(Head(net).path) # {}
        BY <2>5 DEF ReceiveChunk
      <4>2. PICK i \in 1..Len(entries) : i = First(EntriesFor(Head(net).path))
        BY <4>1, FoundIsFirst DEF EntriesFor
      <4>3. PICK d : d = Append(entries[i].data, Head(net).data)
        OBVIOUS
      <4> QED
        BY <4>2, <4>3, <2>5 DEF ReceiveChunk
    <3>2. PICK d : entries' = [entries EXCEPT ![i] = [entries[i] EXCEPT !.data = d]]
      BY <3>1
    <3>3. [entries[i] EXCEPT !.data = d].path = entries[i].path
      <4>1. entries[i] \in Entry
        BY <2>2
      <4> QED
        BY <4>1 DEF Entry
    <3>4. EntriesFor(p)' = EntriesFor(p)
      BY <3>2, <3>3, <2>2 DEF EntriesFor
    <3>5. net[1].type = "FileTransfer"
      BY <2>1, <2>5 DEF ReceiveChunk, Receive
    <3> QED
      BY <3>4, <3>5, <2>1, <2>2, <1>1, BalanceOnReceive
  <2>6. CASE ReceiveEndOfFile
    <3>1. net[1].type = "EndOfFile"
      BY <2>1, <2>6 DEF ReceiveEndOfFile, Receive
    <3>2. CASE EntriesFor(net[1].path) = {}
      <4>1. UNCHANGED entries
        BY <2>1, <2>6, <3>2 DEF ReceiveEndOfFile
      <4>2. EntriesFor(p)' = EntriesFor(p)
        BY <4>1 DEF EntriesFor
      <4>3. net[1].path = p => Cardinality(EntriesFor(p))' = 0
        BY <3>2, <4>2, FS_EmptySet
      <4> QED
        BY <3>1, <4>2, <4>3, <2>1, <2>2, <1>1, BalanceOnReceive
    <3>3. CASE EntriesFor(net[1].path) # {}
      <4>1. PICK f \in 1..Len(entries) :
              f = First(EntriesFor(net[1].path)) /\ entries[f].path = net[1].path
        BY <3>3, FoundIsFirst DEF EntriesFor
      <4>2. entries' = Erased(entries, f)
        BY <2>1, <2>6, <3>3, <4>1 DEF ReceiveEndOfFile
      <4>3. \A j \in 1..Len(entries') : /\ Moved(f, j) \in 1..Len(entries)
                                        /\ entries'[j] = entries[Moved(f, j)]
        <5>1. \A j \in 1..Len(Erased(entries, f)) :
                /\ Moved(f, j) \in 1..Len(entries)
                /\ Erased(entries, f)[j] = entries[Moved(f, j)]
          BY <2>2, ErasedElements
        <5> QED
          BY <4>2, <5>1
      <4>4. PICK g : g = [j \in EntriesFor(p)' |-> Moved(f, j)]
        OBVIOUS
      <4>5. PICK S : S = EntriesFor(p)'
        OBVIOUS
      <4>6. PICK T : T = EntriesFor(p) \ {f}
        OBVIOUS
      <4>7. \A j \in S : j \in 1..Len(entries') /\ entries'[j].path = p
        BY <4>5 DEF EntriesFor
      <4>8. ASSUME NEW j \in S
            PROVE  Moved(f, j) \in T
        <5>1. j \in 1..Len(entries') /\ entries'[j].path = p
          BY <4>7
        <5>2. Moved(f, j) \in 1..Len(entries) /\ entries'[j] = entries[Moved(f, j)]
          BY <4>3, <5>1
        <5>3. Moved(f, j) # f
          BY <5>1, <2>2 DEF Moved
        <5> QED
          BY <4>6, <5>1, <5>2, <5>3 DEF EntriesFor
      <4>9. \A i, j \in S : Moved(f, i) = Moved(f, j) => i = j
        BY <4>7 DEF Moved
      <4>10. g \in Injection(S, T)
        BY <4>4, <4>5, <4>8, <4>9 DEF Injection, IsInjective
      <4>11. IsFiniteSet(T) /\ Cardinality(T) =
               IF f \in EntriesFor(p) THEN Cardinality(EntriesFor(p)) - 1
               ELSE Cardinality(EntriesFor(p))
        BY <4>6, <2>2, FS_RemoveElement
      <4>12. IsFiniteSet(S) /\ Cardinality(S) <= Cardinality(T)
        BY <4>10, <4>11, FS_Injection
      <4>13. Cardinality(S) \in Nat /\ Cardinality(T) \in Nat
        BY <4>11, <4>12, FS_CardinalityType
      <4>14. net[1].path = p <=> f \in EntriesFor(p)
        BY <4>1 DEF EntriesFor
      <4>15. IF net[1].path = p
             THEN Cardinality(EntriesFor(p))' + 1 <= Cardinality(EntriesFor(p))
             ELSE Cardinality(EntriesFor(p))' <= Cardinality(EntriesFor(p))
        <5>1. Cardinality(S) = Cardinality(EntriesFor(p))'
          BY <4>5
        <5> QED
          BY <4>11, <4>12, <4>13, <4>14, <5>1, <2>2
      <4> QED
        BY <3>1, <4>15, <2>1, <1>1, BalanceOnReceive
    <3> QED
      BY <3>2, <3>3
  <2>7. CASE ReceiveHeader
    BY <2>1, <2>3, <2>4, <2>7 DEF ReceiveHeader, Receive
  <2>8. CASE ReceiveChunk
    BY <2>1, <2>3, <2>5, <2>8 DEF ReceiveChunk, Receive
  <2> QED
    BY <2>6, <2>7, <2>8, <1>6 DEF ReceiveNext
<1>7. CASE UNCHANGED <<sending, net, entries>>
  BY <1>7, <1>1 DEF BalanceOf, Balances, Open, Sends, EntriesFor
<1>8. ASSUME NEW q \in Paths, BeginRewrite(q) \/ EndRewrite(q)
      PROVE  BalanceOf(p)'
  <2>1. CASE BeginRewrite(q)
    <3>1. /\ UNCHANGED <<net, entries>>
          /\ \A s \in Senders :
              IF Sends(s, q)
              THEN sending'[s] # Idle /\ sending'[s].path = q
              ELSE sending'[s] = sending[s]
      BY <2>1, RewriteBegun
    <3>2. Open(p)' = Open(p)
      BY <3>1 DEF Open, Sends
    <3> QED
      BY <3>1, <3>2, <1>1 DEF BalanceOf, Balances, EntriesFor
  <2>2. CASE EndRewrite(q)
    BY <2>2, <1>7 DEF EndRewrite
  <2> QED
    BY <1>8, <2>1, <2>2
<1> QED
  BY <1>5, <1>6, <1>7, <1>8 DEF Next, vars

(* When all that was sent has been handled, only files that could not be   *)
(* opened are left in _files_in_process: however two threads mix what they *)
(* send, and whichever headers and chunks the receiver drops, every entry  *)
(* of a readable file meets an EndOfFile of its own.                       *)
THEOREM NothingStaysOpen == Spec => []NothingLeftOpen
<1>1. Init => TypeOK /\ BalanceInv
  <2> SUFFICES ASSUME Init
               PROVE  TypeOK /\ BalanceInv
    OBVIOUS
  <2>1. TypeOK
    BY WholeInit
  <2>2. ASSUME NEW p \in Paths \ Unreadable
        PROVE  BalanceOf(p)
    <3>1. /\ Open(p) = {} /\ EntriesFor(p) = {} /\ Len(net) = 0
      BY DEF Init, Open, Sends, EntriesFor
    <3>2. PICK h : h = [i \in 0..0 |-> 0]
      OBVIOUS
    <3>3. h \in [0..Len(net) -> Nat] /\ h[0] = 0
      BY <3>1, <3>2
    <3>4. Balances(p, h)
      BY <3>1, <3>3, FS_EmptySet DEF Balances
    <3> QED
      BY <3>1, <3>3, <3>4, FS_EmptySet DEF BalanceOf
  <2> QED
    BY <2>1, <2>2 DEF BalanceInv
<1>2. TypeOK /\ BalanceInv => NothingLeftOpen
  <2> SUFFICES ASSUME TypeOK, BalanceInv, net = <<>>,
                      \A s \in Senders : sending[s] = Idle,
                      NEW i \in 1..Len(entries), entries[i].path \notin Unreadable
               PROVE  FALSE
    BY DEF NothingLeftOpen
  <2>1. PICK p \in Paths \ Unreadable : p = entries[i].path
    <3>1. entries \in Seq(Entry)
      BY DEF TypeOK
    <3>2. entries[i] \in Entry
      BY <3>1
    <3> QED
      BY <3>2 DEF Entry
  <2>2. PICK h \in [0..Len(net) -> Nat] : Balances(p, h)
    BY <2>1 DEF BalanceInv, BalanceOf
  <2>3. Open(p) = {} /\ Len(net) = 0
    BY DEF Open, Sends
  <2>4. Cardinality(EntriesFor(p)) <= 0
    BY <2>2, <2>3, FS_EmptySet DEF Balances
  <2>5. Cardinality(EntriesFor(p)) = 0 /\ IsFiniteSet(EntriesFor(p))
    BY <2>4, EntriesFinite
  <2>6. EntriesFor(p) = {}
    BY <2>5, FS_EmptySet
  <2> QED
    BY <2>1, <2>6 DEF EntriesFor
<1> QED
  BY <1>1, <1>2, TypeStep, BalanceStep, PTL DEF Spec
==============================================================================
