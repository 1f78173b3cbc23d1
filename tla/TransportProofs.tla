--------------------------- MODULE TransportProofs ---------------------------
(***************************************************************************)
(* For any number of clients and messages: the variables of Transport keep *)
(* their types, a queue of outgoing messages has exactly one write under   *)
(* way until a write fails, the stream between two ends is read as it was  *)
(* written, and so a pair of Connections implements MessageChannel.        *)
(*                                                                         *)
(* A frame has a position: the number of its message, and its part.  The   *)
(* frames under way have consecutive positions, from the reader's to the   *)
(* writer's.  Each end's position follows from its own variables.          *)
(***************************************************************************)
EXTENDS Transport, SequenceTheorems, TLAPS

(* The sequences that the handlers make from others keep their type.       *)
LEMMA Appended ==
  ASSUME NEW S, NEW s \in Seq(S), NEW x \in S
  PROVE  /\ Append(s, x) \in Seq(S)
         /\ Append(s, x) # <<>>
         /\ Len(Append(s, x)) = Len(s) + 1
BY AppendProperties

LEMMA Shortened ==
  ASSUME NEW S, NEW s \in Seq(S), s # <<>>
  PROVE  /\ Head(s) \in S
         /\ Tail(s) \in Seq(S)
         /\ Len(Tail(s)) = Len(s) - 1
         /\ SubSeq(s, 1, Len(s) - 1) \in Seq(S)
<1>1. Len(s) \in Nat \ {0}
  BY EmptySeq, LenProperties
<1>2. Head(s) \in S /\ Tail(s) \in Seq(S) /\ Len(Tail(s)) = Len(s) - 1
  BY HeadTailProperties
<1>3. \A i \in 1..(Len(s) - 1) : s[i] \in S
  BY <1>1, ElementOfSeq
<1>4. SubSeq(s, 1, Len(s) - 1) \in Seq(S)
  BY <1>1, <1>3, SubSeqProperties
<1> QED
  BY <1>2, <1>4

(* An end's peer is an end, and its process one of the processes.          *)
LEMMA Ends ==
  /\ \A c \in Clients : Client(c) \in End /\ Remote(c) \in End
  /\ \A e \in End : Peer(e) \in End /\ Process(e) \in Clients \cup {Server}
BY DEF End, Client, Remote, Peer, Process

(* What is written after a message is popped: one header or nothing.       *)
LEMMA WriteAfterPopType ==
  ASSUME NEW q \in Seq(Msg), NEW w \in Seq(Part)
  PROVE  w \o WriteAfterPop(q) \in Seq(Part)
<1>1. <<"header">> \in Seq(Part) /\ <<>> \in Seq(Part)
  BY DEF Part
<1>2. WriteAfterPop(q) \in Seq(Part)
  BY <1>1 DEF WriteAfterPop
<1> QED
  BY <1>2, ConcatProperties

------------------------------------------------------------------------------
(* Types, action by action *)

LEMMA ConnectTypes ==
  ASSUME TypeOK, NEW c \in Clients, ConnectOk(c) \/ ConnectFail(c) \/ Accept(c)
  PROVE  TypeOK'
<1>1. "header" \in Part \cup {"off"}
  BY DEF Part
<1>2. CASE ConnectOk(c)
  BY <1>1, <1>2, Ends DEF ConnectOk, TypeOK, outgoing
<1>3. CASE ConnectFail(c)
  BY <1>3, Ends DEF ConnectFail, TypeOK, outgoing, incoming
<1>4. CASE Accept(c)
  BY <1>1, <1>4, Ends DEF Accept, TypeOK, outgoing
<1> QED
  BY <1>2, <1>3, <1>4

LEMMA SendTypes ==
  ASSUME TypeOK, NEW e \in End, SendMsg(e)
  PROVE  TypeOK'
<1>1. PICK b \in BOOLEAN :
        LET m == [id |-> Len(sent[e]) + 1, body |-> b] IN
        /\ posted' = [posted EXCEPT ![e] = Append(@, m)]
        /\ sent' = [sent EXCEPT ![e] = Append(@, m)]
  BY DEF SendMsg
<1> DEFINE m == [id |-> Len(sent[e]) + 1, body |-> b]
<1>2. posted[e] \in Seq(Msg) /\ sent[e] \in Seq(Msg)
  BY DEF TypeOK
<1>3. Len(sent[e]) \in Nat
  BY <1>2, LenProperties
<1>4. Len(sent[e]) + 1 <= ClientMsgs + ServerMsgs
  BY <1>3, TransportAssumption DEF SendMsg, MaxMsgs
<1>5. Len(sent[e]) + 1 \in MsgId
  BY <1>3, <1>4, TransportAssumption DEF MsgId
<1>6. m \in Msg
  BY <1>5 DEF Msg
<1>7. Append(posted[e], m) \in Seq(Msg) /\ Append(sent[e], m) \in Seq(Msg)
  BY <1>2, <1>6, Appended
<1>8. /\ posted' = [posted EXCEPT ![e] = Append(posted[e], m)]
      /\ sent' = [sent EXCEPT ![e] = Append(sent[e], m)]
  BY <1>1
<1> HIDE DEF m
<1>9. posted' \in [End -> Seq(Msg)] /\ sent' \in [End -> Seq(Msg)]
  BY <1>7, <1>8 DEF TypeOK
<1> QED
  BY <1>9 DEF SendMsg, TypeOK, incoming

LEMMA RunPostedTypes ==
  ASSUME TypeOK, NEW e \in End, RunPosted(e)
  PROVE  TypeOK'
<1>1. /\ posted[e] \in Seq(Msg) /\ posted[e] # <<>>
      /\ outq[e] \in Seq(Msg) /\ writes[e] \in Seq(Part)
  BY DEF TypeOK, RunPosted
<1>2. Head(posted[e]) \in Msg /\ Tail(posted[e]) \in Seq(Msg)
  BY <1>1, Shortened
<1>3. Append(outq[e], Head(posted[e])) \in Seq(Msg)
  BY <1>1, <1>2, Appended
<1>4. Append(writes[e], "header") \in Seq(Part)
  BY <1>1, Appended DEF Part
<1>5. posted' \in [End -> Seq(Msg)]
  BY <1>2 DEF TypeOK, RunPosted
<1>6. outq' \in [End -> Seq(Msg)]
  BY <1>3 DEF TypeOK, RunPosted
<1>7. writes' \in [End -> Seq(Part)]
  BY <1>4 DEF TypeOK, RunPosted
<1> QED
  BY <1>5, <1>6, <1>7 DEF RunPosted, TypeOK, incoming

LEMMA TransmitTypes ==
  ASSUME TypeOK, NEW e \in End, Transmit(e)
  PROVE  TypeOK'
<1> DEFINE frame == [part |-> Head(writes[e]), msg |-> Head(outq[e])]
<1>1. /\ outq[e] \in Seq(Msg) /\ outq[e] # <<>>
      /\ writes[e] \in Seq(Part) /\ writes[e] # <<>>
      /\ acks[e] \in Seq(Part) /\ wire[e] \in Seq(Frame)
  BY DEF TypeOK, Transmit
<1>2. /\ Head(outq[e]) \in Msg /\ Head(writes[e]) \in Part
      /\ Tail(writes[e]) \in Seq(Part)
  BY <1>1, Shortened
<1>3. frame \in Frame
  BY <1>2 DEF Frame, Part
<1>4. /\ Append(acks[e], Head(writes[e])) \in Seq(Part)
      /\ Append(wire[e], frame) \in Seq(Frame)
  BY <1>1, <1>2, <1>3, Appended
<1>5. writes' \in [End -> Seq(Part)]
  BY <1>2 DEF TypeOK, Transmit
<1>6. acks' \in [End -> Seq(Part)]
  BY <1>4 DEF TypeOK, Transmit
<1>7. wire' \in [End -> Seq(Frame)]
  BY <1>4 DEF TypeOK, Transmit
<1> QED
  BY <1>5, <1>6, <1>7 DEF Transmit, TypeOK, incoming

LEMMA PopTypes ==
  ASSUME TypeOK, NEW e \in End, outq[e] # <<>>, PopAndGoOn(e)
  PROVE  outq' \in [End -> Seq(Msg)] /\ writes' \in [End -> Seq(Part)]
<1>1. outq[e] \in Seq(Msg) /\ writes[e] \in Seq(Part)
  BY DEF TypeOK
<1>2. /\ Tail(outq[e]) \in Seq(Msg)
      /\ writes[e] \o WriteAfterPop(outq[e]) \in Seq(Part)
  BY <1>1, Shortened, WriteAfterPopType
<1> QED
  BY <1>2 DEF TypeOK, PopAndGoOn

LEMMA WroteTypes ==
  ASSUME TypeOK, NEW e \in End, WroteHeader(e) \/ WroteBody(e)
  PROVE  TypeOK'
<1>1. acks[e] \in Seq(Part) /\ acks[e] # <<>> /\ outq[e] # <<>>
  BY DEF TypeOK, WroteHeader, WroteBody
<1>2. acks' \in [End -> Seq(Part)]
  <2>1. Tail(acks[e]) \in Seq(Part)
    BY <1>1, Shortened
  <2> QED
    BY <2>1 DEF TypeOK, WroteHeader, WroteBody
<1>3. outq' \in [End -> Seq(Msg)] /\ writes' \in [End -> Seq(Part)]
  <2>1. CASE PopAndGoOn(e)
    BY <1>1, <2>1, PopTypes
  <2>2. CASE /\ writes' = [writes EXCEPT ![e] = Append(@, "body")]
             /\ UNCHANGED outq
    <3>1. Append(writes[e], "body") \in Seq(Part)
      BY Appended DEF TypeOK, Part
    <3> QED
      BY <2>2, <3>1 DEF TypeOK
  <2> QED
    BY <2>1, <2>2 DEF WroteHeader, WroteBody
<1> QED
  BY <1>2, <1>3 DEF WroteHeader, WroteBody, TypeOK, incoming

LEMMA WriteFailedTypes ==
  ASSUME TypeOK, NEW e \in End, WriteFailed(e)
  PROVE  TypeOK'
<1>1. Tail(writes[e]) \in Seq(Part)
  BY Shortened DEF TypeOK, WriteFailed
<1>2. writes' \in [End -> Seq(Part)]
  BY <1>1 DEF TypeOK, WriteFailed
<1> QED
  BY <1>2 DEF WriteFailed, AfterClose, TypeOK, incoming

(* What comes in next is a frame of a message.                             *)
LEMMA IncomingTypes ==
  ASSUME TypeOK, NEW e \in End, Readable(e)
  PROVE  /\ Incoming(e).msg \in Msg /\ Incoming(e).msg.id \in MsgId
         /\ Tail(wire[Peer(e)]) \in Seq(Frame)
<1>1. Peer(e) \in End
  BY Ends
<1>2. wire[Peer(e)] \in Seq(Frame) /\ wire[Peer(e)] # <<>>
  BY <1>1 DEF TypeOK, Readable
<1>3. Incoming(e) \in Frame /\ Tail(wire[Peer(e)]) \in Seq(Frame)
  BY <1>2, Shortened DEF Incoming
<1>4. Incoming(e).msg \in Msg
  BY <1>3 DEF Frame
<1> QED
  BY <1>3, <1>4 DEF Msg

LEMMA ReadHeaderTypes ==
  ASSUME TypeOK, NEW e \in End, ReadHeader(e)
  PROVE  TypeOK'
<1> DEFINE msg == Incoming(e).msg
<1>1. msg \in Msg /\ Tail(wire[Peer(e)]) \in Seq(Frame)
  BY IncomingTypes DEF ReadHeader
<1>2. wire' \in [End -> Seq(Frame)]
  BY <1>1, Ends DEF TypeOK, ReadHeader
<1>3. tmpHead' \in [End -> Msg]
  BY <1>1 DEF TypeOK, ReadHeader
<1>4. reading' \in [End -> Part \cup {"off"}]
  BY DEF TypeOK, ReadHeader, PartAfter, Part
<1>5. inq' \in [End -> Seq(Msg \X MsgId)]
  <2>1. <<msg, tmpBody[e]>> \in Msg \X MsgId
    BY <1>1 DEF TypeOK
  <2>2. Append(inq[e], <<msg, tmpBody[e]>>) \in Seq(Msg \X MsgId)
    BY <2>1, Appended DEF TypeOK
  <2>3. \/ inq' = inq
        \/ inq' = [inq EXCEPT ![e] = Append(inq[e], <<msg, tmpBody[e]>>)]
    BY DEF ReadHeader
  <2> HIDE DEF msg
  <2> QED
    BY <2>2, <2>3 DEF TypeOK
<1> QED
  BY <1>2, <1>3, <1>4, <1>5 DEF ReadHeader, TypeOK, outgoing

LEMMA ReadBodyTypes ==
  ASSUME TypeOK, NEW e \in End, ReadBody(e)
  PROVE  TypeOK'
<1> DEFINE body == Incoming(e).msg.id
<1>1. body \in MsgId /\ Tail(wire[Peer(e)]) \in Seq(Frame)
  BY IncomingTypes DEF ReadBody
<1>2. wire' \in [End -> Seq(Frame)]
  BY <1>1, Ends DEF TypeOK, ReadBody
<1>3. tmpBody' \in [End -> MsgId]
  BY <1>1 DEF TypeOK, ReadBody
<1>4. reading' \in [End -> Part \cup {"off"}]
  BY DEF TypeOK, ReadBody, Part
<1>5. inq' \in [End -> Seq(Msg \X MsgId)]
  <2>1. <<tmpHead[e], body>> \in Msg \X MsgId
    BY <1>1 DEF TypeOK
  <2>2. Append(inq[e], <<tmpHead[e], body>>) \in Seq(Msg \X MsgId)
    BY <2>1, Appended DEF TypeOK
  <2>3. inq' = [inq EXCEPT ![e] = Append(inq[e], <<tmpHead[e], body>>)]
    BY DEF ReadBody
  <2> HIDE DEF body
  <2> QED
    BY <2>2, <2>3 DEF TypeOK
<1> QED
  BY <1>2, <1>3, <1>4, <1>5 DEF ReadBody, TypeOK, outgoing

LEMMA ReadFailedTypes ==
  ASSUME TypeOK, NEW e \in End, ReadHeaderFailed(e) \/ ReadBodyFailed(e)
  PROVE  TypeOK'
<1>1. CASE ReadHeaderFailed(e)
  BY <1>1 DEF ReadHeaderFailed, AfterClose, TypeOK, outgoing
<1>2. CASE ReadBodyFailed(e)
  BY <1>2 DEF ReadBodyFailed, AfterClose, TypeOK, outgoing
<1> QED
  BY <1>1, <1>2

LEMMA OutsideTypes ==
  /\ \A p \in Clients \cup {Server} : TypeOK /\ Halt(p) => TypeOK'
  /\ \A e \in End : TypeOK /\ LoseTail(e) => TypeOK'
<1>1. ASSUME NEW p \in Clients \cup {Server}, TypeOK, Halt(p)
      PROVE  TypeOK'
  BY <1>1 DEF Halt, AfterClose, TypeOK, outgoing, incoming
<1>2. ASSUME NEW e \in End, TypeOK, LoseTail(e)
      PROVE  TypeOK'
  <2>1. SubSeq(wire[e], 1, Len(wire[e]) - 1) \in Seq(Frame)
    BY <1>2, Shortened DEF TypeOK, LoseTail
  <2>2. wire' = [wire EXCEPT ![e] = SubSeq(wire[e], 1, Len(wire[e]) - 1)]
    BY <1>2 DEF LoseTail
  <2>3. wire' \in [End -> Seq(Frame)]
    BY <1>2, <2>1, <2>2 DEF TypeOK
  <2> QED
    BY <1>2, <2>3 DEF LoseTail, TypeOK, outgoing, incoming
<1> QED
  BY <1>1, <1>2

------------------------------------------------------------------------------
(* One write at a time *)

(* OneWrite, for one end. *)
OneWriteAt(e) ==
  IF outq[e] = <<>>
  THEN writes[e] = <<>> /\ acks[e] = <<>>
  ELSE \/ Len(writes[e]) + Len(acks[e]) = 1
       \/ /\ writes[e] = <<>> /\ acks[e] = <<>>
          /\ sock[e] \in {"closed", "refused"}

LEMMA OneWriteEverywhere == OneWrite <=> \A e \in End : OneWriteAt(e)
BY DEF OneWrite, OneWriteAt

LEMMA LengthZero ==
  ASSUME NEW S, NEW s \in Seq(S)
  PROVE  /\ Len(s) \in Nat /\ (s = <<>> <=> Len(s) = 0)
         /\ s # <<>> => Len(s) >= 1
BY EmptySeq, LenProperties

(* A step that leaves queue and writes alone and reopens no socket.        *)
LEMMA QuietStep ==
  ASSUME OneWrite, UNCHANGED <<outq, writes, acks>>,
         \A e \in End : sock[e] \in {"closed", "refused"} =>
                          sock'[e] \in {"closed", "refused"}
  PROVE  OneWrite'
BY DEF OneWrite

(* A step of e's queue leaves those of the other ends alone.               *)
LEMMA LocalStep ==
  ASSUME TypeOK, OneWrite, NEW e \in End, OneWriteAt(e)',
         \A d \in End \ {e} : /\ outq'[d] = outq[d] /\ writes'[d] = writes[d]
                              /\ acks'[d] = acks[d] /\ sock'[d] = sock[d]
  PROVE  OneWrite'
BY DEF OneWrite, OneWriteAt

LEMMA SumIsOne ==
  ASSUME NEW m \in Nat, NEW n \in Nat, m + n = 1
  PROVE  (m = 1 /\ n = 0) \/ (m = 0 /\ n = 1)
OBVIOUS

(* A queue with a write or its completion under way has only that one.     *)
LEMMA TheWrite ==
  ASSUME TypeOK, OneWrite, NEW e \in End
  PROVE  /\ outq[e] \in Seq(Msg) /\ writes[e] \in Seq(Part)
         /\ acks[e] \in Seq(Part)
         /\ Len(writes[e]) \in Nat /\ Len(acks[e]) \in Nat
         /\ writes[e] # <<>> =>
              outq[e] # <<>> /\ Len(writes[e]) = 1 /\ acks[e] = <<>>
         /\ acks[e] # <<>> =>
              outq[e] # <<>> /\ Len(acks[e]) = 1 /\ writes[e] = <<>>
<1>1. /\ outq[e] \in Seq(Msg) /\ writes[e] \in Seq(Part)
      /\ acks[e] \in Seq(Part)
  BY DEF TypeOK
<1>2. OneWriteAt(e)
  BY OneWriteEverywhere
<1>3. /\ Len(writes[e]) \in Nat /\ Len(acks[e]) \in Nat
      /\ writes[e] = <<>> <=> Len(writes[e]) = 0
      /\ acks[e] = <<>> <=> Len(acks[e]) = 0
  BY <1>1, LengthZero
<1>4. CASE writes[e] = <<>> /\ acks[e] = <<>>
  BY <1>1, <1>3, <1>4
<1>5. CASE outq[e] # <<>> /\ Len(writes[e]) + Len(acks[e]) = 1
  <2>1. \/ Len(writes[e]) = 1 /\ Len(acks[e]) = 0
        \/ Len(writes[e]) = 0 /\ Len(acks[e]) = 1
    BY <1>3, <1>5, SumIsOne
  <2>2. \/ Len(writes[e]) = 1 /\ acks[e] = <<>>
        \/ writes[e] = <<>> /\ Len(acks[e]) = 1
    BY <1>3, <2>1
  <2> QED
    BY <1>1, <1>3, <1>5, <2>2
<1> QED
  BY <1>2, <1>4, <1>5 DEF OneWriteAt

LEMMA RunPostedKeepsOneWrite ==
  ASSUME TypeOK, OneWrite, NEW e \in End, RunPosted(e)
  PROVE  OneWrite'
<1> SUFFICES OneWriteAt(e)'
  BY LocalStep DEF RunPosted, TypeOK
<1>1. /\ posted[e] \in Seq(Msg) /\ posted[e] # <<>>
      /\ outq[e] \in Seq(Msg) /\ writes[e] \in Seq(Part)
  BY DEF TypeOK, RunPosted
<1>2. outq'[e] = Append(outq[e], Head(posted[e])) /\ acks'[e] = acks[e]
  BY DEF TypeOK, RunPosted
<1>3. outq'[e] # <<>>
  BY <1>1, <1>2, Shortened, Appended
<1>4. CASE outq[e] = <<>>
  <2>1. writes[e] = <<>> /\ acks[e] = <<>>
    BY <1>4, OneWriteEverywhere DEF OneWriteAt
  <2>2. writes'[e] = Append(writes[e], "header")
    BY <1>4 DEF RunPosted, StartsWriting, TypeOK
  <2>3. Len(writes'[e]) = 1 /\ Len(acks'[e]) = 0
    BY <1>1, <1>2, <2>1, <2>2, Appended, LengthZero DEF Part
  <2> QED
    BY <1>3, <2>3 DEF OneWriteAt
<1>5. CASE outq[e] # <<>>
  BY <1>2, <1>3, <1>5, OneWriteEverywhere
     DEF OneWriteAt, RunPosted, StartsWriting
<1> QED
  BY <1>4, <1>5

LEMMA TransmitKeepsOneWrite ==
  ASSUME TypeOK, OneWrite, NEW e \in End, Transmit(e)
  PROVE  OneWrite'
<1>1. /\ outq[e] # <<>> /\ acks[e] = <<>> /\ Len(writes[e]) = 1
      /\ writes[e] \in Seq(Part) /\ writes[e] # <<>> /\ acks[e] \in Seq(Part)
  BY TheWrite DEF Transmit
<1>2. /\ writes'[e] = Tail(writes[e])
      /\ acks'[e] = Append(acks[e], Head(writes[e]))
      /\ outq'[e] = outq[e]
  BY DEF TypeOK, Transmit
<1>3. Len(writes'[e]) = 0
  BY <1>1, <1>2, Shortened
<1>4. Len(acks'[e]) = 1
  <2>1. Len(acks[e]) = 0
    BY <1>1, LengthZero
  <2> QED
    BY <1>1, <1>2, <2>1, Shortened, Appended
<1>5. OneWriteAt(e)'
  BY <1>1, <1>2, <1>3, <1>4 DEF OneWriteAt
<1> QED
  BY <1>5, LocalStep DEF Transmit, TypeOK

LEMMA WroteKeepsOneWrite ==
  ASSUME TypeOK, OneWrite, NEW e \in End, WroteHeader(e) \/ WroteBody(e)
  PROVE  OneWrite'
<1> SUFFICES OneWriteAt(e)'
  BY LocalStep DEF WroteHeader, WroteBody, PopAndGoOn, TypeOK
<1>1. /\ acks[e] # <<>> /\ outq[e] # <<>> /\ writes[e] = <<>>
      /\ Len(acks[e]) = 1 /\ acks[e] \in Seq(Part)
  BY TheWrite DEF WroteHeader, WroteBody
<1>2. acks'[e] = <<>>
  <2>1. acks'[e] = Tail(acks[e])
    BY DEF TypeOK, WroteHeader, WroteBody
  <2>2. Tail(acks[e]) \in Seq(Part) /\ Len(Tail(acks[e])) = 0
    BY <1>1, Shortened
  <2> QED
    BY <2>1, <2>2, LengthZero
<1>3. CASE /\ writes' = [writes EXCEPT ![e] = Append(@, "body")]
           /\ UNCHANGED outq
  <2>1. writes'[e] = <<"body">> /\ outq'[e] # <<>>
    BY <1>1, <1>3 DEF TypeOK
  <2> QED
    BY <1>2, <2>1 DEF OneWriteAt
<1>4. CASE PopAndGoOn(e)
  <2>1. outq'[e] = Tail(outq[e])
    BY <1>4 DEF PopAndGoOn, TypeOK
  <2>2. writes'[e] = <<>> \o WriteAfterPop(outq[e])
    BY <1>1, <1>4 DEF PopAndGoOn, TypeOK
  <2>3. /\ <<>> \o <<>> = <<>>
        /\ <<>> \o <<"header">> = <<"header">>
    OBVIOUS
  <2>4. writes'[e] = IF outq'[e] = <<>> THEN <<>> ELSE <<"header">>
    BY <2>1, <2>2, <2>3 DEF WriteAfterPop
  <2> QED
    BY <1>2, <2>4 DEF OneWriteAt
<1> QED
  BY <1>3, <1>4 DEF WroteHeader, WroteBody

LEMMA WriteFailedKeepsOneWrite ==
  ASSUME TypeOK, OneWrite, NEW e \in End, WriteFailed(e)
  PROVE  OneWrite'
<1>1. /\ outq[e] # <<>> /\ acks[e] = <<>> /\ Len(writes[e]) = 1
      /\ writes[e] \in Seq(Part) /\ writes[e] # <<>>
  BY TheWrite DEF WriteFailed
<1>2. /\ writes'[e] = Tail(writes[e]) /\ acks'[e] = acks[e]
      /\ outq'[e] = outq[e] /\ sock'[e] \in {"closed", "refused"}
  BY DEF TypeOK, WriteFailed, AfterClose
<1>3. writes'[e] = <<>>
  <2>1. Tail(writes[e]) \in Seq(Part) /\ Len(Tail(writes[e])) = 0
    BY <1>1, Shortened
  <2> QED
    BY <1>2, <2>1, LengthZero
<1>4. OneWriteAt(e)'
  BY <1>1, <1>2, <1>3 DEF OneWriteAt
<1> QED
  BY <1>4, LocalStep DEF WriteFailed, TypeOK

LEMMA OthersKeepOneWrite ==
  ASSUME TypeOK, OneWrite,
         \/ Connecting
         \/ \E e \in End : \/ SendMsg(e) \/ LoseTail(e)
                          \/ ReadHeader(e) \/ ReadBody(e)
                          \/ ReadHeaderFailed(e) \/ ReadBodyFailed(e)
         \/ \E p \in Clients \cup {Server} : Halt(p)
  PROVE  OneWrite'
<1>1. UNCHANGED <<outq, writes, acks>>
  BY DEF Connecting, ConnectOk, ConnectFail, Accept, SendMsg, LoseTail,
         ReadHeader, ReadBody, ReadHeaderFailed, ReadBodyFailed, Halt, outgoing
<1>2. ASSUME NEW e \in End, sock[e] \in {"closed", "refused"}
      PROVE  sock'[e] \in {"closed", "refused"}
  BY <1>2, Ends, ZenonT(40)
     DEF Connecting, ConnectOk, ConnectFail, Accept, SendMsg, LoseTail, TypeOK,
         ReadHeader, ReadBody, ReadHeaderFailed, ReadBodyFailed, Halt,
         AfterClose
<1> QED
  BY <1>1, <1>2, QuietStep

------------------------------------------------------------------------------
LEMMA InductiveSend == SendInv /\ [Next]_vars => SendInv'
<1> SUFFICES ASSUME TypeOK, OneWrite, [Next]_vars
             PROVE  TypeOK' /\ OneWrite'
  BY DEF SendInv
<1>1. CASE Connecting
  BY <1>1, ConnectTypes, OthersKeepOneWrite DEF Connecting
<1>2. ASSUME NEW e \in End, SendMsg(e)
      PROVE  TypeOK' /\ OneWrite'
  BY <1>2, SendTypes, OthersKeepOneWrite
<1>3. ASSUME NEW e \in End, Handler(e)
      PROVE  TypeOK' /\ OneWrite'
  <2>1. CASE RunPosted(e)
    BY <2>1, RunPostedTypes, RunPostedKeepsOneWrite
  <2>2. CASE WroteHeader(e) \/ WroteBody(e)
    BY <2>2, WroteTypes, WroteKeepsOneWrite
  <2>3. CASE WriteFailed(e)
    BY <2>3, WriteFailedTypes, WriteFailedKeepsOneWrite
  <2>4. CASE ReadHeader(e)
    BY <2>4, ReadHeaderTypes, OthersKeepOneWrite
  <2>5. CASE ReadBody(e)
    BY <2>5, ReadBodyTypes, OthersKeepOneWrite
  <2>6. CASE ReadHeaderFailed(e) \/ ReadBodyFailed(e)
    BY <2>6, ReadFailedTypes, OthersKeepOneWrite
  <2> QED
    BY <1>3, <2>1, <2>2, <2>3, <2>4, <2>5, <2>6 DEF Handler
<1>4. ASSUME NEW e \in End, Transmit(e)
      PROVE  TypeOK' /\ OneWrite'
  BY <1>4, TransmitTypes, TransmitKeepsOneWrite
<1>5. ASSUME NEW e \in End, LoseTail(e)
      PROVE  TypeOK' /\ OneWrite'
  BY <1>5, OutsideTypes, OthersKeepOneWrite
<1>6. ASSUME NEW p \in Clients \cup {Server}, Halt(p)
      PROVE  TypeOK' /\ OneWrite'
  BY <1>6, OutsideTypes, OthersKeepOneWrite
<1>7. CASE UNCHANGED vars
  BY <1>7 DEF vars, TypeOK, OneWrite
<1> QED
  BY <1>1, <1>2, <1>3, <1>4, <1>5, <1>6, <1>7 DEF Next

LEMMA InitialSend == Init => SendInv
<1> SUFFICES ASSUME Init PROVE TypeOK /\ OneWrite
  BY DEF SendInv
<1>1. NoMsg \in Msg /\ 0 \in MsgId
  BY TransportAssumption DEF NoMsg, Msg, MsgId
<1>2. \A S : <<>> \in Seq(S)
  BY EmptySeq
<1>3. TypeOK
  BY <1>1, <1>2 DEF Init, TypeOK
<1>4. OneWrite
  BY DEF Init, OneWrite
<1> QED
  BY <1>3, <1>4

(* In every reachable state of any number of connections the variables of  *)
(* Transport have their types, and a Connection with messages in           *)
(* _msg_queue_out has exactly one async_write under way, unless one has    *)
(* failed and closed the socket.                                           *)
THEOREM SendIsSafe == Spec => []SendInv
<1> QED
  BY InitialSend, InductiveSend, PTL DEF Spec

(* No two async_writes of a Connection are ever under way together.        *)
THEOREM WritesNeverMix == Spec => []OneWrite
<1>1. SendInv => OneWrite
  BY DEF SendInv
<1> QED
  BY <1>1, SendIsSafe, PTL

------------------------------------------------------------------------------
(* The stream *)

Dead == {"closed", "refused"}

(* How many messages the writer is done with: sent is these, _msg_queue_out *)
(* and the posted ones.                                                    *)
Popped(d) == Len(sent[d]) - Len(posted[d]) - Len(outq[d])

PositionAfter(id, part, body) ==
  IF part = "header" /\ body THEN <<id, "body">> ELSE <<id + 1, "header">>

FramePosition(f) == <<f.msg.id, f.part>>
AfterFrame(f) == PositionAfter(f.msg.id, f.part, f.msg.body)

(* Where the next frame is written.                                        *)
WriterPosition(d) ==
  IF acks[d] # <<>>
  THEN PositionAfter(Popped(d) + 1, Head(acks[d]), Head(outq[d]).body)
  ELSE IF writes[d] # <<>> THEN <<Popped(d) + 1, Head(writes[d])>>
  ELSE <<Popped(d) + 1, "header">>

(* The frame that is read next.                                            *)
ReaderPosition(r) ==
  <<Len(inq[r]) + 1, IF reading[r] = "body" THEN "body" ELSE "header">>

SentAt(d) ==
  /\ \A k \in 1..Len(sent[d]) : sent[d][k].id = k
  /\ Popped(d) >= 0
  /\ \A i \in 1..Len(outq[d]) : outq[d][i] = sent[d][Popped(d) + i]
  /\ \A i \in 1..Len(posted[d]) :
       posted[d][i] = sent[d][Popped(d) + Len(outq[d]) + i]

(* A body that is written is announced, and an end that is not connected   *)
(* reads nothing.                                                          *)
PartsAt(d) ==
  /\ acks[d] # <<>> /\ Head(acks[d]) = "body" => Head(outq[d]).body
  /\ writes[d] # <<>> /\ Head(writes[d]) = "body" => Head(outq[d]).body
  /\ sock[d] \in {"none", "connecting"} => reading[d] = "off"

(* The messages in r's _msg_queue_in are the first of those sent to it.    *)
ReceivedAt(r) ==
  LET s == sent[Peer(r)] IN
  /\ Len(inq[r]) <= Len(s)
  /\ \A i \in 1..Len(inq[r]) :
       inq[r][i][1] = s[i] /\ (s[i].body => inq[r][i][2] = i)

OfSent(d) ==
  \A i \in 1..Len(wire[d]) :
    LET m == wire[d][i].msg IN m.id \in 1..Len(sent[d]) /\ m = sent[d][m.id]
Consecutive(d) ==
  \A i \in 1..(Len(wire[d]) - 1) :
    FramePosition(wire[d][i + 1]) = AfterFrame(wire[d][i])
StartsAtReader(d) ==
  wire[d] # <<>> => FramePosition(wire[d][1]) = ReaderPosition(Peer(d))
EndsAtWriter(d) ==
  sock[d] \notin Dead =>
    WriterPosition(d) = IF wire[d] = <<>> THEN ReaderPosition(Peer(d))
                        ELSE AfterFrame(wire[d][Len(wire[d])])
HeaderIsRead(r) ==
  reading[r] = "body" =>
    /\ Len(inq[r]) < Len(sent[Peer(r)])
    /\ tmpHead[r] = sent[Peer(r)][Len(inq[r]) + 1]

(* The stream from d, while there is someone to read it.                   *)
StreamAt(d) ==
  sock[Peer(d)] \notin Dead =>
    /\ OfSent(d) /\ Consecutive(d) /\ StartsAtReader(d) /\ EndsAtWriter(d)
    /\ HeaderIsRead(Peer(d))

StreamInv ==
  \A e \in End : SentAt(e) /\ PartsAt(e) /\ ReceivedAt(e) /\ StreamAt(e)

------------------------------------------------------------------------------
(* What a step leaves alone *)

LEMMA PeerOfPeer ==
  \A e \in End : Peer(e) \in End /\ Peer(e) # e /\ Peer(Peer(e)) = e
<1> SUFFICES ASSUME NEW e \in End
             PROVE  Peer(e) \in End /\ Peer(e) # e /\ Peer(Peer(e)) = e
  OBVIOUS
<1>1. PICK c \in Clients, side \in {"client", "server"} : e = <<c, side>>
  BY DEF End
<1>2. CASE side = "client"
  BY <1>1, <1>2 DEF Peer, End
<1>3. CASE side = "server"
  BY <1>1, <1>3 DEF Peer, End
<1> QED
  BY <1>1, <1>2, <1>3

LEMMA Lengths ==
  ASSUME TypeOK, NEW e \in End
  PROVE  /\ posted[e] \in Seq(Msg) /\ outq[e] \in Seq(Msg) /\ sent[e] \in Seq(Msg)
         /\ writes[e] \in Seq(Part) /\ acks[e] \in Seq(Part)
         /\ wire[e] \in Seq(Frame) /\ inq[e] \in Seq(Msg \X MsgId)
         /\ Len(posted[e]) \in Nat /\ Len(outq[e]) \in Nat
         /\ Len(sent[e]) \in Nat /\ Len(wire[e]) \in Nat /\ Len(inq[e]) \in Nat
         /\ Popped(e) \in Int
<1>1. /\ posted[e] \in Seq(Msg) /\ outq[e] \in Seq(Msg) /\ sent[e] \in Seq(Msg)
      /\ writes[e] \in Seq(Part) /\ acks[e] \in Seq(Part)
      /\ wire[e] \in Seq(Frame) /\ inq[e] \in Seq(Msg \X MsgId)
  BY DEF TypeOK
<1>2. /\ Len(posted[e]) \in Nat /\ Len(outq[e]) \in Nat
      /\ Len(sent[e]) \in Nat /\ Len(wire[e]) \in Nat /\ Len(inq[e]) \in Nat
  BY <1>1, LenProperties
<1> QED
  BY <1>1, <1>2 DEF Popped

LEMMA SameSent ==
  ASSUME NEW e, SentAt(e), sent'[e] = sent[e], posted'[e] = posted[e],
         outq'[e] = outq[e]
  PROVE  SentAt(e)' /\ Popped(e)' = Popped(e)
BY DEF SentAt, Popped

LEMMA SameParts ==
  ASSUME NEW e, PartsAt(e), acks'[e] = acks[e], writes'[e] = writes[e],
         acks[e] # <<>> \/ writes[e] # <<>> => Head(outq'[e]) = Head(outq[e]),
         sock'[e] \in {"none", "connecting"} =>
           sock[e] = sock'[e] /\ reading'[e] = reading[e]
  PROVE  PartsAt(e)'
BY DEF PartsAt

LEMMA SameReceived ==
  ASSUME TypeOK, NEW e \in End, ReceivedAt(e), inq'[e] = inq[e],
         sent'[Peer(e)] = sent[Peer(e)]
  PROVE  ReceivedAt(e)'
BY DEF ReceivedAt, Peer

(* The same frames are under way, between the same positions.              *)
LEMMA SameStream ==
  ASSUME TypeOK, NEW d \in End, StreamAt(d),
         wire'[d] = wire[d], inq'[Peer(d)] = inq[Peer(d)],
         tmpHead'[Peer(d)] = tmpHead[Peer(d)],
         sock'[Peer(d)] \notin Dead =>
           /\ sock[Peer(d)] \notin Dead
           /\ reading'[Peer(d)] = "body" <=> reading[Peer(d)] = "body",
         sock'[d] \notin Dead =>
           sock[d] \notin Dead /\ WriterPosition(d)' = WriterPosition(d),
         Len(sent'[d]) \in Nat, Len(sent[d]) <= Len(sent'[d]),
         \A k \in 1..Len(sent[d]) : sent'[d][k] = sent[d][k]
  PROVE  StreamAt(d)'
<1> SUFFICES ASSUME sock'[Peer(d)] \notin Dead
             PROVE  /\ OfSent(d)' /\ Consecutive(d)' /\ StartsAtReader(d)'
                    /\ EndsAtWriter(d)' /\ HeaderIsRead(Peer(d))'
  BY DEF StreamAt, Peer
<1>1. /\ OfSent(d) /\ Consecutive(d) /\ StartsAtReader(d) /\ EndsAtWriter(d)
      /\ HeaderIsRead(Peer(d))
  BY DEF StreamAt
<1>2. ReaderPosition(Peer(d))' = ReaderPosition(Peer(d))
  BY DEF ReaderPosition, Peer
<1>3. /\ Len(sent[d]) \in Nat /\ Len(inq[Peer(d)]) \in Nat
      /\ Peer(Peer(d)) = d /\ Peer(d) \in End
  BY PeerOfPeer, Lengths
<1>4. OfSent(d)'
  <2>1. ASSUME NEW i \in 1..Len(wire[d])
        PROVE  LET m == wire[d][i].msg
               IN m.id \in 1..Len(sent'[d]) /\ m = sent'[d][m.id]
    <3> DEFINE m == wire[d][i].msg
    <3>1. m.id \in 1..Len(sent[d]) /\ m = sent[d][m.id]
      BY <1>1 DEF OfSent
    <3> HIDE DEF m
    <3>2. m.id \in 1..Len(sent'[d]) /\ m = sent'[d][m.id]
      BY <1>3, <3>1
    <3> QED
      BY <3>2 DEF m
  <2> QED
    BY <2>1 DEF OfSent
<1>5. Consecutive(d)'
  BY <1>1 DEF Consecutive, FramePosition, AfterFrame, PositionAfter
<1>6. StartsAtReader(d)'
  BY <1>1, <1>2 DEF StartsAtReader, FramePosition, ReaderPosition, Peer
<1>7. EndsAtWriter(d)'
  <2>1. CASE sock'[d] \in Dead
    BY <2>1 DEF EndsAtWriter
  <2>2. CASE sock'[d] \notin Dead
    <3>1. WriterPosition(d)' = IF wire'[d] = <<>> THEN ReaderPosition(Peer(d))'
                               ELSE AfterFrame(wire'[d][Len(wire'[d])])
      BY <1>1, <1>2, <2>2 DEF EndsAtWriter
    <3> QED
      BY <3>1 DEF EndsAtWriter, AfterFrame, PositionAfter, Peer, ReaderPosition
  <2> QED
    BY <2>1, <2>2
<1>8. HeaderIsRead(Peer(d))'
  BY <1>1, <1>3 DEF HeaderIsRead, Peer
<1> QED
  BY <1>4, <1>5, <1>6, <1>7, <1>8

------------------------------------------------------------------------------
(* Connecting, closing, halting *)

(* Steps that only change sockets and outstanding reads, reopen nothing,   *)
(* and start to read only where nothing has been read.                     *)
LEMMA SocketsStream ==
  ASSUME TypeOK, StreamInv, UNCHANGED <<outgoing, wire, tmpHead, inq>>,
         \A e \in End :
           \/ sock'[e] \in Dead
           \/ /\ sock[e] \notin Dead /\ reading'[e] = reading[e]
              /\ sock'[e] \in {"none", "connecting"} => sock[e] = sock'[e]
           \/ /\ sock[e] \in {"none", "connecting"} /\ sock'[e] = "open"
              /\ reading'[e] = "header"
  PROVE  StreamInv'
<1> SUFFICES ASSUME NEW e \in End
             PROVE  SentAt(e)' /\ PartsAt(e)' /\ ReceivedAt(e)' /\ StreamAt(e)'
  BY DEF StreamInv
<1>1. SentAt(e) /\ PartsAt(e) /\ ReceivedAt(e) /\ StreamAt(e) /\ PartsAt(Peer(e))
  BY PeerOfPeer DEF StreamInv
<1>2. UNCHANGED <<sent, posted, outq, acks, writes>>
  BY DEF outgoing
<1>3. SentAt(e)' /\ Popped(e)' = Popped(e)
  BY <1>1, <1>2, SameSent
<1>4. PartsAt(e)'
  BY <1>1, <1>2, SameParts DEF Dead
<1>5. ReceivedAt(e)'
  BY <1>1, <1>2, SameReceived
<1>6. WriterPosition(e)' = WriterPosition(e)
  BY <1>2, <1>3 DEF WriterPosition, PositionAfter
<1>7. sock'[Peer(e)] \notin Dead =>
        /\ sock[Peer(e)] \notin Dead
        /\ reading'[Peer(e)] = "body" <=> reading[Peer(e)] = "body"
  BY <1>1, PeerOfPeer DEF PartsAt, Dead
<1>8. sock'[e] \notin Dead => sock[e] \notin Dead
  BY DEF Dead
<1>9. StreamAt(e)'
  BY <1>1, <1>2, <1>6, <1>7, <1>8, Lengths, SameStream
<1> QED
  BY <1>3, <1>4, <1>5, <1>9

LEMMA ConnectStream ==
  ASSUME TypeOK, StreamInv, NEW c \in Clients,
         ConnectOk(c) \/ ConnectFail(c) \/ Accept(c)
  PROVE  StreamInv'
<1>1. UNCHANGED <<outgoing, wire, tmpHead, inq>>
  BY DEF ConnectOk, ConnectFail, Accept, incoming
<1>2. ASSUME NEW e \in End
      PROVE  \/ sock'[e] \in Dead
             \/ sock'[e] = sock[e] /\ reading'[e] = reading[e]
             \/ /\ sock[e] \in {"none", "connecting"} /\ sock'[e] = "open"
                /\ reading'[e] = "header"
  BY Ends DEF ConnectOk, ConnectFail, Accept, incoming, TypeOK, Dead
<1> QED
  BY <1>1, <1>2, SocketsStream DEF Dead

LEMMA ClosesStream ==
  ASSUME TypeOK, StreamInv,
         \/ \E e \in End : ReadHeaderFailed(e) \/ ReadBodyFailed(e)
         \/ \E p \in Clients \cup {Server} : Halt(p)
  PROVE  StreamInv'
<1>1. UNCHANGED <<outgoing, wire, tmpHead, inq>>
  BY DEF ReadHeaderFailed, ReadBodyFailed, Halt, incoming
<1>2. ASSUME NEW e \in End
      PROVE  \/ sock'[e] \in Dead
             \/ sock'[e] = sock[e] /\ reading'[e] = reading[e]
  BY DEF ReadHeaderFailed, ReadBodyFailed, Halt, AfterClose, incoming, TypeOK,
         Dead
<1> QED
  BY <1>1, <1>2, SocketsStream DEF Dead

------------------------------------------------------------------------------
(* The writer *)

LEMMA PoppedIs ==
  ASSUME TypeOK, NEW e \in End
  PROVE  /\ Popped(e) = Len(sent[e]) - Len(posted[e]) - Len(outq[e])
         /\ Popped(e)' = Len(sent'[e]) - Len(posted'[e]) - Len(outq'[e])
BY DEF Popped

(* A step of the writer that puts nothing on the stream, and goes on from  *)
(* the same position, if it goes on.                                       *)
LEMMA WriterStream ==
  ASSUME TypeOK, StreamInv, NEW d \in End,
         UNCHANGED <<wire, incoming>>,
         \A e \in End \ {d} : UNCHANGED <<sent[e], posted[e], outq[e], acks[e],
                                          writes[e], sock[e]>>,
         SentAt(d)', PartsAt(d)',
         \/ sock'[d] \in Dead
         \/ sock'[d] = sock[d] /\ WriterPosition(d)' = WriterPosition(d),
         Len(sent'[d]) \in Nat, Len(sent[d]) <= Len(sent'[d]),
         \A k \in 1..Len(sent[d]) : sent'[d][k] = sent[d][k]
  PROVE  StreamInv'
<1> SUFFICES ASSUME NEW e \in End
             PROVE  SentAt(e)' /\ PartsAt(e)' /\ ReceivedAt(e)' /\ StreamAt(e)'
  BY DEF StreamInv
<1>1. SentAt(e) /\ PartsAt(e) /\ ReceivedAt(e) /\ StreamAt(e)
  BY DEF StreamInv
<1>2. UNCHANGED <<reading, tmpHead, inq>>
  BY DEF incoming
<1>3. CASE e = d
  <2>1. Peer(d) \in End \ {d}
    BY PeerOfPeer
  <2>2. StreamAt(d)'
    BY <1>1, <1>2, <1>3, <2>1, SameStream DEF Dead
  <2>3. ReceivedAt(d)'
    BY <1>1, <1>2, <1>3, <2>1, SameReceived
  <2> QED
    BY <1>3, <2>2, <2>3
<1>4. CASE e # d
  <2>1. SentAt(e)' /\ Popped(e)' = Popped(e)
    BY <1>1, <1>4, SameSent
  <2>2. PartsAt(e)'
    BY <1>1, <1>2, <1>4, SameParts
  <2>3. WriterPosition(e)' = WriterPosition(e)
    BY <1>4, <2>1 DEF WriterPosition, PositionAfter
  <2>4. StreamAt(e)'
    <3>1. sock'[Peer(e)] \notin Dead => sock[Peer(e)] \notin Dead
      BY <1>4, PeerOfPeer DEF Dead
    <3>2. sent'[e] = sent[e] /\ sock'[e] = sock[e] /\ Len(sent[e]) \in Nat
      BY <1>4, Lengths
    <3>3. Len(sent'[e]) \in Nat /\ Len(sent[e]) <= Len(sent'[e])
      BY <3>2
    <3> QED
      BY <1>1, <1>2, <2>3, <3>1, <3>2, <3>3, SameStream
  <2>5. ReceivedAt(e)'
    <3>1. CASE Peer(e) # d
      BY <1>1, <1>2, <3>1, PeerOfPeer, SameReceived
    <3>2. CASE Peer(e) = d
      <4>1. /\ Len(inq[e]) <= Len(sent[d])
            /\ \A i \in 1..Len(inq[e]) :
                 /\ inq[e][i][1] = sent[d][i]
                 /\ sent[d][i].body => inq[e][i][2] = i
        BY <1>1, <3>2 DEF ReceivedAt
      <4>2. Len(inq[e]) \in Nat /\ Len(sent[d]) \in Nat
        BY Lengths
      <4>3. /\ Len(inq[e]) <= Len(sent'[d])
            /\ \A i \in 1..Len(inq[e]) :
                 /\ inq[e][i][1] = sent'[d][i]
                 /\ sent'[d][i].body => inq[e][i][2] = i
        BY <4>1, <4>2
      <4> QED
        BY <1>2, <3>2, <4>3 DEF ReceivedAt, Peer
    <3> QED
      BY <3>1, <3>2
  <2> QED
    BY <2>1, <2>2, <2>4, <2>5
<1> QED
  BY <1>3, <1>4

LEMMA SendStream ==
  ASSUME TypeOK, StreamInv, NEW e \in End, SendMsg(e)
  PROVE  StreamInv'
<1>1. PICK b \in BOOLEAN :
        LET m == [id |-> Len(sent[e]) + 1, body |-> b] IN
        /\ posted' = [posted EXCEPT ![e] = Append(posted[e], m)]
        /\ sent' = [sent EXCEPT ![e] = Append(sent[e], m)]
  BY DEF SendMsg
<1> DEFINE m == [id |-> Len(sent[e]) + 1, body |-> b]
<1>2. /\ posted'[e] = Append(posted[e], m) /\ sent'[e] = Append(sent[e], m)
      /\ \A d \in End \ {e} : posted'[d] = posted[d] /\ sent'[d] = sent[d]
      /\ UNCHANGED <<sock, outq, writes, acks, wire, incoming>>
  BY <1>1 DEF SendMsg, TypeOK
<1>3. m.id = Len(sent[e]) + 1
  OBVIOUS
<1> HIDE DEF m
<1>4. /\ Len(posted[e]) \in Nat /\ Len(sent[e]) \in Nat /\ Len(outq[e]) \in Nat
      /\ sent[e] \in Seq(Msg) /\ posted[e] \in Seq(Msg)
  BY Lengths
<1>5. /\ Len(sent'[e]) = Len(sent[e]) + 1 /\ sent'[e][Len(sent[e]) + 1] = m
      /\ \A k \in 1..Len(sent[e]) : sent'[e][k] = sent[e][k]
  BY <1>2, <1>4
<1>6. /\ Len(posted'[e]) = Len(posted[e]) + 1
      /\ posted'[e][Len(posted[e]) + 1] = m
      /\ \A k \in 1..Len(posted[e]) : posted'[e][k] = posted[e][k]
  BY <1>2, <1>4
<1>7. SentAt(e) /\ PartsAt(e)
  BY DEF StreamInv
<1>8. Popped(e)' = Popped(e) /\ Popped(e) \in Int /\ Popped(e) >= 0
      /\ Popped(e) + Len(outq[e]) + Len(posted[e]) = Len(sent[e])
  <2> DEFINE s == Len(sent[e])
             p == Len(posted[e])
             q == Len(outq[e])
  <2>1. s \in Nat /\ p \in Nat /\ q \in Nat /\ Popped(e) >= 0
    BY <1>4, <1>7 DEF SentAt
  <2>2. Popped(e) = s - p - q /\ Popped(e)' = (s + 1) - (p + 1) - q
    BY <1>2, <1>5, <1>6, PoppedIs
  <2> HIDE DEF s, p, q
  <2>3. /\ Popped(e)' = Popped(e) /\ Popped(e) \in Int
        /\ Popped(e) + q + p = s
    BY <2>1, <2>2
  <2> QED
    BY <2>1, <2>3 DEF s, p, q
<1>9. SentAt(e)'
  <2>1. \A k \in 1..Len(sent'[e]) : sent'[e][k].id = k
    BY <1>3, <1>4, <1>5, <1>7 DEF SentAt
  <2>2. \A i \in 1..Len(outq[e]) : outq[e][i] = sent'[e][Popped(e) + i]
    <3>1. ASSUME NEW i \in 1..Len(outq[e])
          PROVE  Popped(e) + i \in 1..Len(sent[e])
      BY <1>4, <1>8
    <3> QED
      BY <1>5, <1>7, <3>1 DEF SentAt
  <2>3. \A i \in 1..Len(posted'[e]) :
          posted'[e][i] = sent'[e][Popped(e) + Len(outq[e]) + i]
    <3>1. ASSUME NEW i \in 1..Len(posted[e])
          PROVE  posted'[e][i] = sent'[e][Popped(e) + Len(outq[e]) + i]
      <4>1. Popped(e) + Len(outq[e]) + i \in 1..Len(sent[e])
        BY <1>4, <1>8, SMTT(30)
      <4> QED
        BY <1>5, <1>6, <1>7, <4>1 DEF SentAt
    <3>2. Popped(e) + Len(outq[e]) + (Len(posted[e]) + 1) = Len(sent[e]) + 1
      <4> DEFINE k == Popped(e) + Len(outq[e])
      <4>1. k \in Int /\ k + Len(posted[e]) = Len(sent[e])
        BY <1>4, <1>8
      <4> HIDE DEF k
      <4>2. k + (Len(posted[e]) + 1) = Len(sent[e]) + 1
        BY <1>4, <4>1
      <4> QED
        BY <4>2 DEF k
    <3> QED
      BY <1>4, <1>5, <1>6, <3>1, <3>2
  <2> QED
    BY <1>2, <1>8, <2>1, <2>2, <2>3 DEF SentAt
<1>10. PartsAt(e)'
  BY <1>2, <1>7 DEF PartsAt, incoming
<1>11. WriterPosition(e)' = WriterPosition(e)
  BY <1>2, <1>8 DEF WriterPosition, PositionAfter
<1>12. Len(sent'[e]) \in Nat /\ Len(sent[e]) <= Len(sent'[e])
  BY <1>4, <1>5
<1> QED
  BY <1>2, <1>5, <1>9, <1>10, <1>11, <1>12, WriterStream

LEMMA RunPostedStream ==
  ASSUME TypeOK, OneWrite, StreamInv, NEW e \in End, RunPosted(e)
  PROVE  StreamInv'
<1>1. /\ posted'[e] = Tail(posted[e])
      /\ outq'[e] = Append(outq[e], Head(posted[e]))
      /\ \A d \in End \ {e} : /\ posted'[d] = posted[d] /\ outq'[d] = outq[d]
                              /\ writes'[d] = writes[d]
      /\ UNCHANGED <<sock, acks, wire, incoming, sent>>
  BY DEF RunPosted, TypeOK
<1>2. /\ Len(posted[e]) \in Nat /\ Len(sent[e]) \in Nat /\ Len(outq[e]) \in Nat
      /\ outq[e] \in Seq(Msg) /\ posted[e] \in Seq(Msg) /\ posted[e] # <<>>
  BY Lengths DEF RunPosted
<1>3. /\ Len(posted'[e]) = Len(posted[e]) - 1 /\ Len(posted[e]) >= 1
      /\ \A i \in 1..Len(posted'[e]) : posted'[e][i] = posted[e][i + 1]
      /\ Head(posted[e]) = posted[e][1]
  BY <1>1, <1>2, HeadTailProperties, LengthZero
<1>4. /\ Len(outq'[e]) = Len(outq[e]) + 1
      /\ outq'[e][Len(outq[e]) + 1] = posted[e][1]
      /\ \A i \in 1..Len(outq[e]) : outq'[e][i] = outq[e][i]
  BY <1>1, <1>2, <1>3
<1>5. SentAt(e) /\ PartsAt(e)
  BY DEF StreamInv
<1>6. Popped(e)' = Popped(e) /\ Popped(e) \in Int
  <2> DEFINE s == Len(sent[e])
             p == Len(posted[e])
             q == Len(outq[e])
  <2>1. s \in Nat /\ p \in Nat /\ q \in Nat
    BY <1>2
  <2>2. Popped(e) = s - p - q /\ Popped(e)' = s - (p - 1) - (q + 1)
    BY <1>1, <1>3, <1>4, PoppedIs
  <2> HIDE DEF s, p, q
  <2> QED
    BY <2>1, <2>2
<1>7. SentAt(e)'
  <2>1. \A i \in 1..Len(outq'[e]) : outq'[e][i] = sent[e][Popped(e) + i]
    <3>1. posted[e][1] = sent[e][Popped(e) + Len(outq[e]) + 1]
      BY <1>2, <1>3, <1>5 DEF SentAt
    <3>2. Popped(e) + Len(outq[e]) + 1 = Popped(e) + (Len(outq[e]) + 1)
      BY <1>2, <1>6
    <3> QED
      BY <1>2, <1>4, <1>5, <3>1, <3>2 DEF SentAt
  <2>2. ASSUME NEW i \in 1..Len(posted'[e])
        PROVE  posted'[e][i] = sent[e][Popped(e) + Len(outq'[e]) + i]
    <3>1. i + 1 \in 1..Len(posted[e])
      BY <1>2, <1>3
    <3>2. Popped(e) + Len(outq'[e]) + i = Popped(e) + Len(outq[e]) + (i + 1)
      <4>1. i \in Int
        BY <1>2, <1>3
      <4> DEFINE q == Len(outq[e])
      <4>2. q \in Nat /\ Len(outq'[e]) = q + 1
        BY <1>2, <1>4
      <4> HIDE DEF q
      <4>3. Popped(e) + (q + 1) + i = Popped(e) + q + (i + 1)
        BY <1>6, <4>1, <4>2
      <4> QED
        BY <4>2, <4>3 DEF q
    <3> QED
      BY <1>3, <1>5, <3>1, <3>2 DEF SentAt
  <2> QED
    BY <1>1, <1>5, <1>6, <2>1, <2>2 DEF SentAt
<1>8. CASE outq[e] = <<>>
  <2>1. writes[e] = <<>> /\ acks[e] = <<>>
    BY <1>8, OneWriteEverywhere DEF OneWriteAt
  <2>2. writes'[e] = <<"header">>
    BY <1>8, <2>1 DEF RunPosted, StartsWriting, TypeOK
  <2>3. PartsAt(e)'
    BY <1>1, <1>5, <2>1, <2>2 DEF PartsAt, incoming
  <2>4. WriterPosition(e)' = WriterPosition(e)
    BY <1>1, <1>6, <2>1, <2>2 DEF WriterPosition
  <2> QED
    BY <1>1, <1>2, <1>7, <2>3, <2>4, WriterStream
<1>9. CASE outq[e] # <<>>
  <2>1. writes' = writes
    BY <1>9 DEF RunPosted, StartsWriting
  <2>2. Head(outq'[e]) = Head(outq[e])
    <3>1. Len(outq[e]) >= 1 /\ outq'[e] # <<>>
      BY <1>1, <1>2, <1>3, <1>4, <1>9, LengthZero, Shortened, Appended
    <3> QED
      BY <1>2, <1>4, <1>9, <3>1
  <2>3. PartsAt(e)'
    BY <1>1, <1>5, <2>1, <2>2 DEF PartsAt, incoming
  <2>4. WriterPosition(e)' = WriterPosition(e)
    BY <1>1, <1>6, <2>1, <2>2 DEF WriterPosition, PositionAfter
  <2> QED
    BY <1>1, <1>2, <1>7, <2>1, <2>3, <2>4, WriterStream
<1> QED
  BY <1>8, <1>9

LEMMA WriteFailedStream ==
  ASSUME TypeOK, OneWrite, StreamInv, NEW e \in End, WriteFailed(e)
  PROVE  StreamInv'
<1>1. /\ UNCHANGED <<posted, outq, acks, wire, incoming, sent>>
      /\ \A d \in End \ {e} : sock'[d] = sock[d] /\ writes'[d] = writes[d]
      /\ writes'[e] = Tail(writes[e]) /\ sock'[e] \in Dead
  BY DEF WriteFailed, TypeOK, AfterClose, Dead
<1>2. SentAt(e) /\ PartsAt(e)
  BY DEF StreamInv
<1>3. SentAt(e)'
  BY <1>1, <1>2, SameSent
<1>4. writes'[e] = <<>>
  <2>1. writes[e] \in Seq(Part) /\ writes[e] # <<>> /\ Len(writes[e]) = 1
    BY TheWrite DEF WriteFailed
  <2>2. Tail(writes[e]) \in Seq(Part) /\ Len(Tail(writes[e])) = 0
    BY <2>1, Shortened
  <2> QED
    BY <1>1, <2>2, LengthZero
<1>5. PartsAt(e)'
  BY <1>1, <1>2, <1>4 DEF PartsAt, Dead
<1>6. Len(sent[e]) \in Nat /\ Len(sent[e]) <= Len(sent[e])
  BY Lengths
<1> QED
  BY <1>1, <1>3, <1>5, <1>6, WriterStream

(* An end with nothing new in what it sends, and in how it is read.        *)
LEMMA SameEnd ==
  ASSUME TypeOK, StreamInv, NEW e \in End, UNCHANGED sock,
         UNCHANGED <<sent[e], posted[e], outq[e], acks[e], writes[e], wire[e]>>,
         UNCHANGED <<inq[Peer(e)], tmpHead[Peer(e)], reading[Peer(e)]>>,
         sock[e] \in {"none", "connecting"} => reading'[e] = reading[e]
  PROVE  SentAt(e)' /\ PartsAt(e)' /\ StreamAt(e)'
<1>1. SentAt(e) /\ PartsAt(e) /\ StreamAt(e)
  BY DEF StreamInv
<1>2. SentAt(e)' /\ Popped(e)' = Popped(e)
  BY <1>1, SameSent
<1>3. PartsAt(e)'
  BY <1>1, SameParts
<1>4. WriterPosition(e)' = WriterPosition(e)
  BY <1>2 DEF WriterPosition, PositionAfter
<1>5. Len(sent[e]) \in Nat /\ Len(sent[e]) <= Len(sent[e])
  BY Lengths
<1>6. StreamAt(e)'
  BY <1>1, <1>4, <1>5, SameStream
<1> QED
  BY <1>2, <1>3, <1>6

(* The frame that is put on the stream follows what is there.              *)
LEMMA TransmitStream ==
  ASSUME TypeOK, OneWrite, StreamInv, NEW d \in End, Transmit(d)
  PROVE  StreamInv'
<1> DEFINE f == [part |-> Head(writes[d]), msg |-> Head(outq[d])]
           r == Peer(d)
<1>1. /\ wire' = [wire EXCEPT ![d] = Append(wire[d], f)]
      /\ writes' = [writes EXCEPT ![d] = Tail(writes[d])]
      /\ acks' = [acks EXCEPT ![d] = Append(acks[d], Head(writes[d]))]
      /\ UNCHANGED <<sock, posted, outq, incoming, sent>>
      /\ sock[d] = "open" /\ writes[d] # <<>> /\ outq[d] # <<>>
  BY DEF Transmit
<1>2. /\ outq[d] \in Seq(Msg) /\ writes[d] \in Seq(Part) /\ acks[d] = <<>>
      /\ wire[d] \in Seq(Frame) /\ Len(wire[d]) \in Nat /\ Len(sent[d]) \in Nat
      /\ Len(posted[d]) \in Nat /\ Len(outq[d]) \in Nat /\ Popped(d) \in Int
      /\ Head(writes[d]) \in Part /\ Head(outq[d]) = outq[d][1]
      /\ Len(outq[d]) >= 1 /\ r \in End
  BY <1>1, TheWrite, Lengths, LengthZero, Shortened, PeerOfPeer
<1>3. f.part = Head(writes[d]) /\ f.msg = Head(outq[d])
  OBVIOUS
<1>4. f \in Frame
  BY <1>2, Shortened, <1>1 DEF Frame, Part
<1>5. SentAt(d) /\ PartsAt(d) /\ ReceivedAt(d) /\ StreamAt(d)
  BY DEF StreamInv
<1>6. /\ Popped(d) + 1 \in 1..Len(sent[d]) /\ f.msg = sent[d][Popped(d) + 1]
      /\ f.msg.id = Popped(d) + 1
  <2>1. Popped(d) = Len(sent[d]) - Len(posted[d]) - Len(outq[d]) /\ Popped(d) >= 0
    BY <1>5 DEF Popped, SentAt
  <2>2. Popped(d) + 1 \in 1..Len(sent[d])
    <3> DEFINE s == Len(sent[d])
               p == Len(posted[d])
               q == Len(outq[d])
    <3>1. s \in Nat /\ p \in Nat /\ q \in Nat /\ q >= 1
      BY <1>2
    <3>2. Popped(d) = s - p - q /\ Popped(d) >= 0
      BY <2>1
    <3> HIDE DEF s, p, q
    <3>3. Popped(d) + 1 \in 1..s
      BY <3>1, <3>2
    <3> QED
      BY <3>3 DEF s
  <2>3. f.msg = sent[d][Popped(d) + 1]
    BY <1>2, <1>3, <1>5 DEF SentAt
  <2> QED
    BY <1>5, <2>2, <2>3 DEF SentAt
<1>7. WriterPosition(d) = FramePosition(f)
  BY <1>1, <1>2, <1>3, <1>6 DEF WriterPosition, FramePosition
<1> HIDE DEF f, r
<1>8. /\ acks'[d] = Append(<<>>, f.part) /\ outq'[d] = outq[d]
      /\ wire'[d] = Append(wire[d], f) /\ writes'[d] = Tail(writes[d])
      /\ \A e \in End \ {d} : UNCHANGED <<acks[e], writes[e], wire[e]>>
  BY <1>1, <1>2, <1>3 DEF TypeOK
<1>9. acks'[d] # <<>> /\ Head(acks'[d]) = f.part /\ writes'[d] = <<>>
  <2>1. Len(writes[d]) = 1
    BY <1>1, TheWrite
  <2>2. Tail(writes[d]) \in Seq(Part) /\ Len(Tail(writes[d])) = 0
    BY <1>1, <1>2, <2>1, Shortened
  <2>3. writes'[d] = <<>>
    BY <1>8, <2>2, LengthZero
  <2>4. acks'[d] = <<f.part>>
    BY <1>8
  <2> QED
    BY <2>3, <2>4
<1>10. SentAt(d)' /\ Popped(d)' = Popped(d)
  BY <1>1, <1>5, SameSent
<1>11. WriterPosition(d)' = AfterFrame(f)
  BY <1>3, <1>6, <1>8, <1>9, <1>10 DEF WriterPosition, AfterFrame
<1>12. PartsAt(d)'
  BY <1>1, <1>3, <1>5, <1>8, <1>9 DEF PartsAt, incoming
<1>13. /\ Len(wire'[d]) = Len(wire[d]) + 1 /\ wire'[d][Len(wire[d]) + 1] = f
       /\ \A i \in 1..Len(wire[d]) : wire'[d][i] = wire[d][i]
       /\ wire'[d] # <<>>
  BY <1>2, <1>4, <1>8, Appended, SMTT(30)
<1>14. StreamAt(d)'
  <2> SUFFICES ASSUME sock[r] \notin Dead
               PROVE  /\ OfSent(d)' /\ Consecutive(d)' /\ StartsAtReader(d)'
                      /\ EndsAtWriter(d)' /\ HeaderIsRead(r)'
    BY <1>1 DEF StreamAt, Peer, r
  <2>1. /\ OfSent(d) /\ Consecutive(d) /\ StartsAtReader(d) /\ EndsAtWriter(d)
        /\ HeaderIsRead(r) /\ ReaderPosition(r)' = ReaderPosition(r)
    BY <1>1, <1>5 DEF StreamAt, r, ReaderPosition, incoming, Peer
  <2>2. FramePosition(f) = IF wire[d] = <<>> THEN ReaderPosition(r)
                           ELSE AfterFrame(wire[d][Len(wire[d])])
    BY <1>1, <1>7, <2>1 DEF EndsAtWriter, Dead, r
  <2>3. OfSent(d)'
    <3>1. ASSUME NEW i \in 1..Len(wire'[d])
          PROVE  /\ wire'[d][i].msg.id \in 1..Len(sent[d])
                 /\ wire'[d][i].msg = sent[d][wire'[d][i].msg.id]
      <4>1. CASE i = Len(wire[d]) + 1
        BY <1>6, <1>13, <4>1
      <4>2. CASE i \in 1..Len(wire[d])
        BY <1>13, <2>1, <4>2 DEF OfSent
      <4> QED
        BY <1>2, <1>13, <4>1, <4>2
    <3> QED
      BY <1>1, <3>1 DEF OfSent
  <2>4. Consecutive(d)'
    <3>1. ASSUME NEW i \in 1..Len(wire[d])
          PROVE  FramePosition(wire'[d][i + 1]) = AfterFrame(wire'[d][i])
      <4>1. CASE i = Len(wire[d])
        <5>1. wire[d] # <<>>
          BY <1>2, <4>1, LengthZero
        <5> QED
          BY <1>2, <1>13, <2>2, <4>1, <5>1
      <4>2. CASE i \in 1..(Len(wire[d]) - 1)
        <5>1. i + 1 \in 1..Len(wire[d])
          BY <1>2, <4>2
        <5> QED
          BY <1>13, <2>1, <4>2, <5>1 DEF Consecutive
      <4> QED
        BY <1>2, <4>1, <4>2
    <3>2. Len(wire'[d]) - 1 = Len(wire[d])
      BY <1>2, <1>13
    <3> QED
      BY <3>1, <3>2 DEF Consecutive, FramePosition, AfterFrame, PositionAfter
  <2>5. StartsAtReader(d)'
    <3>1. FramePosition(wire'[d][1]) = ReaderPosition(r)
      <4>1. CASE wire[d] = <<>>
        BY <1>2, <1>13, <2>2, <4>1, LengthZero
      <4>2. CASE wire[d] # <<>>
        <5>1. 1 \in 1..Len(wire[d])
          BY <1>2, <4>2, LengthZero
        <5> QED
          BY <1>13, <2>1, <4>2, <5>1 DEF StartsAtReader, r
      <4> QED
        BY <4>1, <4>2
    <3> QED
      BY <2>1, <3>1 DEF StartsAtReader, FramePosition, r, ReaderPosition, Peer
  <2>6. EndsAtWriter(d)'
    <3>1. AfterFrame(wire'[d][Len(wire'[d])]) = WriterPosition(d)'
      BY <1>11, <1>13
    <3> QED
      BY <1>13, <3>1 DEF EndsAtWriter, AfterFrame, PositionAfter
  <2>7. HeaderIsRead(r)'
    BY <1>1, <2>1 DEF HeaderIsRead, incoming, Peer, r
  <2> QED
    BY <2>3, <2>4, <2>5, <2>6, <2>7
<1> SUFFICES ASSUME NEW e \in End
             PROVE  SentAt(e)' /\ PartsAt(e)' /\ ReceivedAt(e)' /\ StreamAt(e)'
  BY DEF StreamInv
<1>15. ReceivedAt(e)'
  BY <1>1, SameReceived DEF StreamInv, incoming
<1>16. CASE e # d
  BY <1>1, <1>8, <1>15, <1>16, SameEnd DEF incoming
<1> QED
  BY <1>10, <1>12, <1>14, <1>15, <1>16

(* The handlers of writes: what was done moves from the write to the queue, *)
(* and the position stays.                                                 *)
LEMMA WroteStream ==
  ASSUME TypeOK, OneWrite, StreamInv, NEW d \in End, WroteHeader(d) \/ WroteBody(d)
  PROVE  StreamInv'
<1>1. /\ UNCHANGED <<sock, posted, wire, incoming, sent>>
      /\ acks' = [acks EXCEPT ![d] = Tail(@)]
      /\ acks[d] # <<>> /\ outq[d] # <<>>
      /\ \/ Head(acks[d]) = "header" /\ ~Head(outq[d]).body /\ PopAndGoOn(d)
         \/ Head(acks[d]) = "body" /\ PopAndGoOn(d)
         \/ /\ Head(acks[d]) = "header" /\ Head(outq[d]).body
            /\ writes' = [writes EXCEPT ![d] = Append(@, "body")]
            /\ UNCHANGED outq
  BY DEF WroteHeader, WroteBody
<1>2. /\ writes[d] = <<>> /\ acks[d] \in Seq(Part) /\ Len(acks[d]) = 1
      /\ outq[d] \in Seq(Msg) /\ Len(outq[d]) \in Nat /\ Len(outq[d]) >= 1
      /\ Len(sent[d]) \in Nat /\ Len(posted[d]) \in Nat /\ Popped(d) \in Int
  BY <1>1, TheWrite, Lengths, LengthZero
<1>3. acks'[d] = <<>>
  <2>1. acks'[d] = Tail(acks[d])
    BY <1>1 DEF TypeOK
  <2>2. Tail(acks[d]) \in Seq(Part) /\ Len(Tail(acks[d])) = 0
    BY <1>1, <1>2, Shortened
  <2> QED
    BY <2>1, <2>2, LengthZero
<1>4. /\ \A e \in End \ {d} : acks'[e] = acks[e] /\ writes'[e] = writes[e]
                              /\ outq'[e] = outq[e]
  BY <1>1 DEF TypeOK, PopAndGoOn
<1>5. SentAt(d) /\ PartsAt(d)
  BY DEF StreamInv
<1>6. Len(sent'[d]) \in Nat /\ Len(sent[d]) <= Len(sent'[d])
  BY <1>1, <1>2
<1>7. CASE /\ Head(acks[d]) = "header" /\ Head(outq[d]).body
           /\ writes' = [writes EXCEPT ![d] = Append(@, "body")]
           /\ UNCHANGED outq
  <2>1. writes'[d] = <<"body">> /\ outq'[d] = outq[d]
    BY <1>2, <1>7 DEF TypeOK
  <2>2. SentAt(d)' /\ Popped(d)' = Popped(d)
    BY <1>1, <1>5, <2>1, SameSent
  <2>3. PartsAt(d)'
    BY <1>1, <1>3, <1>5, <1>7, <2>1 DEF PartsAt, incoming
  <2>4. WriterPosition(d)' = WriterPosition(d)
    <3>1. WriterPosition(d) = <<Popped(d) + 1, "body">>
      BY <1>1, <1>7 DEF WriterPosition, PositionAfter
    <3>2. writes'[d] # <<>> /\ Head(writes'[d]) = "body"
      BY <2>1
    <3> QED
      BY <1>3, <2>2, <3>1, <3>2 DEF WriterPosition
  <2> QED
    BY <1>1, <1>4, <1>6, <2>2, <2>3, <2>4, WriterStream
<1>8. CASE /\ \/ Head(acks[d]) = "header" /\ ~Head(outq[d]).body
              \/ Head(acks[d]) = "body"
           /\ PopAndGoOn(d)
  <2>1. outq'[d] = Tail(outq[d]) /\ writes'[d] = writes[d] \o WriteAfterPop(outq[d])
    BY <1>8 DEF PopAndGoOn, TypeOK
  <2>2. writes'[d] \in {<<>>, <<"header">>}
    BY <1>2, <2>1 DEF WriteAfterPop
  <2>3. /\ Len(outq'[d]) = Len(outq[d]) - 1
        /\ \A i \in 1..Len(outq'[d]) : outq'[d][i] = outq[d][i + 1]
    BY <1>1, <1>2, <2>1, HeadTailProperties
  <2>4. Popped(d)' = Popped(d) + 1
    <3> DEFINE s == Len(sent[d])
               p == Len(posted[d])
               q == Len(outq[d])
    <3>1. s \in Nat /\ p \in Nat /\ q \in Nat
      BY <1>2
    <3>2. Popped(d) = s - p - q /\ Popped(d)' = s - p - (q - 1)
      BY <1>1, <2>3, PoppedIs
    <3> HIDE DEF s, p, q
    <3> QED
      BY <3>1, <3>2
  <2>5. SentAt(d)'
    <3>1. Popped(d)' >= 0
      BY <1>2, <1>5, <2>4 DEF SentAt
    <3>2. ASSUME NEW i \in 1..Len(outq'[d])
          PROVE  outq'[d][i] = sent[d][Popped(d)' + i]
      <4>1. i + 1 \in 1..Len(outq[d]) /\ (Popped(d) + 1) + i = Popped(d) + (i + 1)
        BY <1>2, <2>3
      <4> QED
        BY <1>5, <2>3, <2>4, <4>1 DEF SentAt
    <3>3. ASSUME NEW i \in 1..Len(posted[d])
          PROVE  posted[d][i] = sent[d][Popped(d)' + Len(outq'[d]) + i]
      <4> DEFINE q == Len(outq[d])
      <4>1. q \in Nat /\ Len(outq'[d]) = q - 1
        BY <1>2, <2>3
      <4>2. posted[d][i] = sent[d][Popped(d) + q + i]
        BY <1>5 DEF SentAt
      <4> HIDE DEF q
      <4>3. (Popped(d) + 1) + (q - 1) + i = Popped(d) + q + i
        BY <1>2, <4>1
      <4> QED
        BY <2>4, <4>1, <4>2, <4>3
    <3> QED
      BY <1>1, <1>5, <3>1, <3>2, <3>3 DEF SentAt
  <2>6. PartsAt(d)'
    BY <1>1, <1>3, <1>5, <2>2 DEF PartsAt, incoming
  <2>7. WriterPosition(d) = <<Popped(d) + 2, "header">>
    <3>1. (Popped(d) + 1) + 1 = Popped(d) + 2
      BY <1>2
    <3> QED
      BY <1>1, <1>8, <3>1 DEF WriterPosition, PositionAfter
  <2>8. WriterPosition(d)' = <<Popped(d) + 2, "header">>
    <3>1. (Popped(d) + 1) + 1 = Popped(d) + 2
      BY <1>2
    <3>2. writes'[d] # <<>> => Head(writes'[d]) = "header"
      BY <2>2
    <3> QED
      BY <1>3, <2>4, <3>1, <3>2 DEF WriterPosition
  <2> QED
    BY <1>1, <1>4, <1>6, <2>5, <2>6, <2>7, <2>8, WriterStream
<1> QED
  BY <1>1, <1>7, <1>8

------------------------------------------------------------------------------
(* A lost tail *)

LEMMA LoseTailStream ==
  ASSUME TypeOK, StreamInv, NEW d \in End, LoseTail(d)
  PROVE  StreamInv'
<1>1. /\ UNCHANGED <<sock, outgoing, incoming>> /\ sock[d] = "closed"
      /\ wire[d] # <<>> /\ \A e \in End \ {d} : wire'[e] = wire[e]
      /\ wire'[d] = SubSeq(wire[d], 1, Len(wire[d]) - 1)
  BY DEF LoseTail, TypeOK
<1>2. /\ wire[d] \in Seq(Frame) /\ Len(wire[d]) \in Nat /\ Len(wire[d]) >= 1
  BY <1>1, Lengths, LengthZero
<1>3. /\ wire'[d] \in Seq(Frame) /\ Len(wire'[d]) = Len(wire[d]) - 1
      /\ \A i \in 1..(Len(wire[d]) - 1) : wire'[d][i] = wire[d][i]
  <2>1. \A i \in 1..(Len(wire[d]) - 1) : wire[d][i] \in Frame
    BY <1>2, ElementOfSeq
  <2> QED
    BY <1>1, <1>2, <2>1, SubSeqProperties
<1>4. SentAt(d) /\ PartsAt(d) /\ StreamAt(d)
  BY DEF StreamInv
<1>5. StreamAt(d)'
  <2> SUFFICES ASSUME sock[Peer(d)] \notin Dead
               PROVE  /\ OfSent(d)' /\ Consecutive(d)' /\ StartsAtReader(d)'
                      /\ EndsAtWriter(d)' /\ HeaderIsRead(Peer(d))'
    BY <1>1 DEF StreamAt, Peer
  <2>1. /\ OfSent(d) /\ Consecutive(d) /\ StartsAtReader(d)
        /\ HeaderIsRead(Peer(d))
    BY <1>4 DEF StreamAt
  <2>2. OfSent(d)'
    <3>1. sent' = sent
      BY <1>1 DEF outgoing
    <3>2. \A i \in 1..Len(wire'[d]) : i \in 1..Len(wire[d]) /\ wire'[d][i] = wire[d][i]
      BY <1>2, <1>3
    <3> QED
      BY <2>1, <3>1, <3>2 DEF OfSent
  <2>3. Consecutive(d)'
    <3>1. \A i \in 1..(Len(wire'[d]) - 1) :
            /\ i \in 1..(Len(wire[d]) - 1)
            /\ wire'[d][i] = wire[d][i] /\ wire'[d][i + 1] = wire[d][i + 1]
      <4> SUFFICES ASSUME NEW i \in 1..(Len(wire'[d]) - 1)
                   PROVE  /\ i \in 1..(Len(wire[d]) - 1)
                          /\ wire'[d][i] = wire[d][i]
                          /\ wire'[d][i + 1] = wire[d][i + 1]
        OBVIOUS
      <4>1. i \in 1..(Len(wire[d]) - 1) /\ i + 1 \in 1..(Len(wire[d]) - 1)
        BY <1>2, <1>3
      <4> QED
        BY <1>3, <4>1
    <3> QED
      BY <2>1, <3>1 DEF Consecutive, FramePosition, AfterFrame, PositionAfter
  <2>4. StartsAtReader(d)'
    <3>1. wire'[d] # <<>> => wire'[d][1] = wire[d][1]
      <4>1. wire'[d] # <<>> => Len(wire'[d]) >= 1
        BY <1>3, LengthZero
      <4> QED
        BY <1>2, <1>3, <4>1
    <3> QED
      BY <1>1, <2>1, <3>1
      DEF StartsAtReader, FramePosition, ReaderPosition, incoming, Peer
  <2>5. EndsAtWriter(d)'
    BY <1>1 DEF EndsAtWriter, Dead
  <2>6. HeaderIsRead(Peer(d))'
    BY <1>1, <2>1 DEF HeaderIsRead, incoming, outgoing, Peer
  <2> QED
    BY <2>2, <2>3, <2>4, <2>5, <2>6
<1>6. SentAt(d)' /\ PartsAt(d)'
  BY <1>1, <1>4, SameSent, SameParts DEF outgoing, incoming
<1> SUFFICES ASSUME NEW e \in End
             PROVE  SentAt(e)' /\ PartsAt(e)' /\ ReceivedAt(e)' /\ StreamAt(e)'
  BY DEF StreamInv
<1>7. ReceivedAt(e)'
  BY <1>1, SameReceived DEF StreamInv, incoming, outgoing
<1>8. CASE e # d
  BY <1>1, <1>7, <1>8, SameEnd DEF incoming, outgoing
<1> QED
  BY <1>5, <1>6, <1>7, <1>8

------------------------------------------------------------------------------
(* The reader *)

(* The frame that is read is the one at the reader's position: a part of   *)
(* the next message.                                                       *)
LEMMA NextFrame ==
  ASSUME TypeOK, StreamInv, NEW r \in End, Readable(r)
  PROVE  LET f == Incoming(r)
             n == Len(inq[r])
         IN /\ f = wire[Peer(r)][1] /\ f.msg.id = n + 1
            /\ f.part = IF reading[r] = "body" THEN "body" ELSE "header"
            /\ n + 1 \in 1..Len(sent[Peer(r)])
            /\ f.msg = sent[Peer(r)][n + 1]
<1> DEFINE d == Peer(r)
<1>1. /\ d \in End /\ Peer(d) = r /\ sock[r] = "open" /\ wire[d] # <<>>
      /\ wire[d] \in Seq(Frame) /\ Len(wire[d]) \in Nat /\ Len(inq[r]) \in Nat
  BY PeerOfPeer, Lengths DEF Readable
<1>2. OfSent(d) /\ StartsAtReader(d)
  BY <1>1 DEF StreamInv, StreamAt, Dead
<1>3. 1 \in 1..Len(wire[d]) /\ Incoming(r) = wire[d][1]
  BY <1>1, LengthZero DEF Incoming
<1>4. FramePosition(wire[d][1]) = ReaderPosition(r)
  BY <1>1, <1>2 DEF StartsAtReader
<1> QED
  BY <1>2, <1>3, <1>4 DEF FramePosition, ReaderPosition, OfSent

(* A frame is taken off the stream, and the reader goes on behind it.      *)
LEMMA TakenStream ==
  ASSUME TypeOK, StreamInv, NEW r \in End, Readable(r), UNCHANGED <<sock, outgoing>>,
         wire' = [wire EXCEPT ![Peer(r)] = Tail(@)],
         \A e \in End \ {r} :
           UNCHANGED <<inq[e], tmpHead[e], reading[e]>>,
         ReaderPosition(r)' = AfterFrame(Incoming(r)),
         HeaderIsRead(r)', ReceivedAt(r)'
  PROVE  StreamInv'
<1> DEFINE d == Peer(r)
<1>1. /\ d \in End /\ Peer(d) = r /\ d # r /\ sock[r] = "open" /\ wire[d] # <<>>
      /\ wire[d] \in Seq(Frame) /\ Len(wire[d]) \in Nat /\ Len(wire[d]) >= 1
  BY PeerOfPeer, Lengths, LengthZero DEF Readable
<1>2. Incoming(r) = wire[d][1]
  BY <1>1 DEF Incoming
<1> HIDE DEF d
<1>3. /\ wire'[d] \in Seq(Frame) /\ Len(wire'[d]) = Len(wire[d]) - 1
      /\ \A i \in 1..(Len(wire[d]) - 1) : wire'[d][i] = wire[d][i + 1]
      /\ \A e \in End \ {d} : wire'[e] = wire[e]
  <2>1. wire'[d] = Tail(wire[d]) /\ \A e \in End \ {d} : wire'[e] = wire[e]
    BY <1>1 DEF TypeOK, d
  <2>2. /\ Tail(wire[d]) \in Seq(Frame) /\ Len(Tail(wire[d])) = Len(wire[d]) - 1
        /\ \A i \in 1..Len(Tail(wire[d])) : Tail(wire[d])[i] = wire[d][i + 1]
    BY <1>1, HeadTailProperties
  <2> QED
    BY <2>1, <2>2
<1>4. UNCHANGED <<sent, posted, outq, acks, writes>>
  BY DEF outgoing
<1>5. /\ OfSent(d) /\ Consecutive(d) /\ EndsAtWriter(d)
      /\ SentAt(d) /\ PartsAt(d)
  BY <1>1 DEF StreamInv, StreamAt, Dead
<1>6. SentAt(d)' /\ PartsAt(d)'
  BY <1>1, <1>4, <1>5, SameSent, SameParts
<1>7. Popped(d)' = Popped(d)
  BY <1>4, <1>5, SameSent
<1>8. WriterPosition(d)' = WriterPosition(d)
  BY <1>4, <1>7 DEF WriterPosition, PositionAfter
<1>9. StreamAt(d)'
  <2>1. OfSent(d)'
    <3>1. \A i \in 1..Len(wire'[d]) :
            i + 1 \in 1..Len(wire[d]) /\ wire'[d][i] = wire[d][i + 1]
      BY <1>1, <1>3
    <3> QED
      BY <1>4, <1>5, <3>1 DEF OfSent
  <2>2. Consecutive(d)'
    <3>1. ASSUME NEW i \in 1..(Len(wire'[d]) - 1)
          PROVE  /\ i + 1 \in 1..(Len(wire[d]) - 1)
                 /\ wire'[d][i] = wire[d][i + 1]
                 /\ wire'[d][i + 1] = wire[d][(i + 1) + 1]
      <4>1. i \in 1..(Len(wire[d]) - 1) /\ i + 1 \in 1..(Len(wire[d]) - 1)
        BY <1>1, <1>3
      <4> QED
        BY <1>3, <4>1
    <3>2. ASSUME NEW i \in 1..(Len(wire'[d]) - 1)
          PROVE  FramePosition(wire'[d][i + 1]) = AfterFrame(wire'[d][i])
      BY <1>5, <3>1 DEF Consecutive
    <3> QED
      BY <3>2 DEF Consecutive, FramePosition, AfterFrame, PositionAfter
  <2>3. StartsAtReader(d)'
    <3>1. ASSUME wire'[d] # <<>>
          PROVE  FramePosition(wire'[d][1]) = ReaderPosition(r)'
      <4>1. 1 \in 1..(Len(wire[d]) - 1) /\ 1 + 1 = 2
        <5>1. Len(wire'[d]) >= 1
          BY <1>3, <3>1, LengthZero
        <5> QED
          BY <1>1, <1>3, <5>1
      <4>2. wire'[d][1] = wire[d][2] /\ FramePosition(wire[d][2]) = AfterFrame(wire[d][1])
        BY <1>3, <1>5, <4>1 DEF Consecutive
      <4> QED
        BY <1>2, <4>2
    <3> QED
      BY <1>1, <3>1 DEF StartsAtReader, FramePosition, ReaderPosition, Peer
  <2>4. EndsAtWriter(d)'
    <3> SUFFICES ASSUME sock[d] \notin Dead
                 PROVE  WriterPosition(d) = IF wire'[d] = <<>>
                          THEN ReaderPosition(r)'
                          ELSE AfterFrame(wire'[d][Len(wire'[d])])
      BY <1>1, <1>8
      DEF EndsAtWriter, AfterFrame, PositionAfter, ReaderPosition, Peer
    <3>1. WriterPosition(d) = AfterFrame(wire[d][Len(wire[d])])
      BY <1>1, <1>5 DEF EndsAtWriter
    <3>2. CASE wire'[d] = <<>>
      <4>1. Len(wire[d]) = 1
        <5>1. Len(wire'[d]) = 0
          BY <1>3, <3>2, LengthZero
        <5> QED
          BY <1>1, <1>3, <5>1
      <4> QED
        BY <1>2, <3>1, <3>2, <4>1
    <3>3. CASE wire'[d] # <<>>
      <4>1. Len(wire'[d]) \in 1..(Len(wire[d]) - 1) /\ Len(wire'[d]) + 1 = Len(wire[d])
        BY <1>1, <1>3, <3>3, LengthZero
      <4> QED
        BY <1>3, <3>1, <3>3, <4>1
    <3> QED
      BY <3>2, <3>3
  <2>5. HeaderIsRead(Peer(d))'
    BY <1>1 DEF HeaderIsRead, Peer
  <2> QED
    BY <2>1, <2>2, <2>3, <2>4, <2>5 DEF StreamAt
<1> SUFFICES ASSUME NEW e \in End
             PROVE  SentAt(e)' /\ PartsAt(e)' /\ ReceivedAt(e)' /\ StreamAt(e)'
  BY DEF StreamInv
<1>10. ReceivedAt(e)'
  <2>1. CASE e # r
    BY <1>4, <2>1, SameReceived DEF StreamInv
  <2> QED
    BY <2>1
<1>11. CASE e # d
  <2>1. Peer(e) # r
    BY <1>11, PeerOfPeer DEF d
  <2>2. UNCHANGED <<inq[Peer(e)], tmpHead[Peer(e)], reading[Peer(e)]>>
    BY <2>1, PeerOfPeer
  <2>3. sock[e] \in {"none", "connecting"} => reading'[e] = reading[e]
    BY <1>1
  <2>4. UNCHANGED <<sent[e], posted[e], outq[e], acks[e], writes[e], wire[e]>>
    BY <1>3, <1>4, <1>11
  <2> QED
    BY <1>10, <2>2, <2>3, <2>4, SameEnd
<1> QED
  BY <1>6, <1>9, <1>10, <1>11

(* The next message is pushed.                                             *)
LEMMA PushReceived ==
  ASSUME TypeOK, StreamInv, NEW r \in End, NEW x,
         Len(inq[r]) + 1 \in 1..Len(sent[Peer(r)]),
         x \in Msg \X MsgId, x[1] = sent[Peer(r)][Len(inq[r]) + 1],
         sent[Peer(r)][Len(inq[r]) + 1].body => x[2] = Len(inq[r]) + 1,
         inq'[r] = Append(inq[r], x), UNCHANGED outgoing
  PROVE  ReceivedAt(r)' /\ Len(inq'[r]) = Len(inq[r]) + 1
<1>1. /\ ReceivedAt(r) /\ inq[r] \in Seq(Msg \X MsgId) /\ Len(inq[r]) \in Nat
      /\ Len(sent[Peer(r)]) \in Nat
  BY Lengths, PeerOfPeer DEF StreamInv
<1>2. /\ Len(inq'[r]) = Len(inq[r]) + 1 /\ inq'[r][Len(inq[r]) + 1] = x
      /\ \A i \in 1..Len(inq[r]) : inq'[r][i] = inq[r][i]
  BY <1>1
<1>3. ASSUME NEW i \in 1..Len(inq'[r])
      PROVE  /\ inq'[r][i][1] = sent[Peer(r)][i]
             /\ sent[Peer(r)][i].body => inq'[r][i][2] = i
  <2>1. CASE i = Len(inq[r]) + 1
    BY <1>2, <2>1
  <2>2. CASE i \in 1..Len(inq[r])
    BY <1>1, <1>2, <2>2 DEF ReceivedAt
  <2> QED
    BY <1>1, <1>2, <2>1, <2>2
<1>4. Len(inq'[r]) <= Len(sent[Peer(r)])
  BY <1>1, <1>2
<1> QED
  BY <1>2, <1>3, <1>4 DEF ReceivedAt, outgoing, Peer

LEMMA ReadHeaderStream ==
  ASSUME TypeOK, StreamInv, NEW r \in End, ReadHeader(r)
  PROVE  /\ StreamInv'
         /\ \/ inq' = inq
            \/ \E x \in Msg \X MsgId :
                 /\ inq' = [inq EXCEPT ![r] = Append(inq[r], x)]
                 /\ ReceivedAt(r)' /\ Len(inq'[r]) = Len(inq[r]) + 1
<1> DEFINE f == Incoming(r)
           n == Len(inq[r])
           s == sent[Peer(r)]
           x == <<f.msg, tmpBody[r]>>
<1>1. /\ UNCHANGED <<sock, outgoing>> /\ Readable(r) /\ reading[r] = "header"
      /\ wire' = [wire EXCEPT ![Peer(r)] = Tail(@)]
      /\ tmpHead'[r] = f.msg /\ reading'[r] = PartAfter(f.msg)
      /\ \A e \in End \ {r} : UNCHANGED <<inq[e], tmpHead[e], reading[e]>>
      /\ IF PartAfter(f.msg) = "body" THEN inq' = inq
         ELSE inq' = [inq EXCEPT ![r] = Append(inq[r], x)]
  BY DEF ReadHeader, TypeOK
<1>2. /\ f.part = "header" /\ n + 1 \in 1..Len(s) /\ f.msg = s[n + 1]
      /\ f.msg.id = n + 1 /\ n \in Nat /\ Len(s) \in Nat
  BY <1>1, NextFrame, PeerOfPeer, Lengths
<1>3. x \in Msg \X MsgId /\ x[1] = f.msg
  BY <1>1, IncomingTypes DEF TypeOK
<1>4. ReceivedAt(r) /\ s' = s
  BY <1>1 DEF StreamInv, outgoing, Peer
<1> HIDE DEF f, n, s, x
<1>5. CASE f.msg.body
  <2>1. inq' = inq /\ reading'[r] = "body"
    BY <1>1, <1>5 DEF PartAfter
  <2>2. ReaderPosition(r)' = AfterFrame(f)
    BY <1>2, <1>5, <2>1 DEF ReaderPosition, AfterFrame, PositionAfter, n
  <2>3. ReceivedAt(r)'
    BY <1>1, <1>4, <2>1, SameReceived DEF s, outgoing
  <2>4. n < Len(s) /\ tmpHead'[r] = s[n + 1]
    BY <1>1, <1>2
  <2>5. HeaderIsRead(r)'
    BY <1>4, <2>1, <2>4 DEF HeaderIsRead, n, s
  <2> QED
    BY <1>1, <2>1, <2>2, <2>3, <2>5, TakenStream DEF f
<1>6. CASE ~f.msg.body
  <2>1. /\ inq' = [inq EXCEPT ![r] = Append(inq[r], x)] /\ reading'[r] = "header"
    BY <1>1, <1>6 DEF PartAfter
  <2>2. inq'[r] = Append(inq[r], x)
    BY <2>1 DEF TypeOK
  <2>3. ReceivedAt(r)' /\ Len(inq'[r]) = n + 1
    <3>1. /\ n + 1 \in 1..Len(s) /\ x \in Msg \X MsgId
          /\ x[1] = s[n + 1] /\ ~s[n + 1].body
      BY <1>2, <1>3, <1>6
    <3> QED
      BY <1>1, <2>2, <3>1, PushReceived DEF n, s
  <2>4. ReaderPosition(r)' = AfterFrame(f)
    BY <1>2, <1>6, <2>1, <2>3 DEF ReaderPosition, AfterFrame, PositionAfter
  <2>5. HeaderIsRead(r)'
    BY <2>1 DEF HeaderIsRead
  <2>6. StreamInv'
    BY <1>1, <2>3, <2>4, <2>5, TakenStream DEF f
  <2> QED
    BY <1>3, <2>1, <2>3, <2>6 DEF n
<1> QED
  BY <1>5, <1>6

LEMMA ReadBodyStream ==
  ASSUME TypeOK, StreamInv, NEW r \in End, ReadBody(r)
  PROVE  /\ StreamInv'
         /\ \E x \in Msg \X MsgId :
              /\ inq' = [inq EXCEPT ![r] = Append(inq[r], x)]
              /\ ReceivedAt(r)' /\ Len(inq'[r]) = Len(inq[r]) + 1
<1> DEFINE f == Incoming(r)
           n == Len(inq[r])
           s == sent[Peer(r)]
           x == <<tmpHead[r], f.msg.id>>
<1>1. /\ UNCHANGED <<sock, outgoing, tmpHead>> /\ Readable(r)
      /\ reading[r] = "body" /\ reading'[r] = "header"
      /\ wire' = [wire EXCEPT ![Peer(r)] = Tail(@)]
      /\ \A e \in End \ {r} : UNCHANGED <<inq[e], tmpHead[e], reading[e]>>
      /\ inq' = [inq EXCEPT ![r] = Append(inq[r], x)]
  BY DEF ReadBody, TypeOK
<1>2. /\ f.part = "body" /\ n + 1 \in 1..Len(s) /\ f.msg.id = n + 1
      /\ n \in Nat /\ Len(s) \in Nat
  BY <1>1, NextFrame, PeerOfPeer, Lengths
<1>3. x \in Msg \X MsgId /\ x[1] = tmpHead[r] /\ x[2] = f.msg.id
  BY <1>1, IncomingTypes DEF TypeOK
<1>4. tmpHead[r] = s[n + 1]
  <2>1. HeaderIsRead(r)
    <3>1. sock[r] = "open" /\ Peer(r) \in End /\ Peer(Peer(r)) = r
      BY <1>1, PeerOfPeer DEF Readable
    <3> QED
      BY <3>1 DEF StreamInv, StreamAt, Dead
  <2> QED
    BY <1>1, <2>1 DEF HeaderIsRead
<1> HIDE DEF f, n, s, x
<1>5. inq'[r] = Append(inq[r], x)
  BY <1>1 DEF TypeOK
<1>6. ReceivedAt(r)' /\ Len(inq'[r]) = n + 1
  <2>1. /\ n + 1 \in 1..Len(s) /\ x \in Msg \X MsgId
        /\ x[1] = s[n + 1] /\ x[2] = n + 1
    BY <1>2, <1>3, <1>4
  <2> QED
    BY <1>1, <1>5, <2>1, PushReceived DEF n, s
<1>7. ReaderPosition(r)' = AfterFrame(f)
  BY <1>1, <1>2, <1>6 DEF ReaderPosition, AfterFrame, PositionAfter
<1>8. HeaderIsRead(r)'
  BY <1>1 DEF HeaderIsRead
<1>9. StreamInv'
  BY <1>1, <1>6, <1>7, <1>8, TakenStream DEF f
<1> QED
  BY <1>1, <1>3, <1>6, <1>9 DEF n

------------------------------------------------------------------------------
(* Every step *)

LEMMA InitialStream == Init => StreamInv
<1> SUFFICES ASSUME Init, NEW e \in End
             PROVE  SentAt(e) /\ PartsAt(e) /\ ReceivedAt(e) /\ StreamAt(e)
  BY DEF StreamInv
<1>1. Len(<<>>) = 0
  BY EmptySeq
<1>2. Peer(e) \in End /\ Peer(Peer(e)) = e
  BY PeerOfPeer
<1>3. \A d \in End : /\ sent[d] = <<>> /\ posted[d] = <<>> /\ outq[d] = <<>>
                     /\ writes[d] = <<>> /\ acks[d] = <<>> /\ wire[d] = <<>>
                     /\ inq[d] = <<>> /\ reading[d] = "off"
  BY DEF Init
<1>4. SentAt(e) /\ Popped(e) = 0
  <2>1. Len(sent[e]) = 0 /\ Len(posted[e]) = 0 /\ Len(outq[e]) = 0
    BY <1>1, <1>3
  <2>2. Popped(e) = 0
    BY <2>1 DEF Popped
  <2> QED
    BY <2>1, <2>2 DEF SentAt
<1>5. PartsAt(e) /\ ReceivedAt(e)
  BY <1>1, <1>2, <1>3 DEF PartsAt, ReceivedAt
<1>6. OfSent(e) /\ Consecutive(e) /\ StartsAtReader(e) /\ HeaderIsRead(Peer(e))
  BY <1>1, <1>2, <1>3 DEF OfSent, Consecutive, StartsAtReader, HeaderIsRead
<1>7. EndsAtWriter(e)
  BY <1>1, <1>2, <1>3, <1>4 DEF EndsAtWriter, WriterPosition, ReaderPosition
<1> QED
  BY <1>4, <1>5, <1>6, <1>7 DEF StreamAt

LEMMA SameStreamInv == TypeOK /\ StreamInv /\ UNCHANGED vars => StreamInv'
<1> SUFFICES ASSUME TypeOK, StreamInv, UNCHANGED vars PROVE StreamInv'
  OBVIOUS
<1>1. \A e \in End : sock'[e] = sock[e] /\ reading'[e] = reading[e]
  BY DEF vars
<1> QED
  BY <1>1, SocketsStream DEF vars, outgoing, Dead

LEMMA InductiveStream == SendInv /\ StreamInv /\ [Next]_vars => StreamInv'
<1> SUFFICES ASSUME TypeOK, OneWrite, StreamInv, [Next]_vars PROVE StreamInv'
  BY DEF SendInv
<1>1. CASE Connecting
  BY <1>1, ConnectStream DEF Connecting
<1>2. ASSUME NEW e \in End, SendMsg(e) \/ Transmit(e) \/ LoseTail(e)
      PROVE  StreamInv'
  BY <1>2, SendStream, TransmitStream, LoseTailStream
<1>3. ASSUME NEW e \in End, Handler(e)
      PROVE  StreamInv'
  BY <1>3, RunPostedStream, WroteStream, WriteFailedStream, ReadHeaderStream,
     ReadBodyStream, ClosesStream DEF Handler
<1>4. ASSUME NEW p \in Clients \cup {Server}, Halt(p)
      PROVE  StreamInv'
  BY <1>4, ClosesStream
<1>5. CASE UNCHANGED vars
  BY <1>5, SameStreamInv
<1> QED
  BY <1>1, <1>2, <1>3, <1>4, <1>5 DEF Next

(* The inductive invariant: the frames on the wire have the positions from *)
(* the one that the reader is at to the one that the writer is at, whatever*)
(* handlers run, fail or never run.                                        *)
THEOREM StreamIsKept == Spec => [](SendInv /\ StreamInv)
BY InitialSend, InitialStream, InductiveSend, InductiveStream, PTL DEF Spec

(* On every connection, whatever is lost or closed: what is to be read     *)
(* next is where the reader takes it to be.                                *)
THEOREM StreamIsAligned == Spec => []FramesAligned
<1>1. SendInv /\ StreamInv => FramesAligned
  <2> SUFFICES ASSUME TypeOK, StreamInv, NEW e \in End, Readable(e), reading[e] # "off"
               PROVE  /\ Incoming(e).part = reading[e]
                      /\ reading[e] = "body" => Incoming(e).msg = tmpHead[e]
    BY DEF SendInv, FramesAligned
  <2>1. reading[e] \in {"header", "body"}
    BY DEF TypeOK, Part
  <2>2. HeaderIsRead(e)
    <3>1. sock[e] = "open" /\ Peer(e) \in End /\ Peer(Peer(e)) = e
      BY PeerOfPeer DEF Readable
    <3> QED
      BY <3>1 DEF StreamInv, StreamAt, Dead
  <2> QED
    BY <2>1, <2>2, NextFrame DEF HeaderIsRead
<1> QED
  BY <1>1, StreamIsKept, PTL

------------------------------------------------------------------------------
(* The channel *)

Delivered == [e \in End |-> [i \in 1..Len(inq[e]) |-> Arrived(inq[e][i])]]

(* What has been received has arrived as it was sent.                      *)
LEMMA DeliveredIsSent ==
  ASSUME TypeOK, StreamInv, NEW e \in End
  PROVE  /\ Delivered[e] \in Seq(Msg) /\ Len(Delivered[e]) = Len(inq[e])
         /\ Len(inq[e]) <= Len(sent[Peer(e)])
         /\ \A i \in 1..Len(inq[e]) : Delivered[e][i] = sent[Peer(e)][i]
<1> DEFINE n == Len(inq[e])
           s == sent[Peer(e)]
<1>1. n \in Nat /\ s \in Seq(Msg) /\ Len(s) \in Nat /\ n <= Len(s)
  BY Lengths, PeerOfPeer DEF StreamInv, ReceivedAt
<1>2. Delivered[e] = [i \in 1..n |-> Arrived(inq[e][i])]
  BY DEF Delivered
<1>3. ASSUME NEW i \in 1..n
      PROVE  Arrived(inq[e][i]) = s[i] /\ s[i] \in Msg
  <2>1. inq[e][i][1] = s[i] /\ (s[i].body => inq[e][i][2] = i)
    BY DEF StreamInv, ReceivedAt
  <2>2. i \in 1..Len(s)
    BY <1>1
  <2>3. s[i] \in Msg
    BY <1>1, <2>2, ElementOfSeq
  <2>4. s[i].body => s[i].id = i
    BY <2>2, PeerOfPeer DEF StreamInv, SentAt
  <2> QED
    BY <2>1, <2>3, <2>4 DEF Arrived
<1> HIDE DEF n, s
<1>4. Delivered[e] \in [1..n -> Msg]
  BY <1>2, <1>3
<1>5. Delivered[e] \in Seq(Msg) /\ Len(Delivered[e]) = n
  BY <1>1, <1>4, SeqDef
<1> QED
  BY <1>1, <1>2, <1>3, <1>5 DEF n, s

LEMMA DeliverStep ==
  ASSUME TypeOK, StreamInv, NEW r \in End, NEW x \in Msg \X MsgId, UNCHANGED sent,
         inq' = [inq EXCEPT ![r] = Append(inq[r], x)], ReceivedAt(r)'
  PROVE  Channel!Deliver(r)
<1> DEFINE n == Len(inq[r])
           s == sent[Peer(r)]
<1>1. /\ Delivered[r] \in Seq(Msg) /\ Len(Delivered[r]) = n /\ n \in Nat
      /\ Len(s) \in Nat /\ inq[r] \in Seq(Msg \X MsgId)
      /\ Delivered[r] = [i \in 1..n |-> Arrived(inq[r][i])]
  BY DeliveredIsSent, Lengths, PeerOfPeer DEF Delivered
<1>2. inq'[r] = Append(inq[r], x) /\ \A e \in End \ {r} : inq'[e] = inq[e]
  BY DEF TypeOK
<1>3. /\ Len(inq'[r]) = n + 1 /\ inq'[r][n + 1] = x
      /\ \A i \in 1..n : inq'[r][i] = inq[r][i]
  BY <1>1, <1>2
<1>4. n + 1 <= Len(s) /\ x[1] = s[n + 1] /\ (s[n + 1].body => x[2] = n + 1)
  <2>1. n + 1 \in 1..Len(inq'[r]) /\ s' = s
    BY <1>1, <1>3 DEF Peer
  <2>2. /\ Len(inq'[r]) <= Len(s)
        /\ \A i \in 1..Len(inq'[r]) :
             inq'[r][i][1] = s[i] /\ (s[i].body => inq'[r][i][2] = i)
    BY <2>1 DEF ReceivedAt, Peer
  <2> HIDE DEF n, s
  <2> QED
    BY <1>3, <2>1, <2>2
<1>5. s[n + 1].id = n + 1
  <2>1. n + 1 \in 1..Len(s)
    BY <1>1, <1>4
  <2> QED
    BY <2>1, PeerOfPeer DEF StreamInv, SentAt
<1>6. Arrived(x) = s[n + 1]
  BY <1>4, <1>5 DEF Arrived
<1>7. Delivered'[r] = Append(Delivered[r], s[n + 1])
  <2> DEFINE after == [i \in 1..(n + 1) |-> Arrived(inq'[r][i])]
  <2>1. Delivered'[r] = after
    BY <1>3 DEF Delivered, Arrived, NoMsg
  <2>2. /\ DOMAIN Append(Delivered[r], s[n + 1]) = 1..(n + 1)
        /\ Append(Delivered[r], s[n + 1]) =
             [i \in 1..(n + 1) |-> IF i = n + 1 THEN s[n + 1] ELSE Delivered[r][i]]
    BY <1>1
  <2>3. ASSUME NEW i \in 1..(n + 1)
        PROVE  after[i] = IF i = n + 1 THEN s[n + 1] ELSE Delivered[r][i]
    <3>1. CASE i = n + 1
      BY <1>3, <1>6, <3>1
    <3>2. CASE i \in 1..n
      BY <1>1, <1>3, <3>2
    <3> QED
      BY <1>1, <3>1, <3>2
  <2>4. after = [i \in 1..(n + 1) |-> IF i = n + 1 THEN s[n + 1] ELSE Delivered[r][i]]
    BY <2>3
  <2> QED
    BY <2>1, <2>2, <2>4
<1>8. \A e \in End \ {r} : Delivered'[e] = Delivered[e]
  BY <1>2 DEF Delivered, Arrived, NoMsg
<1>9. Delivered' = [Delivered EXCEPT ![r] = Append(@, s[n + 1])]
  <2>1. Delivered' = [e \in End |-> Delivered'[e]]
    BY DEF Delivered
  <2>2. DOMAIN Delivered = End
    BY DEF Delivered
  <2> QED
    BY <1>7, <1>8, <2>1, <2>2
<1>10. n + 1 <= Len(s) /\ Len(Delivered[r]) = n
  BY <1>1, <1>4
<1> QED
  BY <1>9, <1>10 DEF Channel!Deliver, Delivered

LEMMA SendStep ==
  ASSUME TypeOK, NEW e \in End, SendMsg(e)
  PROVE  \E m \in Msg : Channel!Send(e, m)
<1>1. PICK b \in BOOLEAN :
        sent' = [sent EXCEPT ![e] = Append(@, [id |-> Len(sent[e]) + 1, body |-> b])]
  BY DEF SendMsg
<1>2. inq' = inq
  BY DEF SendMsg, incoming
<1>3. [id |-> Len(sent[e]) + 1, body |-> b] \in Msg
  <2>1. Len(sent[e]) \in Nat /\ Len(sent[e]) < MaxMsgs(e)
    BY Lengths DEF SendMsg
  <2>2. Len(sent[e]) + 1 \in MsgId
    BY <2>1, TransportAssumption DEF MaxMsgs, MsgId
  <2> QED
    BY <2>2 DEF Msg
<1> QED
  BY <1>1, <1>2, <1>3 DEF Channel!Send

LEMMA OtherSteps ==
  ASSUME UNCHANGED <<sent, inq>>
  PROVE  UNCHANGED Channel!vars
BY DEF Channel!vars, Arrived, NoMsg

LEMMA ChannelStep ==
  ASSUME SendInv, StreamInv, [Next]_vars
  PROVE  [Channel!Next]_(Channel!vars)
<1>1. TypeOK /\ OneWrite
  BY DEF SendInv
<1>2. ASSUME NEW e \in End, SendMsg(e)
      PROVE  Channel!Next
  BY <1>1, <1>2, SendStep DEF Channel!Next
<1>3. ASSUME NEW e \in End, ReadHeader(e) \/ ReadBody(e)
      PROVE  Channel!Next \/ UNCHANGED Channel!vars
  <2>1. UNCHANGED sent
    BY <1>3 DEF ReadHeader, ReadBody, outgoing
  <2>2. \/ inq' = inq
        \/ \E x \in Msg \X MsgId : /\ inq' = [inq EXCEPT ![e] = Append(inq[e], x)]
                                   /\ ReceivedAt(e)'
    BY <1>1, <1>3, ReadHeaderStream, ReadBodyStream
  <2>3. CASE inq' = inq
    BY <2>1, <2>3, OtherSteps
  <2>4. ASSUME NEW x \in Msg \X MsgId,
               inq' = [inq EXCEPT ![e] = Append(inq[e], x)], ReceivedAt(e)'
        PROVE  Channel!Next
    BY <1>1, <2>1, <2>4, DeliverStep DEF Channel!Next
  <2> QED
    BY <2>2, <2>3, <2>4
<1>4. ASSUME \/ Connecting
             \/ \E e \in End : \/ RunPosted(e) \/ WroteHeader(e) \/ WroteBody(e)
                              \/ WriteFailed(e) \/ Transmit(e) \/ LoseTail(e)
                              \/ ReadHeaderFailed(e) \/ ReadBodyFailed(e)
             \/ \E p \in Clients \cup {Server} : Halt(p)
             \/ UNCHANGED vars
      PROVE  UNCHANGED Channel!vars
  <2>1. UNCHANGED <<sent, inq>>
    BY <1>4 DEF Connecting, ConnectOk, ConnectFail, Accept, RunPosted, WroteHeader,
       WroteBody, WriteFailed, Transmit, LoseTail, ReadHeaderFailed,
       ReadBodyFailed, Halt, vars, outgoing, incoming
  <2> QED
    BY <2>1, OtherSteps
<1> QED
  BY <1>2, <1>3, <1>4 DEF Next, Handler

(* What the user of a Connection relies on: each direction hands over the  *)
(* messages that were given to sendMsg, in their order, none changed and   *)
(* none twice, until it stops.                                             *)
THEOREM ConnectionsAreChannels == Spec => ImplementsChannel
<1>1. Init => Channel!Init
  <2> SUFFICES ASSUME Init PROVE Channel!Init
    OBVIOUS
  <2>1. \A e \in End : inq[e] = <<>>
    BY DEF Init
  <2>2. \A e \in End : [i \in 1..Len(inq[e]) |-> Arrived(inq[e][i])] = <<>>
    <3>1. Len(<<>>) = 0
      BY EmptySeq
    <3>2. ASSUME NEW e \in End
          PROVE  [i \in 1..Len(inq[e]) |-> Arrived(inq[e][i])] = <<>>
      <4>1. 1..Len(inq[e]) = {}
        BY <2>1, <3>1
      <4> QED
        BY <4>1
    <3> QED
      BY <3>2
  <2> QED
    BY <2>2 DEF Init, Channel!Init
<1>2. SendInv /\ StreamInv /\ [Next]_vars => [Channel!Next]_(Channel!vars)
  BY ChannelStep
<1> QED
  BY <1>1, <1>2, StreamIsKept, PTL DEF Spec, ImplementsChannel, Channel!Spec
==============================================================================
