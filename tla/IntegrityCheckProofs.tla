------------------------- MODULE IntegrityCheckProofs -------------------------
(***************************************************************************)
(* For any number of clients, files, commands and checks: the variables of *)
(* IntegrityCheck keep their types, and what the runs check of it holds.   *)
(***************************************************************************)
EXTENDS IntegrityCheck, SequenceTheorems, FiniteSetTheorems, TLAPS

FileType == {"FileHeader", "EndOfFile"}

(* The paths of the file messages in a sequence, and those in its requests.*)
FilePaths(s) == {m.path : m \in {n \in ToSet(s) : n.type \in FileType}}
AskedIn(s) ==
  UNION {m.paths : m \in {n \in ToSet(s) : n.type = "RequestFiles"}}

LEMMA InTheseTerms ==
  \A c : /\ Posted(c) = FilePaths(toClient[c])
         /\ Asked(c) = serving[c] \cup AskedIn(toServer[c])
BY DEF Posted, Asked, FilePaths, AskedIn, FileType

------------------------------------------------------------------------------
(* Sequences of messages *)

(* What is in a sequence that grows at its end or loses its head.          *)
LEMMA Members ==
  ASSUME NEW S, NEW s \in Seq(S), NEW x
  PROVE  x \in ToSet(s) <=> \E i \in 1..Len(s) : s[i] = x
BY LenProperties DEF ToSet

LEMMA ToSetFacts ==
  ASSUME NEW S, NEW s \in Seq(S)
  PROVE  /\ \A x \in S : ToSet(Append(s, x)) = ToSet(s) \cup {x}
         /\ \A t \in Seq(S) : ToSet(s \o t) = ToSet(s) \cup ToSet(t)
         /\ s # <<>> => ToSet(s) = {Head(s)} \cup ToSet(Tail(s))
         /\ ToSet(s) \subseteq S
         /\ s = <<>> <=> ToSet(s) = {}
<1>1. Len(s) \in Nat /\ \A i \in 1..Len(s) : s[i] \in S
  BY LenProperties, ElementOfSeq
<1>2. ASSUME NEW x \in S
      PROVE  ToSet(Append(s, x)) = ToSet(s) \cup {x}
  <2>1. /\ Append(s, x) \in Seq(S) /\ Len(Append(s, x)) = Len(s) + 1
        /\ \A i \in 1..Len(s) : Append(s, x)[i] = s[i]
        /\ Append(s, x)[Len(s) + 1] = x
    BY AppendProperties
  <2>2. ASSUME NEW y
        PROVE  y \in ToSet(Append(s, x)) <=> y \in ToSet(s) \/ y = x
    <3>1. (\E i \in 1..Len(s) + 1 : Append(s, x)[i] = y)
            <=> (\E i \in 1..Len(s) : s[i] = y) \/ x = y
      BY <1>1, <2>1
    <3>2. y \in ToSet(s) <=> \E i \in 1..Len(s) : s[i] = y
      BY Members
    <3>3. y \in ToSet(Append(s, x))
            <=> \E i \in 1..Len(Append(s, x)) : Append(s, x)[i] = y
      BY <2>1, Members
    <3> QED
      BY <2>1, <3>1, <3>2, <3>3
  <2> QED
    BY <2>2
<1>3. ASSUME NEW t \in Seq(S)
      PROVE  ToSet(s \o t) = ToSet(s) \cup ToSet(t)
  <2>1. /\ s \o t \in Seq(S) /\ Len(s \o t) = Len(s) + Len(t)
        /\ \A i \in 1..Len(s) + Len(t) :
             (s \o t)[i] = IF i <= Len(s) THEN s[i] ELSE t[i - Len(s)]
    BY ConcatProperties
  <2>2. Len(t) \in Nat
    BY LenProperties
  <2>3. ASSUME NEW j \in 1..Len(t)
        PROVE  t[j] = (s \o t)[Len(s) + j] /\ Len(s) + j \in 1..Len(s) + Len(t)
    BY <1>1, <2>1, <2>2
  <2>4. ASSUME NEW y, y \in ToSet(s) \cup ToSet(t)
        PROVE  y \in ToSet(s \o t)
    <3>1. CASE y \in ToSet(s)
      <4>1. PICK i \in 1..Len(s) : s[i] = y
        BY <3>1, Members
      <4>2. i \in 1..Len(s) + Len(t) /\ (s \o t)[i] = y
        BY <1>1, <2>1, <2>2, <4>1
      <4> QED
        BY <2>1, <4>2, Members
    <3>2. CASE y \in ToSet(t)
      <4>1. PICK j \in 1..Len(t) : t[j] = y
        BY <3>2, Members
      <4> QED
        BY <2>1, <2>3, <4>1, Members
    <3> QED
      BY <2>4, <3>1, <3>2
  <2>5. ASSUME NEW y, y \in ToSet(s \o t)
        PROVE  y \in ToSet(s) \cup ToSet(t)
    <3>1. PICK i \in 1..Len(s) + Len(t) : (s \o t)[i] = y
      BY <2>1, <2>5, Members
    <3>2. CASE i <= Len(s)
      BY <1>1, <2>1, <3>1, <3>2, Members
    <3>3. CASE ~(i <= Len(s))
      <4>1. i - Len(s) \in 1..Len(t) /\ t[i - Len(s)] = y
        BY <1>1, <2>1, <2>2, <3>1, <3>3
      <4> QED
        BY <4>1, Members
    <3> QED
      BY <3>2, <3>3
  <2> QED
    BY <2>4, <2>5
<1>4. ASSUME s # <<>>
      PROVE  ToSet(s) = {Head(s)} \cup ToSet(Tail(s))
  <2>1. /\ Len(s) \in Nat \ {0} /\ Head(s) = s[1]
        /\ Tail(s) \in Seq(S) /\ Len(Tail(s)) = Len(s) - 1
        /\ \A i \in 1..(Len(s) - 1) : Tail(s)[i] = s[i + 1]
    BY <1>4, EmptySeq, HeadTailProperties
  <2>2. ASSUME NEW y, y \in ToSet(s)
        PROVE  y = Head(s) \/ y \in ToSet(Tail(s))
    <3>1. PICK i \in 1..Len(s) : s[i] = y
      BY <2>2, Members
    <3>2. CASE i = 1
      BY <2>1, <3>1, <3>2
    <3>3. CASE i # 1
      <4>1. i - 1 \in 1..Len(s) - 1 /\ i = (i - 1) + 1
        BY <2>1, <3>3
      <4>2. Tail(s)[i - 1] = y
        BY <2>1, <3>1, <4>1
      <4> QED
        BY <2>1, <4>1, <4>2, Members
    <3> QED
      BY <3>2, <3>3
  <2>3. Head(s) \in ToSet(s)
    BY <2>1, Members
  <2>4. ASSUME NEW y, y \in ToSet(Tail(s))
        PROVE  y \in ToSet(s)
    <3>1. PICK i \in 1..Len(Tail(s)) : Tail(s)[i] = y
      <4>1. y \in ToSet(Tail(s)) <=> \E i \in 1..Len(Tail(s)) : Tail(s)[i] = y
        BY <2>1, Members
      <4> QED
        BY <2>4, <4>1
    <3>2. i + 1 \in 1..Len(s) /\ s[i + 1] = y
      BY <2>1, <3>1
    <3> QED
      BY <3>2, Members
  <2> QED
    BY <2>2, <2>3, <2>4
<1>5. ToSet(s) \subseteq S
  BY <1>1, Members
<1>6. s = <<>> <=> ToSet(s) = {}
  <2>1. CASE s = <<>>
    <3>1. 1..Len(s) = {}
      BY <2>1, EmptySeq
    <3>2. \A y : y \notin ToSet(s)
      BY <3>1, Members
    <3> QED
      BY <2>1, <3>2
  <2>2. CASE s # <<>>
    BY <1>4, <2>2
  <2> QED
    BY <2>1, <2>2
<1> QED
  BY <1>2, <1>3, <1>4, <1>5, <1>6

(* The file messages and requests in a sequence of messages as it changes. *)
LEMMA MessageFacts ==
  ASSUME NEW s \in Seq(Msg)
  PROVE  /\ \A m \in Msg : FilePaths(Append(s, m)) =
              FilePaths(s) \cup (IF m.type \in FileType THEN {m.path} ELSE {})
         /\ \A m \in Msg : AskedIn(Append(s, m)) =
              AskedIn(s) \cup (IF m.type = "RequestFiles" THEN m.paths ELSE {})
         /\ s # <<>> => FilePaths(s) = FilePaths(Tail(s)) \cup
              (IF Head(s).type \in FileType THEN {Head(s).path} ELSE {})
         /\ s # <<>> => AskedIn(s) = AskedIn(Tail(s)) \cup
              (IF Head(s).type = "RequestFiles" THEN Head(s).paths ELSE {})
         /\ \A p \in Files, d \in Content \cup {Partial} :
              /\ s \o AsMessages(p, d) \in Seq(Msg)
              /\ s \o AsMessages(p, d) # <<>>
              /\ FilePaths(s \o AsMessages(p, d)) = FilePaths(s) \cup {p}
              /\ AskedIn(s \o AsMessages(p, d)) = AskedIn(s)
         /\ s = <<>> => FilePaths(s) = {} /\ AskedIn(s) = {}
<1> USE DEF FilePaths, AskedIn
<1>1. ASSUME NEW m \in Msg
      PROVE  /\ FilePaths(Append(s, m)) =
                FilePaths(s) \cup (IF m.type \in FileType THEN {m.path} ELSE {})
             /\ AskedIn(Append(s, m)) =
                AskedIn(s) \cup (IF m.type = "RequestFiles" THEN m.paths ELSE {})
  <2>1. ToSet(Append(s, m)) = ToSet(s) \cup {m}
    BY ToSetFacts
  <2> QED
    BY <2>1
<1>2. ASSUME s # <<>>
      PROVE  /\ FilePaths(s) = FilePaths(Tail(s)) \cup
                (IF Head(s).type \in FileType THEN {Head(s).path} ELSE {})
             /\ AskedIn(s) = AskedIn(Tail(s)) \cup
                (IF Head(s).type = "RequestFiles" THEN Head(s).paths ELSE {})
  <2>1. ToSet(s) = {Head(s)} \cup ToSet(Tail(s))
    BY <1>2, ToSetFacts
  <2> QED
    BY <2>1
<1>3. ASSUME NEW p \in Files, NEW d \in Content \cup {Partial}
      PROVE  /\ s \o AsMessages(p, d) \in Seq(Msg)
             /\ s \o AsMessages(p, d) # <<>>
             /\ FilePaths(s \o AsMessages(p, d)) = FilePaths(s) \cup {p}
             /\ AskedIn(s \o AsMessages(p, d)) = AskedIn(s)
  <2> DEFINE header == [type |-> "FileHeader", path |-> p]
             end == [type |-> "EndOfFile", path |-> p, data |-> d]
  <2>1. header \in Msg /\ end \in Msg
    BY DEF Msg
  <2>2. header.type = "FileHeader" /\ header.path = p
        /\ end.type = "EndOfFile" /\ end.path = p
    OBVIOUS
  <2>3. AsMessages(p, d) = <<header, end>>
    BY DEF AsMessages
  <2> HIDE DEF header, end
  <2>4. AsMessages(p, d) \in Seq(Msg) /\ ToSet(AsMessages(p, d)) = {header, end}
    BY <2>1, <2>3 DEF ToSet
  <2>5. ToSet(s \o AsMessages(p, d)) = ToSet(s) \cup {header, end}
    BY <2>4, ToSetFacts
  <2>6. s \o AsMessages(p, d) \in Seq(Msg)
    BY <2>4, ConcatProperties
  <2>7. s \o AsMessages(p, d) # <<>>
    <3>1. ToSet(s \o AsMessages(p, d)) # {}
      BY <2>5
    <3> QED
      BY <2>6, <3>1, ToSetFacts
  <2>8. FilePaths(s \o AsMessages(p, d)) = FilePaths(s) \cup {p}
    BY <2>2, <2>5 DEF FileType
  <2>9. AskedIn(s \o AsMessages(p, d)) = AskedIn(s)
    BY <2>2, <2>5
  <2> QED
    BY <2>6, <2>7, <2>8, <2>9
<1>4. ASSUME s = <<>> PROVE FilePaths(s) = {} /\ AskedIn(s) = {}
  <2>1. ToSet(s) = {}
    BY <1>4, ToSetFacts
  <2> QED
    BY <2>1
<1> QED
  BY <1>1, <1>2, <1>3, <1>4
------------------------------------------------------------------------------
(* Types, and that nobody is sent anything before he has connected *)

(* A client that has not connected has nothing on its way.                 *)
StrangersAreQuiet ==
  \A c \in Clients : c \notin ToSet(conns) =>
    toServer[c] = <<>> /\ toClient[c] = <<>> /\ serving[c] = {}

Typed == TypeOK /\ StrangersAreQuiet

(* Whoever has something on its way knows whom the server replies to.      *)
LEMMA RepliedIsConnected ==
  ASSUME TypeOK, conns # <<>>
  PROVE  Replied \in Clients /\ Replied \in ToSet(conns)
<1>1. Len(conns) \in Nat \ {0} /\ conns \in Seq(Clients)
  BY EmptySeq DEF TypeOK
<1>2. conns[Len(conns)] \in Clients /\ conns[Len(conns)] \in ToSet(conns)
  BY <1>1, ElementOfSeq, Members
<1> QED
  BY <1>2 DEF Replied, Last

LEMMA SomebodyIsConnected ==
  ASSUME Typed, NEW c \in Clients,
         toServer[c] # <<>> \/ toClient[c] # <<>> \/ serving[c] # {}
  PROVE  /\ c \in ToSet(conns) /\ conns # <<>>
         /\ Replied \in Clients /\ Replied \in ToSet(conns)
<1>1. c \in ToSet(conns)
  BY DEF Typed, StrangersAreQuiet
<1>2. conns # <<>>
  BY <1>1, ToSetFacts DEF Typed, TypeOK
<1> QED
  BY <1>1, <1>2, RepliedIsConnected DEF Typed

(* The message at the head of a queue, and its path.                       *)
LEMMA Fields ==
  ASSUME NEW m \in Msg
  PROVE  /\ m.type \in {"FileHeader", "RestoreVersion", "EndOfFile"} =>
              m.path \in Files
         /\ m.type = "EndOfFile" => m.data \in Content \cup {Partial}
         /\ m.type \in {"List", "RequestFiles"} => m.paths \subseteq Files
BY DEF Msg

LEMMA Heads ==
  ASSUME NEW s \in Seq(Msg), s # <<>>
  PROVE  Head(s) \in Msg /\ Tail(s) \in Seq(Msg)
BY HeadTailProperties

LEMMA ConnectTypes ==
  ASSUME Typed, NEW c \in Clients, Connect(c)
  PROVE  Typed'
<1>1. conns' \in Seq(Clients) /\ ToSet(conns') = ToSet(conns) \cup {c}
  BY AppendProperties, ToSetFacts DEF Connect, Typed, TypeOK
<1> QED
  BY <1>1 DEF Connect, Typed, TypeOK, StrangersAreQuiet, state

LEMMA SaveTypes ==
  ASSUME Typed, NEW c \in Clients, Save(c)
  PROVE  Typed'
<1>1. PICK p \in Files :
        /\ disk' = [disk EXCEPT ![c][p] = saves']
        /\ toServer' = [toServer EXCEPT ![c] = @ \o AsMessages(p, saves')]
        /\ saved' = [saved EXCEPT
             ![c][p] = IF p \in ToCome(c) THEN Missing ELSE saves']
  BY DEF Save
<1>2. saves' \in 0..MaxSaves /\ saves' \in Content
  BY IntegrityAssumption DEF Save, Typed, TypeOK, Content
<1>3. toServer[c] \o AsMessages(p, saves') \in Seq(Msg)
  BY <1>2, MessageFacts DEF Typed, TypeOK
<1>4. toServer' \in [Clients -> Seq(Msg)]
  BY <1>1, <1>3 DEF Typed, TypeOK
<1>5. disk' \in [Node -> [Files -> Content \cup {Missing, Partial}]]
  BY <1>1, <1>2 DEF Typed, TypeOK, Node
<1>6. saved' \in [Clients -> [Files -> Content \cup {Missing}]]
  BY <1>1, <1>2 DEF Typed, TypeOK
<1>7. TypeOK'
  BY <1>2, <1>4, <1>5, <1>6 DEF Save, Typed, TypeOK
<1>8. StrangersAreQuiet'
  BY <1>1 DEF Save, Typed, TypeOK, StrangersAreQuiet
<1> QED
  BY <1>7, <1>8 DEF Typed

LEMMA RestoreTypes ==
  ASSUME Typed, NEW c \in Clients, Restore(c)
  PROVE  Typed'
<1>1. PICK p \in Files :
        /\ disk' = [disk EXCEPT ![c] = Without(@, p)]
        /\ toServer' = [toServer EXCEPT ![c] =
             Append(@, [type |-> "RestoreVersion", path |-> p])]
        /\ saved' = [saved EXCEPT ![c] = Without(@, p)]
        /\ promised' = [promised EXCEPT ![c] = @ \ (Later[p] \cup {p})]
  BY DEF Restore
<1>2. [type |-> "RestoreVersion", path |-> p] \in Msg
  BY DEF Msg
<1>3. Append(toServer[c], [type |-> "RestoreVersion", path |-> p]) \in Seq(Msg)
  BY <1>2, AppendProperties DEF Typed, TypeOK
<1>4. toServer' \in [Clients -> Seq(Msg)]
  BY <1>1, <1>3 DEF Typed, TypeOK
<1>5. saves' \in 0..MaxSaves
  BY IntegrityAssumption DEF Restore, Typed, TypeOK
<1>6. /\ disk' \in [Node -> [Files -> Content \cup {Missing, Partial}]]
      /\ saved' \in [Clients -> [Files -> Content \cup {Missing}]]
  BY <1>1 DEF Without, Typed, TypeOK, Node
<1>7. TypeOK'
  BY <1>1, <1>4, <1>5, <1>6 DEF Restore, Typed, TypeOK
<1>8. StrangersAreQuiet'
  BY <1>1 DEF Restore, Without, Typed, TypeOK, StrangersAreQuiet
<1> QED
  BY <1>7, <1>8 DEF Typed

LEMMA CheckTypes ==
  ASSUME Typed, NEW c \in Clients, Check(c)
  PROVE  Typed'
<1>1. [type |-> "CheckIntegrity"] \in Msg
  BY DEF Msg
<1>2. Append(toServer[c], [type |-> "CheckIntegrity"]) \in Seq(Msg)
  BY <1>1, AppendProperties DEF Typed, TypeOK
<1>3. toServer' \in [Clients -> Seq(Msg)]
  BY <1>2 DEF Check, Typed, TypeOK
<1>4. checks' \in 0..MaxChecks
  BY IntegrityAssumption DEF Check, Typed, TypeOK
<1>5. TypeOK'
  BY <1>3, <1>4 DEF Check, Typed, TypeOK
<1>6. StrangersAreQuiet'
  BY DEF Check, Typed, TypeOK, StrangersAreQuiet
<1> QED
  BY <1>5, <1>6 DEF Typed

LEMMA NextFromTypes ==
  ASSUME Typed, NEW c \in Clients, NEW type, NextFrom(c, type)
  PROVE  /\ toServer[c] \in Seq(Msg) /\ toServer[c] # <<>>
         /\ Head(toServer[c]) \in Msg /\ Head(toServer[c]).type = type
         /\ toServer' \in [Clients -> Seq(Msg)]
         /\ c \in ToSet(conns) /\ conns # <<>>
         /\ Replied \in Clients /\ Replied \in ToSet(conns)
<1>1. toServer[c] \in Seq(Msg) /\ toServer[c] # <<>>
  BY DEF NextFrom, Typed, TypeOK
<1>2. Head(toServer[c]) \in Msg /\ Tail(toServer[c]) \in Seq(Msg)
  BY <1>1, Heads
<1> QED
  BY <1>1, <1>2, SomebodyIsConnected DEF NextFrom, Typed, TypeOK

LEMMA ServerReceivesTypes ==
  ASSUME Typed, NEW c \in Clients, ServerReceives(c)
  PROVE  Typed'
<1> DEFINE m == Head(toServer[c])
<1>1. /\ toServer' \in [Clients -> Seq(Msg)] /\ c \in ToSet(conns)
      /\ m \in Msg /\ m.type \in FileType
  BY NextFromTypes DEF ServerReceives, FileType
<1>2. m.path \in Files /\ (m.type = "EndOfFile" => m.data \in Content \cup {Partial})
  BY <1>1, Fields DEF FileType
<1>3. open' \in [Clients -> [Side -> SUBSET Files]]
  <2>1. \/ open' = [open EXCEPT ![c]["server"] = @ \cup {m.path}]
        \/ open' = [open EXCEPT ![c]["server"] = @ \ {m.path}]
        \/ open' = open
    BY DEF ServerReceives, HeaderOpens, EndCloses
  <2> HIDE DEF m
  <2>2. /\ open[c]["server"] \cup {m.path} \in SUBSET Files
        /\ open[c]["server"] \ {m.path} \in SUBSET Files
    BY <1>2 DEF Typed, TypeOK, Side
  <2>3. ASSUME NEW s \in SUBSET Files, open' = [open EXCEPT ![c]["server"] = s]
        PROVE  open' \in [Clients -> [Side -> SUBSET Files]]
    BY <2>3 DEF Typed, TypeOK
  <2> QED
    BY <2>1, <2>2, <2>3 DEF Typed, TypeOK
<1>4. disk' \in [Node -> [Files -> Content \cup {Missing, Partial}]]
  <2>1. CASE NextFrom(c, "EndOfFile") /\ EndCloses(c, "server", Server, m)
    <3>1. m.data \in Content \cup {Partial}
      BY <1>2, <2>1 DEF NextFrom
    <3> QED
      BY <1>2, <2>1, <3>1 DEF EndCloses, Typed, TypeOK, Node
  <2>2. CASE HeaderOpens(c, "server", Server, m)
    BY <1>2, <2>2 DEF HeaderOpens, Typed, TypeOK, Node
  <2>3. CASE UNCHANGED disk
    BY <2>3 DEF Typed, TypeOK
  <2> QED
    BY <2>1, <2>2, <2>3 DEF ServerReceives
<1>5. TypeOK'
  BY <1>1, <1>3, <1>4 DEF ServerReceives, Typed, TypeOK, ghosts
<1>6. StrangersAreQuiet'
  BY <1>1 DEF ServerReceives, NextFrom, Typed, TypeOK, StrangersAreQuiet
<1> QED
  BY <1>5, <1>6 DEF Typed

LEMMA ServerRestoresTypes ==
  ASSUME Typed, NEW c \in Clients, ServerRestores(c)
  PROVE  Typed'
<1>1. /\ toServer' \in [Clients -> Seq(Msg)] /\ c \in ToSet(conns)
      /\ Head(toServer[c]) \in Msg
      /\ Head(toServer[c]).type = "RestoreVersion"
  BY NextFromTypes DEF ServerRestores
<1>2. Head(toServer[c]).path \in Files
  BY <1>1, Fields
<1>3. disk' \in [Node -> [Files -> Content \cup {Missing, Partial}]]
  BY <1>2 DEF ServerRestores, Without, Typed, TypeOK, Node
<1>4. TypeOK'
  BY <1>1, <1>3 DEF ServerRestores, Typed, TypeOK, ghosts
<1>5. StrangersAreQuiet'
  BY <1>1 DEF ServerRestores, NextFrom, Typed, TypeOK, StrangersAreQuiet
<1> QED
  BY <1>4, <1>5 DEF Typed

LEMMA ServerListsTypes ==
  ASSUME Typed, NEW c \in Clients, ServerLists(c)
  PROVE  Typed'
<1> DEFINE list == [type |-> "List",
                    paths |-> {p \in Files : disk[Server][p] # Missing}]
<1>1. /\ toServer' \in [Clients -> Seq(Msg)] /\ c \in ToSet(conns)
      /\ Replied \in Clients /\ Replied \in ToSet(conns)
  BY NextFromTypes DEF ServerLists
<1>2. list \in Msg
  BY DEF Msg
<1>3. toClient' = [toClient EXCEPT ![Replied] = Append(@, list)]
  BY DEF ServerLists
<1> HIDE DEF list
<1>4. Append(toClient[Replied], list) \in Seq(Msg)
  BY <1>1, <1>2, AppendProperties DEF Typed, TypeOK
<1>5. toClient' \in [Clients -> Seq(Msg)]
  BY <1>3, <1>4 DEF Typed, TypeOK
<1>6. TypeOK'
  BY <1>1, <1>5 DEF ServerLists, Typed, TypeOK, ghosts, state
<1>7. StrangersAreQuiet'
  BY <1>1, <1>3
     DEF ServerLists, NextFrom, Typed, TypeOK, StrangersAreQuiet, state
<1> QED
  BY <1>6, <1>7 DEF Typed

LEMMA ServerStartsServingTypes ==
  ASSUME Typed, NEW c \in Clients, ServerStartsServing(c)
  PROVE  Typed'
<1>1. /\ toServer' \in [Clients -> Seq(Msg)] /\ c \in ToSet(conns)
      /\ Head(toServer[c]) \in Msg
      /\ Head(toServer[c]).type = "RequestFiles"
  BY NextFromTypes DEF ServerStartsServing
<1>2. Head(toServer[c]).paths \subseteq Files
  BY <1>1, Fields
<1>3. TypeOK'
  BY <1>1, <1>2 DEF ServerStartsServing, Typed, TypeOK, ghosts
<1>4. StrangersAreQuiet'
  BY <1>1 DEF ServerStartsServing, NextFrom, Typed, TypeOK, StrangersAreQuiet
<1> QED
  BY <1>3, <1>4 DEF Typed

(* A round of the loop sends a file, or leaves it out.                     *)
LEMMA ServeFileTypes ==
  ASSUME Typed, NEW c \in Clients, ServeFile(c)
  PROVE  Typed'
<1> DEFINE to == Replied
<1>1. PICK p \in serving[c] :
    /\ serving' = [serving EXCEPT ![c] = @ \ {p}]
    /\ IF disk[Server][p] = Missing THEN UNCHANGED <<toClient, served>>
       ELSE /\ toClient' = [toClient EXCEPT ![to] =
                              @ \o AsMessages(p, disk[Server][p])]
            /\ served' = [served EXCEPT ![to] = @ \cup {p}]
    /\ spoilt' = IF disk[Server][p] \in Content THEN spoilt
                 ELSE [spoilt EXCEPT ![to] = @ \cup {p}]
    /\ saved' = IF to = c THEN saved ELSE [saved EXCEPT ![to][p] = Missing]
    /\ early' = IF to = c THEN early ELSE early \cup {to}
    /\ UNCHANGED <<conns, toServer, disk, open, blocked, handler, saves,
                   checks, promised>>
  BY DEF ServeFile
<1>2. /\ p \in Files /\ c \in ToSet(conns)
      /\ to \in Clients /\ to \in ToSet(conns)
  BY SomebodyIsConnected DEF Typed, TypeOK
<1> HIDE DEF to
<1>3. toClient' \in [Clients -> Seq(Msg)]
  <2>1. CASE disk[Server][p] = Missing
    BY <1>1, <2>1 DEF Typed, TypeOK
  <2>2. CASE disk[Server][p] # Missing
    <3>1. disk[Server][p] \in Content \cup {Partial}
      BY <1>2, <2>2 DEF Typed, TypeOK, Node
    <3>2. toClient[to] \o AsMessages(p, disk[Server][p]) \in Seq(Msg)
      BY <1>2, <3>1, MessageFacts DEF Typed, TypeOK
    <3> QED
      BY <1>1, <2>2, <3>2 DEF Typed, TypeOK
  <2> QED
    BY <2>1, <2>2
<1>4. serving' \in [Clients -> SUBSET Files]
  BY <1>1 DEF Typed, TypeOK
<1>5. /\ served' \in [Clients -> SUBSET Files]
      /\ spoilt' \in [Clients -> SUBSET Files]
      /\ saved' \in [Clients -> [Files -> Content \cup {Missing}]]
      /\ early' \subseteq Clients
  <2>1. \/ served' = served
        \/ served' = [served EXCEPT ![to] = @ \cup {p}]
    BY <1>1
  <2>2. \/ spoilt' = spoilt
        \/ spoilt' = [spoilt EXCEPT ![to] = @ \cup {p}]
    BY <1>1
  <2>3. \/ saved' = saved
        \/ saved' = [saved EXCEPT ![to][p] = Missing]
    BY <1>1
  <2>4. early' = early \/ early' = early \cup {to}
    BY <1>1
  <2> DEFINE Ghost == [Clients -> SUBSET Files]
  <2>5. ASSUME NEW f \in Ghost, NEW g, g = f \/ g = [f EXCEPT ![to] = @ \cup {p}]
        PROVE  g \in Ghost
    <3>1. f[to] \cup {p} \in SUBSET Files
      BY <1>2
    <3>2. CASE g = [f EXCEPT ![to] = @ \cup {p}]
      BY <1>2, <3>1, <3>2
    <3> QED
      BY <2>5, <3>2
  <2>6. served' \in Ghost /\ spoilt' \in Ghost
    BY <2>1, <2>2, <2>5 DEF Typed, TypeOK
  <2>7. saved' \in [Clients -> [Files -> Content \cup {Missing}]]
    <3>1. CASE saved' = [saved EXCEPT ![to][p] = Missing]
      BY <1>2, <3>1 DEF Typed, TypeOK
    <3> QED
      BY <2>3, <3>1 DEF Typed, TypeOK
  <2>8. early' \subseteq Clients
    BY <1>2, <2>4 DEF Typed, TypeOK
  <2> QED
    BY <2>6, <2>7, <2>8
<1>6. TypeOK'
  BY <1>1, <1>3, <1>4, <1>5 DEF Typed, TypeOK
<1>7. StrangersAreQuiet'
  BY <1>1, <1>2 DEF Typed, TypeOK, StrangersAreQuiet
<1> QED
  BY <1>6, <1>7 DEF Typed

LEMMA NextToTypes ==
  ASSUME Typed, NEW c \in Clients, NEW type, NextTo(c, type)
  PROVE  /\ toClient[c] \in Seq(Msg) /\ toClient[c] # <<>>
         /\ Head(toClient[c]) \in Msg /\ Head(toClient[c]).type = type
         /\ toClient' \in [Clients -> Seq(Msg)]
         /\ c \in ToSet(conns) /\ conns # <<>>
<1>1. toClient[c] \in Seq(Msg) /\ toClient[c] # <<>>
  BY DEF NextTo, Typed, TypeOK
<1>2. Head(toClient[c]) \in Msg /\ Tail(toClient[c]) \in Seq(Msg)
  BY <1>1, Heads
<1> QED
  BY <1>1, <1>2, SomebodyIsConnected DEF NextTo, Typed, TypeOK

LEMMA ClientComparesTypes ==
  ASSUME Typed, NEW c \in Clients, ClientCompares(c)
  PROVE  Typed'
<1> DEFINE m == Head(toClient[c])
           request == [type |-> "RequestFiles", paths |-> NotFound(c, m.paths)]
<1>1. /\ toClient' \in [Clients -> Seq(Msg)] /\ c \in ToSet(conns)
      /\ m \in Msg /\ m.type = "List"
  BY NextToTypes DEF ClientCompares
<1>2. m.paths \subseteq Files
  BY <1>1, Fields
<1>3. request \in Msg
  BY <1>2 DEF Msg, NotFound
<1>4. \/ toServer' = [toServer EXCEPT ![c] = Append(@, request)]
      \/ toServer' = toServer
  BY DEF ClientCompares
<1> HIDE DEF request
<1>5. Append(toServer[c], request) \in Seq(Msg)
  BY <1>3, AppendProperties DEF Typed, TypeOK
<1>6. toServer' \in [Clients -> Seq(Msg)]
  BY <1>4, <1>5 DEF Typed, TypeOK
<1>7. promised' \in [Clients -> SUBSET Files] /\ early' \subseteq Clients
  BY <1>2 DEF ClientCompares, Typed, TypeOK
<1>8. TypeOK'
  BY <1>1, <1>6, <1>7 DEF ClientCompares, Typed, TypeOK
<1>9. StrangersAreQuiet'
  BY <1>1, <1>4 DEF ClientCompares, NextTo, Typed, TypeOK, StrangersAreQuiet
<1> QED
  BY <1>8, <1>9 DEF Typed

LEMMA ClientReceivesTypes ==
  ASSUME Typed, NEW c \in Clients, ClientReceives(c)
  PROVE  Typed'
<1> DEFINE m == Head(toClient[c])
<1>1. /\ toClient' \in [Clients -> Seq(Msg)] /\ c \in ToSet(conns)
      /\ m \in Msg /\ m.type \in FileType
  BY NextToTypes DEF ClientReceives, FileType
<1>2. m.path \in Files /\ (m.type = "EndOfFile" => m.data \in Content \cup {Partial})
  BY <1>1, Fields DEF FileType
<1>3. open' \in [Clients -> [Side -> SUBSET Files]]
  <2>1. \/ open' = [open EXCEPT ![c]["client"] = @ \cup {m.path}]
        \/ open' = [open EXCEPT ![c]["client"] = @ \ {m.path}]
    BY DEF ClientReceives, HeaderOpens, EndCloses
  <2> HIDE DEF m
  <2>2. /\ open[c]["client"] \cup {m.path} \in SUBSET Files
        /\ open[c]["client"] \ {m.path} \in SUBSET Files
    BY <1>2 DEF Typed, TypeOK, Side
  <2>3. ASSUME NEW s \in SUBSET Files, open' = [open EXCEPT ![c]["client"] = s]
        PROVE  open' \in [Clients -> [Side -> SUBSET Files]]
    BY <2>3 DEF Typed, TypeOK
  <2> QED
    BY <2>1, <2>2, <2>3 DEF Typed, TypeOK
<1>4. disk' \in [Node -> [Files -> Content \cup {Missing, Partial}]]
  <2>1. CASE NextTo(c, "EndOfFile") /\ EndCloses(c, "client", c, m)
    <3>1. m.data \in Content \cup {Partial}
      BY <1>2, <2>1 DEF NextTo
    <3> QED
      BY <1>2, <2>1, <3>1 DEF EndCloses, Typed, TypeOK, Node
  <2>2. CASE HeaderOpens(c, "client", c, m)
    BY <1>2, <2>2 DEF HeaderOpens, Typed, TypeOK, Node
  <2> QED
    BY <2>1, <2>2 DEF ClientReceives
<1>5. blocked' \in [Clients -> BOOLEAN]
  BY DEF ClientReceives, Unblock, Typed, TypeOK
<1>6. TypeOK'
  BY <1>1, <1>3, <1>4, <1>5 DEF ClientReceives, Typed, TypeOK, ghosts
<1>7. StrangersAreQuiet'
  BY <1>1 DEF ClientReceives, NextTo, Typed, TypeOK, StrangersAreQuiet
<1> QED
  BY <1>6, <1>7 DEF Typed

LEMMA ClientRefusesTypes ==
  ASSUME Typed, NEW c \in Clients, ClientRefuses(c)
  PROVE  Typed'
<1>1. /\ toClient' \in [Clients -> Seq(Msg)] /\ c \in ToSet(conns)
      /\ Head(toClient[c]) \in Msg /\ Head(toClient[c]).type = "FileHeader"
  BY NextToTypes DEF ClientRefuses
<1>2. Head(toClient[c]).path \in Files
  BY <1>1, Fields
<1>3. TypeOK'
  BY <1>1, <1>2 DEF ClientRefuses, Typed, TypeOK, state
<1>4. StrangersAreQuiet'
  BY <1>1 DEF ClientRefuses, NextTo, Typed, TypeOK, StrangersAreQuiet, state
<1> QED
  BY <1>3, <1>4 DEF Typed

LEMMA InitialTypes == Init => Typed
<1> SUFFICES ASSUME Init PROVE Typed
  OBVIOUS
<1>1. 0 \in Content /\ 0 \in 0..MaxSaves /\ 0 \in 0..MaxChecks
  BY IntegrityAssumption DEF Content
<1>2. \A S : <<>> \in Seq(S)
  BY EmptySeq
<1>3. disk \in [Node -> [Files -> Content \cup {Missing, Partial}]]
  BY <1>1 DEF Init
<1>4. TypeOK
  BY <1>1, <1>2, <1>3 DEF Init, TypeOK
<1>5. StrangersAreQuiet
  BY DEF Init, StrangersAreQuiet
<1> QED
  BY <1>4, <1>5 DEF Typed

LEMMA InductiveTypes == Typed /\ [Next]_vars => Typed'
<1> SUFFICES ASSUME Typed, [Next]_vars PROVE Typed'
  OBVIOUS
<1>1. ASSUME NEW c \in Clients,
             Connect(c) \/ CommandLine(c) \/ ServerThread(c) \/ ClientThread(c)
      PROVE  Typed'
  BY <1>1, ConnectTypes, SaveTypes, RestoreTypes, CheckTypes,
     ServerReceivesTypes, ServerRestoresTypes, ServerListsTypes,
     ServerStartsServingTypes, ServeFileTypes, ClientComparesTypes,
     ClientReceivesTypes, ClientRefusesTypes
     DEF CommandLine, ServerThread, ClientThread
<1>2. CASE UNCHANGED vars
  BY <1>2 DEF vars, Typed, TypeOK, StrangersAreQuiet
<1> QED
  BY <1>1, <1>2 DEF Next

(* In every reachable state the variables have their types, and a client   *)
(* that has not connected has nothing posted to it or by it.               *)
THEOREM IntegrityTypes == Spec => []Typed
BY InitialTypes, InductiveTypes, PTL DEF Spec

------------------------------------------------------------------------------
(* What is to come *)

(* The files that are to come to c, those that others ask for left out.    *)
Expected(c) == ComingFrom(c, {c})

LEMMA ExpectedIs ==
  \A c : Expected(c) = FilePaths(toClient[c]) \cup
           (IF conns # <<>> /\ c = Replied
            THEN serving[c] \cup AskedIn(toServer[c]) ELSE {})
BY InTheseTerms DEF Expected, ComingFrom

LEMMA ExpectedIsNext ==
  \A c : Expected(c)' = FilePaths(toClient'[c]) \cup
           (IF conns' # <<>> /\ c = Replied'
            THEN serving'[c] \cup AskedIn(toServer'[c]) ELSE {})
BY DEF Expected, ComingFrom, Posted, Asked, FilePaths, AskedIn, FileType

LEMMA PostedNext == \A c : Posted(c)' = FilePaths(toClient'[c])
BY DEF Posted, FilePaths, FileType

LEMMA PostedIsExpected == \A c : Posted(c) \subseteq Expected(c)
BY ExpectedIs, InTheseTerms

(* Who connects has nothing to come, and the others no longer get what     *)
(* they asked for.                                                         *)
LEMMA ConnectComing ==
  ASSUME Typed, NEW c \in Clients, Connect(c)
  PROVE  /\ conns' # <<>> /\ Replied' = c
         /\ ToSet(conns') = ToSet(conns) \cup {c}
         /\ \A d \in Clients : /\ Expected(d)' \subseteq Expected(d)
                               /\ Posted(d)' = Posted(d)
         /\ Expected(c)' = {}
<1>1. conns \in Seq(Clients) /\ Len(conns) \in Nat
  BY LenProperties DEF Typed, TypeOK
<1>2. /\ conns' # <<>> /\ Len(conns') = Len(conns) + 1
      /\ conns'[Len(conns) + 1] = c
  BY <1>1, AppendProperties DEF Connect
<1>3. Replied' = c
  BY <1>2 DEF Replied, Last
<1>4. ToSet(conns') = ToSet(conns) \cup {c}
  BY <1>1, ToSetFacts DEF Connect
<1>5. toServer[c] = <<>> /\ toClient[c] = <<>> /\ serving[c] = {}
  BY DEF Connect, Typed, StrangersAreQuiet
<1>6. FilePaths(<<>>) = {} /\ AskedIn(<<>>) = {}
  BY MessageFacts, EmptySeq
<1>7. UNCHANGED <<toServer, toClient, serving>>
  BY DEF Connect, state
<1>8. Expected(c)' = {}
  BY <1>5, <1>6, <1>7, ExpectedIsNext
<1>9. ASSUME NEW d \in Clients
      PROVE  Expected(d)' \subseteq Expected(d) /\ Posted(d)' = Posted(d)
  <2>1. Posted(d)' = Posted(d)
    BY <1>7, PostedNext, InTheseTerms
  <2>2. CASE d = c
    BY <1>8, <2>1, <2>2
  <2>3. CASE d # c
    BY <1>3, <1>7, <2>1, <2>3, ExpectedIs, ExpectedIsNext
  <2> QED
    BY <2>2, <2>3
<1> QED
  BY <1>2, <1>3, <1>4, <1>8, <1>9

(* The commands ask for no file. *)
LEMMA CommandComing ==
  ASSUME Typed, NEW c \in Clients, CommandLine(c)
  PROVE  \A d \in Clients : Expected(d)' = Expected(d) /\ Posted(d)' = Posted(d)
<1>1. /\ UNCHANGED <<conns, toClient, serving>>
      /\ \A d \in Clients : AskedIn(toServer'[d]) = AskedIn(toServer[d])
  <2>1. CASE Save(c)
    <3>1. PICK p \in Files :
            toServer' = [toServer EXCEPT ![c] = @ \o AsMessages(p, saves')]
      BY <2>1 DEF Save
    <3>2. saves' \in Content
      BY <2>1, IntegrityAssumption DEF Save, Typed, TypeOK, Content
    <3>3. AskedIn(toServer[c] \o AsMessages(p, saves')) = AskedIn(toServer[c])
      BY <3>2, MessageFacts DEF Typed, TypeOK
    <3> QED
      BY <2>1, <3>1, <3>3 DEF Save, Typed, TypeOK
  <2>2. ASSUME NEW m \in Msg, m.type # "RequestFiles",
               toServer' = [toServer EXCEPT ![c] = Append(@, m)]
        PROVE  \A d \in Clients : AskedIn(toServer'[d]) = AskedIn(toServer[d])
    <3>1. AskedIn(Append(toServer[c], m)) = AskedIn(toServer[c])
      <4>1. toServer[c] \in Seq(Msg)
        BY DEF Typed, TypeOK
      <4>2. AskedIn(Append(toServer[c], m)) = AskedIn(toServer[c]) \cup
              (IF m.type = "RequestFiles" THEN m.paths ELSE {})
        BY <4>1, MessageFacts
      <4> QED
        BY <2>2, <4>2
    <3> QED
      BY <2>2, <3>1 DEF Typed, TypeOK
  <2>3. CASE Restore(c)
    <3>1. PICK p \in Files :
            toServer' = [toServer EXCEPT ![c] =
              Append(@, [type |-> "RestoreVersion", path |-> p])]
      BY <2>3 DEF Restore
    <3>2. [type |-> "RestoreVersion", path |-> p] \in Msg
      BY DEF Msg
    <3> QED
      BY <2>2, <2>3, <3>1, <3>2 DEF Restore
  <2>4. CASE Check(c)
    <3>1. [type |-> "CheckIntegrity"] \in Msg
      BY DEF Msg
    <3> QED
      BY <2>2, <2>4, <3>1 DEF Check
  <2> QED
    BY <2>1, <2>3, <2>4 DEF CommandLine
<1>2. Replied' = Replied
  BY <1>1 DEF Replied
<1> QED
  BY <1>1, <1>2, ExpectedIs, ExpectedIsNext, PostedNext, InTheseTerms

(* Nor does the server send one that it has not begun to serve.            *)
LEMMA ServerComing ==
  ASSUME Typed, NEW c \in Clients,
         \/ ServerReceives(c) \/ ServerRestores(c)
         \/ ServerLists(c) \/ ServerStartsServing(c)
  PROVE  /\ \A d \in Clients :
              Expected(d)' = Expected(d) /\ Posted(d)' = Posted(d)
         /\ conns' = conns /\ Replied' = Replied
<1>1. UNCHANGED conns /\ Replied' = Replied
  BY DEF ServerReceives, ServerRestores, ServerLists, ServerStartsServing,
         Replied
<1>2. PICK type \in {"FileHeader", "EndOfFile", "RestoreVersion",
                     "CheckIntegrity", "RequestFiles"} : NextFrom(c, type)
  BY DEF ServerReceives, ServerRestores, ServerLists, ServerStartsServing
<1>3. AskedIn(toServer[c]) = AskedIn(Tail(toServer[c])) \cup
        (IF type = "RequestFiles" THEN Head(toServer[c]).paths ELSE {})
  BY <1>2, NextFromTypes, MessageFacts
<1>4. /\ toServer' = [toServer EXCEPT ![c] = Tail(@)] /\ serving[c] = {}
      /\ Head(toServer[c]).type = type
  BY <1>2 DEF NextFrom
<1>5. ASSUME NEW d \in Clients
      PROVE  serving'[d] \cup AskedIn(toServer'[d])
               = serving[d] \cup AskedIn(toServer[d])
  <2>1. CASE type = "RequestFiles"
    <3>1. ServerStartsServing(c)
      BY <1>4, <2>1
         DEF ServerReceives, ServerRestores, ServerLists, NextFrom
    <3> QED
      BY <1>3, <1>4, <2>1, <3>1 DEF ServerStartsServing, Typed, TypeOK
  <2>2. CASE type # "RequestFiles"
    <3>1. serving' = serving
      BY <1>4, <2>2 DEF ServerReceives, ServerRestores, ServerLists,
                        ServerStartsServing, NextFrom, state
    <3> QED
      BY <1>3, <1>4, <2>2, <3>1 DEF Typed, TypeOK
  <2> QED
    BY <2>1, <2>2
<1>6. ASSUME NEW d \in Clients
      PROVE  FilePaths(toClient'[d]) = FilePaths(toClient[d])
  <2>1. CASE ServerLists(c)
    <3> DEFINE list == [type |-> "List",
                        paths |-> {p \in Files : disk[Server][p] # Missing}]
    <3>1. list \in Msg /\ list.type = "List"
      BY DEF Msg
    <3>2. toClient' = [toClient EXCEPT ![Replied] = Append(@, list)]
      BY <2>1 DEF ServerLists
    <3> HIDE DEF list
    <3>3. FilePaths(Append(toClient[d], list)) = FilePaths(toClient[d])
      <4>1. toClient[d] \in Seq(Msg)
        BY DEF Typed, TypeOK
      <4>2. FilePaths(Append(toClient[d], list)) = FilePaths(toClient[d]) \cup
              (IF list.type \in FileType THEN {list.path} ELSE {})
        BY <3>1, <4>1, MessageFacts
      <4> QED
        BY <3>1, <4>2 DEF FileType
    <3> QED
      BY <3>2, <3>3 DEF Typed, TypeOK
  <2>2. CASE ServerReceives(c) \/ ServerRestores(c) \/ ServerStartsServing(c)
    BY <2>2 DEF ServerReceives, ServerRestores, ServerStartsServing
  <2> QED
    BY <2>1, <2>2
<1> QED
  BY <1>1, <1>5, <1>6, ExpectedIs, ExpectedIsNext, PostedNext, InTheseTerms

(* What a round of the loop does: the file goes to the client that is      *)
(* replied to, or nothing is sent.                                         *)
Round(c, p, to) ==
  LET data == disk[Server][p] IN
  /\ p \in serving[c] /\ to = Replied
  /\ serving' = [serving EXCEPT ![c] = @ \ {p}]
  /\ IF data = Missing THEN UNCHANGED <<toClient, served>>
     ELSE /\ toClient' = [toClient EXCEPT ![to] = @ \o AsMessages(p, data)]
          /\ served' = [served EXCEPT ![to] = @ \cup {p}]
  /\ spoilt' = IF data \in Content THEN spoilt
               ELSE [spoilt EXCEPT ![to] = @ \cup {p}]
  /\ saved' = IF to = c THEN saved ELSE [saved EXCEPT ![to][p] = Missing]
  /\ early' = IF to = c THEN early ELSE early \cup {to}
  /\ UNCHANGED <<conns, toServer, disk, open, blocked, handler, saves,
                 checks, promised>>

LEMMA ServeFileRound ==
  ASSUME Typed, NEW c \in Clients, ServeFile(c)
  PROVE  \E p \in Files, to \in Clients :
           /\ Round(c, p, to) /\ to \in ToSet(conns) /\ c \in ToSet(conns)
           /\ conns # <<>>
<1>1. PICK p \in serving[c] : Round(c, p, Replied)
  BY DEF ServeFile, Round
<1>2. p \in Files
  BY DEF Typed, TypeOK
<1> QED
  BY <1>1, <1>2, SomebodyIsConnected

LEMMA RoundComing ==
  ASSUME Typed, NEW c \in Clients, NEW p \in Files, NEW to \in Clients,
         conns # <<>>, Round(c, p, to)
  PROVE  /\ \A d \in Clients \ {to} :
              Expected(d)' = Expected(d) /\ Posted(d)' = Posted(d)
         /\ Expected(to)' \subseteq Expected(to) \cup {p}
         /\ Expected(to) \subseteq Expected(to)' \cup {p}
         /\ disk[Server][p] # Missing =>
              p \in Posted(to)' /\ Posted(to)' = Posted(to) \cup {p}
         /\ disk[Server][p] = Missing => Posted(to)' = Posted(to)
         /\ to = c => p \in Expected(to) /\ Expected(to)' \subseteq Expected(to)
         /\ conns' = conns /\ Replied' = to /\ to = Replied
<1>1. UNCHANGED <<conns, toServer>> /\ to = Replied /\ p \in serving[c]
  BY DEF Round
<1>2. Replied' = Replied
  BY <1>1 DEF Replied
<1>3. serving' = [serving EXCEPT ![c] = @ \ {p}]
  BY DEF Round
<1>4. toClient[to] \in Seq(Msg)
  BY DEF Typed, TypeOK
<1>5. CASE disk[Server][p] = Missing
  <2>1. toClient' = toClient
    BY <1>5 DEF Round
  <2> QED
    BY <1>1, <1>2, <1>3, <1>5, <2>1, ExpectedIs, ExpectedIsNext, PostedNext,
       InTheseTerms DEF Typed, TypeOK
<1>6. CASE disk[Server][p] # Missing
  <2>1. toClient' = [toClient EXCEPT
          ![to] = @ \o AsMessages(p, disk[Server][p])]
    BY <1>6 DEF Round
  <2>2. disk[Server][p] \in Content \cup {Partial}
    BY <1>6 DEF Typed, TypeOK, Node
  <2>3. FilePaths(toClient[to] \o AsMessages(p, disk[Server][p]))
          = FilePaths(toClient[to]) \cup {p}
    BY <1>4, <2>2, MessageFacts
  <2>4. /\ FilePaths(toClient'[to]) = FilePaths(toClient[to]) \cup {p}
        /\ \A d \in Clients \ {to} : toClient'[d] = toClient[d]
    BY <2>1, <2>3 DEF Typed, TypeOK
  <2> QED
    BY <1>1, <1>2, <1>3, <1>6, <2>4, ExpectedIs, ExpectedIsNext, PostedNext,
       InTheseTerms, ZenonT(40) DEF Typed, TypeOK
<1> QED
  BY <1>5, <1>6

(* The list adds what the client lacks, if it goes to the one replied to.  *)
LEMMA ComparesComing ==
  ASSUME Typed, NEW c \in Clients, ClientCompares(c)
  PROVE  LET paths == Head(toClient[c]).paths
             lacking == NotFound(c, paths)
         IN
         /\ \A d \in Clients : Posted(d)' = Posted(d)
         /\ \A d \in Clients \ {c} : Expected(d)' = Expected(d)
         /\ paths \subseteq Files
         /\ Expected(c) \subseteq Expected(c)'
         /\ Expected(c)' \subseteq Expected(c) \cup lacking
         /\ handler[c] /\ c = Replied => lacking \subseteq Expected(c)'
         /\ conns' = conns /\ Replied' = Replied /\ conns # <<>>
<1> DEFINE paths == Head(toClient[c]).paths
           lacking == NotFound(c, paths)
           request == [type |-> "RequestFiles", paths |-> lacking]
<1>1. /\ toClient[c] \in Seq(Msg) /\ toClient[c] # <<>> /\ conns # <<>>
      /\ Head(toClient[c]) \in Msg /\ Head(toClient[c]).type = "List"
  BY NextToTypes DEF ClientCompares
<1>2. paths \subseteq Files
  BY <1>1, Fields
<1>3. request \in Msg /\ request.type = "RequestFiles" /\ request.paths = lacking
  BY <1>2 DEF Msg, NotFound
<1>4. /\ \/ handler[c] /\ toServer' = [toServer EXCEPT ![c] = Append(@, request)]
         \/ toServer' = toServer /\ (~handler[c] \/ lacking = {})
      /\ toClient' = [toClient EXCEPT ![c] = Tail(@)]
      /\ UNCHANGED <<conns, serving>>
  BY DEF ClientCompares, NextTo
<1> HIDE DEF request, lacking, paths
<1>5. FilePaths(toClient[c]) = FilePaths(Tail(toClient[c])) \cup
        (IF Head(toClient[c]).type \in FileType THEN {Head(toClient[c]).path}
                                                ELSE {})
  BY <1>1, MessageFacts
<1>6. FilePaths(toClient[c]) = FilePaths(Tail(toClient[c]))
  BY <1>1, <1>5 DEF FileType
<1>7. \A d \in Clients : FilePaths(toClient'[d]) = FilePaths(toClient[d])
  BY <1>4, <1>6 DEF Typed, TypeOK
<1>8. toServer[c] \in Seq(Msg)
  BY DEF Typed, TypeOK
<1>9. AskedIn(Append(toServer[c], request)) = AskedIn(toServer[c]) \cup
        (IF request.type = "RequestFiles" THEN request.paths ELSE {})
  BY <1>3, <1>8, MessageFacts
<1>10. /\ \/ AskedIn(toServer'[c]) = AskedIn(toServer[c]) \cup lacking
          \/ /\ AskedIn(toServer'[c]) = AskedIn(toServer[c])
             /\ ~handler[c] \/ lacking = {}
       /\ \A d \in Clients \ {c} : toServer'[d] = toServer[d]
  BY <1>3, <1>4, <1>9 DEF Typed, TypeOK
<1>11. Replied' = Replied
  BY <1>4 DEF Replied
<1>12. /\ \A d \in Clients : Posted(d)' = Posted(d)
       /\ \A d \in Clients \ {c} : Expected(d)' = Expected(d)
  BY <1>4, <1>7, <1>10, <1>11, ExpectedIs, ExpectedIsNext, PostedNext,
     InTheseTerms
<1>13. /\ Expected(c) \subseteq Expected(c)'
       /\ Expected(c)' \subseteq Expected(c) \cup lacking
       /\ handler[c] /\ c = Replied => lacking \subseteq Expected(c)'
  BY <1>1, <1>4, <1>7, <1>10, <1>11, ExpectedIs, ExpectedIsNext
<1> QED
  BY <1>1, <1>2, <1>4, <1>11, <1>12, <1>13 DEF lacking, paths

(* A file message that is handled is no longer to come.                    *)
LEMMA FileMessageComing ==
  ASSUME Typed, NEW c \in Clients, ClientReceives(c) \/ ClientRefuses(c)
  PROVE  LET m == Head(toClient[c]) IN
         /\ m \in Msg /\ m.type \in FileType /\ m.path \in Files
         /\ Posted(c) = Posted(c)' \cup {m.path}
         /\ Expected(c) = Expected(c)' \cup {m.path}
         /\ \A d \in Clients \ {c} :
              Posted(d)' = Posted(d) /\ Expected(d)' = Expected(d)
         /\ conns' = conns /\ Replied' = Replied
<1> DEFINE m == Head(toClient[c])
<1>1. /\ toClient[c] \in Seq(Msg) /\ toClient[c] # <<>>
      /\ m \in Msg /\ m.type \in FileType
  BY NextToTypes DEF ClientReceives, ClientRefuses, FileType
<1>2. /\ toClient' = [toClient EXCEPT ![c] = Tail(@)]
      /\ UNCHANGED <<conns, serving, toServer>>
  BY DEF ClientReceives, ClientRefuses, NextTo, state
<1>3. m.path \in Files
  BY <1>1, Fields DEF FileType
<1>4. FilePaths(toClient[c]) = FilePaths(Tail(toClient[c])) \cup
        (IF m.type \in FileType THEN {m.path} ELSE {})
  BY <1>1, MessageFacts
<1>5. Replied' = Replied
  BY <1>2 DEF Replied
<1>6. /\ toClient'[c] = Tail(toClient[c])
      /\ \A d \in Clients \ {c} : toClient'[d] = toClient[d]
  BY <1>2 DEF Typed, TypeOK
<1> HIDE DEF m
<1>7. Posted(c) = Posted(c)' \cup {m.path}
  BY <1>1, <1>4, <1>6, PostedNext, InTheseTerms
<1>8. Expected(c) = Expected(c)' \cup {m.path}
  BY <1>1, <1>2, <1>4, <1>5, <1>6, ExpectedIs, ExpectedIsNext
<1>9. \A d \in Clients \ {c} :
        Posted(d)' = Posted(d) /\ Expected(d)' = Expected(d)
  BY <1>2, <1>5, <1>6, ExpectedIs, ExpectedIsNext, PostedNext, InTheseTerms
<1> QED
  BY <1>1, <1>2, <1>3, <1>5, <1>7, <1>8, <1>9 DEF m

------------------------------------------------------------------------------
(* What is saved is kept *)

(* What a client has saved is on its disk, and nothing is to come to it    *)
(* that would go over it.                                                  *)
SavedIsAlone ==
  \A c \in Clients : \A p \in Files : saved[c][p] # Missing =>
    /\ disk[c][p] = saved[c][p]
    /\ c \in ToSet(conns)
    /\ p \notin Expected(c)

(* A step that leaves the clients' disks alone, or only what is not saved. *)
LEMMA KeepsSaved ==
  ASSUME SavedIsAlone, ToSet(conns) \subseteq ToSet(conns'),
         \A c \in Clients : \A p \in Files : saved'[c][p] # Missing =>
           /\ saved'[c][p] = saved[c][p] /\ disk'[c][p] = disk[c][p]
           /\ p \notin Expected(c)' \ Expected(c)
  PROVE  SavedIsAlone'
BY DEF SavedIsAlone

LEMMA ConnectKeepsSaved ==
  ASSUME Typed, SavedIsAlone, NEW c \in Clients, Connect(c)
  PROVE  SavedIsAlone'
<1>1. UNCHANGED <<saved, disk>>
  BY DEF Connect, state
<1> QED
  BY <1>1, ConnectComing, KeepsSaved

LEMMA CommandKeepsSaved ==
  ASSUME Typed, SavedIsAlone, NEW c \in Clients, CommandLine(c)
  PROVE  SavedIsAlone'
<1>1. \A d \in Clients : Expected(d)' = Expected(d)
  BY CommandComing
<1>2. conns' = conns
  BY DEF CommandLine, Save, Restore, Check
<1>3. CASE Save(c)
  <2>1. PICK p \in Files :
          /\ disk' = [disk EXCEPT ![c][p] = saves']
          /\ saved' = [saved EXCEPT
               ![c][p] = IF p \in ToCome(c) THEN Missing ELSE saves']
    BY <1>3 DEF Save
  <2>2. c \in ToSet(conns)
    BY <1>3 DEF Save
  <2>3. Expected(c) \subseteq ToCome(c)
    BY DEF Expected, ToCome, ComingFrom
  <2>4. ASSUME NEW d \in Clients, NEW q \in Files, saved'[d][q] # Missing
        PROVE  /\ disk'[d][q] = saved'[d][q]
               /\ d \in ToSet(conns) /\ q \notin Expected(d)
    <3>1. CASE d = c /\ q = p
      <4>1. disk'[d][q] = saves'
        BY <2>1, <3>1 DEF Typed, TypeOK, Node
      <4>2. p \notin ToCome(c) /\ saved'[d][q] = saves'
        BY <2>1, <2>4, <3>1 DEF Typed, TypeOK
      <4> QED
        BY <2>2, <2>3, <3>1, <4>1, <4>2
    <3>2. CASE ~(d = c /\ q = p)
      <4>1. disk'[d][q] = disk[d][q] /\ saved'[d][q] = saved[d][q]
        BY <2>1, <3>2 DEF Typed, TypeOK, Node
      <4> QED
        BY <2>4, <4>1 DEF SavedIsAlone
    <3> QED
      BY <3>1, <3>2
  <2> QED
    BY <1>1, <1>2, <2>4 DEF SavedIsAlone
<1>4. CASE Restore(c)
  <2>1. PICK p \in Files :
          /\ disk' = [disk EXCEPT ![c] = Without(@, p)]
          /\ saved' = [saved EXCEPT ![c] = Without(@, p)]
    BY <1>4 DEF Restore
  <2>2. ASSUME NEW d \in Clients, NEW q \in Files, saved'[d][q] # Missing
        PROVE  saved'[d][q] = saved[d][q] /\ disk'[d][q] = disk[d][q]
    <3>1. ~(d = c /\ q \in Later[p] \cup {p})
      BY <2>1, <2>2 DEF Without, Typed, TypeOK
    <3> QED
      BY <2>1, <3>1 DEF Without, Typed, TypeOK, Node
  <2> QED
    BY <1>1, <1>2, <2>2, KeepsSaved
<1>5. CASE Check(c)
  BY <1>1, <1>2, <1>5, KeepsSaved DEF Check
<1> QED
  BY <1>3, <1>4, <1>5 DEF CommandLine

LEMMA ServerKeepsSaved ==
  ASSUME Typed, SavedIsAlone, NEW c \in Clients,
         \/ ServerReceives(c) \/ ServerRestores(c)
         \/ ServerLists(c) \/ ServerStartsServing(c)
  PROVE  SavedIsAlone'
<1>1. saved' = saved
  BY DEF ServerReceives, ServerRestores, ServerLists, ServerStartsServing, ghosts
<1>2. \A d \in Clients : disk'[d] = disk[d]
  BY IntegrityAssumption
     DEF ServerReceives, ServerRestores, ServerLists, ServerStartsServing,
         HeaderOpens, EndCloses, state, Typed, TypeOK, Node
<1> QED
  BY <1>1, <1>2, ServerComing, KeepsSaved

LEMMA ServeFileKeepsSaved ==
  ASSUME Typed, SavedIsAlone, NEW c \in Clients, ServeFile(c)
  PROVE  SavedIsAlone'
<1>1. PICK p \in Files, to \in Clients :
        Round(c, p, to) /\ conns # <<>>
  BY ServeFileRound
<1>2. /\ disk' = disk /\ conns' = conns
      /\ saved' = IF to = c THEN saved ELSE [saved EXCEPT ![to][p] = Missing]
  BY <1>1 DEF Round
<1>3. ASSUME NEW d \in Clients, NEW q \in Files, saved'[d][q] # Missing
      PROVE  /\ saved'[d][q] = saved[d][q]
             /\ q \notin Expected(d)' \ Expected(d)
  <2>1. CASE d # to
    BY <1>1, <1>2, <2>1, RoundComing DEF Typed, TypeOK
  <2>2. CASE d = to /\ to = c
    BY <1>1, <1>2, <2>2, RoundComing
  <2>3. CASE d = to /\ to # c
    <3>1. q # p
      BY <1>2, <1>3, <2>3 DEF Typed, TypeOK
    <3> QED
      BY <1>1, <1>2, <2>3, <3>1, RoundComing DEF Typed, TypeOK
  <2> QED
    BY <2>1, <2>2, <2>3
<1> QED
  BY <1>2, <1>3, KeepsSaved

LEMMA ClientKeepsSaved ==
  ASSUME Typed, SavedIsAlone, NEW c \in Clients, ClientThread(c)
  PROVE  SavedIsAlone'
<1>1. CASE ClientCompares(c)
  <2> DEFINE lacking == NotFound(c, Head(toClient[c]).paths)
  <2>1. UNCHANGED <<saved, disk>>
    BY <1>1 DEF ClientCompares
  <2>2. \A p \in lacking : disk[c][p] = Missing
    BY DEF NotFound
  <2>3. /\ \A d \in Clients \ {c} : Expected(d)' = Expected(d)
        /\ Expected(c)' \subseteq Expected(c) \cup lacking
        /\ conns' = conns
    BY <1>1, ComparesComing
  <2> HIDE DEF lacking
  <2>4. ASSUME NEW d \in Clients, NEW p \in Files, saved[d][p] # Missing
        PROVE  p \notin Expected(d)' \ Expected(d)
    <3>1. disk[d][p] # Missing
      BY <2>4 DEF SavedIsAlone
    <3> QED
      BY <2>2, <2>3, <3>1
  <2> QED
    BY <2>1, <2>3, <2>4, KeepsSaved
<1>2. CASE ClientReceives(c) \/ ClientRefuses(c)
  <2> DEFINE m == Head(toClient[c])
  <2>1. /\ m.path \in Files /\ Expected(c) = Expected(c)' \cup {m.path}
        /\ \A d \in Clients \ {c} : Expected(d)' = Expected(d)
        /\ conns' = conns
    BY <1>2, FileMessageComing
  <2>2. saved' = saved
    BY <1>2 DEF ClientReceives, ClientRefuses, ghosts
  <2>3. ASSUME NEW d \in Clients, NEW p \in Files, ~(d = c /\ p = m.path)
        PROVE  disk'[d][p] = disk[d][p]
    <3>1. \/ disk' = [disk EXCEPT ![c][m.path] = Partial]
          \/ disk' = [disk EXCEPT ![c][m.path] = m.data]
          \/ disk' = disk
      BY <1>2
         DEF ClientReceives, ClientRefuses, HeaderOpens, EndCloses, state
    <3> HIDE DEF m
    <3>2. ASSUME NEW v, disk' = [disk EXCEPT ![c][m.path] = v]
          PROVE  disk'[d][p] = disk[d][p]
      BY <2>3, <3>2 DEF Typed, TypeOK, Node
    <3> QED
      BY <3>1, <3>2
  <2>4. ASSUME NEW d \in Clients, NEW p \in Files, saved[d][p] # Missing
        PROVE  ~(d = c /\ p = m.path)
    BY <2>1, <2>4 DEF SavedIsAlone
  <2> HIDE DEF m
  <2> QED
    BY <2>1, <2>2, <2>3, <2>4, KeepsSaved
<1> QED
  BY <1>1, <1>2 DEF ClientThread

LEMMA InitialSaved == Init => SavedIsAlone
BY DEF Init, SavedIsAlone

LEMMA InductiveSaved == Typed /\ SavedIsAlone /\ [Next]_vars => SavedIsAlone'
<1> SUFFICES ASSUME Typed, SavedIsAlone, [Next]_vars PROVE SavedIsAlone'
  OBVIOUS
<1>1. ASSUME NEW c \in Clients,
             Connect(c) \/ CommandLine(c) \/ ServerThread(c) \/ ClientThread(c)
      PROVE  SavedIsAlone'
  BY <1>1, ConnectKeepsSaved, CommandKeepsSaved, ServerKeepsSaved,
     ServeFileKeepsSaved, ClientKeepsSaved DEF ServerThread
<1>2. CASE UNCHANGED vars
  BY <1>2 DEF vars, SavedIsAlone, Expected, ComingFrom, Posted, Asked, Replied
<1> QED
  BY <1>1, <1>2 DEF Next

(* Whatever lists, requests and files cross each other on their way, an    *)
(* integrity check of any number of clients never writes over a file that  *)
(* the user has saved, unless it was saved while an older one was to come; *)
(* with the types.                                                         *)
THEOREM IntegrityIsKept == Spec => []IntegrityInv
<1>1. Spec => [](Typed /\ SavedIsAlone)
  BY InitialTypes, InductiveTypes, InitialSaved, InductiveSaved, PTL DEF Spec
<1>2. Typed /\ SavedIsAlone => IntegrityInv
  BY DEF Typed, SavedIsAlone, IntegrityInv, SavedIsKept
<1> QED
  BY <1>1, <1>2, PTL

------------------------------------------------------------------------------
(* What is promised is brought *)

(* The messages of a file come in pairs, as they were posted, but for the  *)
(* first in a queue, which may have lost its header.                       *)
Paired(s) ==
  /\ \A i \in 1..Len(s) : s[i].type = "FileHeader" =>
       /\ i + 1 \in 1..Len(s)
       /\ s[i + 1].type = "EndOfFile" /\ s[i + 1].path = s[i].path
  /\ \A i \in 2..Len(s) : s[i].type = "EndOfFile" =>
       s[i - 1].type = "FileHeader"

(* s goes on as t, which does not begin with half a file.                  *)
GrowsTo(s, t) ==
  /\ t \in Seq(Msg) /\ t # <<>> /\ Paired(t)
  /\ s # <<>> => Head(t) = Head(s)
  /\ s = <<>> => Head(t).type # "EndOfFile"

LEMMA ListGrows ==
  ASSUME NEW s \in Seq(Msg), Paired(s), NEW m \in Msg, m.type \notin FileType
  PROVE  GrowsTo(s, Append(s, m))
<1> DEFINE t == Append(s, m)
<1>1. /\ t \in Seq(Msg) /\ t # <<>> /\ Len(t) = Len(s) + 1 /\ Len(s) \in Nat
      /\ \A i \in 1..Len(s) : t[i] = s[i]
      /\ t[Len(s) + 1] = m
  BY AppendProperties, LenProperties
<1>2. m.type # "FileHeader" /\ m.type # "EndOfFile"
  BY DEF FileType
<1>3. Head(t) = IF s = <<>> THEN m ELSE Head(s)
  BY HeadTailAppend
<1> HIDE DEF t
<1>4. ASSUME NEW i \in 1..Len(t), t[i].type = "FileHeader"
      PROVE  /\ i + 1 \in 1..Len(t)
             /\ t[i + 1].type = "EndOfFile" /\ t[i + 1].path = t[i].path
  <2>1. i \in 1..Len(s) /\ s[i].type = "FileHeader"
    BY <1>1, <1>2, <1>4
  <2> QED
    BY <1>1, <2>1 DEF Paired
<1>5. ASSUME NEW i \in 2..Len(t), t[i].type = "EndOfFile"
      PROVE  t[i - 1].type = "FileHeader"
  <2>1. i \in 2..Len(s) /\ i - 1 \in 1..Len(s) /\ s[i].type = "EndOfFile"
    BY <1>1, <1>2, <1>5
  <2> QED
    BY <1>1, <2>1 DEF Paired
<1>6. Paired(t)
  BY <1>4, <1>5 DEF Paired
<1> QED
  BY <1>1, <1>2, <1>3, <1>6 DEF GrowsTo, t

LEMMA FileGrows ==
  ASSUME NEW s \in Seq(Msg), Paired(s), NEW p \in Files,
         NEW d \in Content \cup {Partial}
  PROVE  GrowsTo(s, s \o AsMessages(p, d))
<1> DEFINE t == s \o AsMessages(p, d)
           header == [type |-> "FileHeader", path |-> p]
           end == [type |-> "EndOfFile", path |-> p, data |-> d]
<1>1. /\ header.type = "FileHeader" /\ header.path = p
      /\ end.type = "EndOfFile" /\ end.path = p
      /\ header \in Msg /\ end \in Msg /\ AsMessages(p, d) = <<header, end>>
  BY DEF Msg, AsMessages
<1> HIDE DEF header, end
<1>2. t = s \o <<header, end>>
  BY <1>1
<1> HIDE DEF t
<1>3. /\ t \in Seq(Msg) /\ Len(t) = Len(s) + 2 /\ Len(s) \in Nat
      /\ \A i \in 1..Len(s) : t[i] = s[i]
      /\ t[Len(s) + 1] = header /\ t[Len(s) + 2] = end
  <2>1. <<header, end>> \in Seq(Msg) /\ Len(<<header, end>>) = 2
    BY <1>1
  <2>2. /\ t \in Seq(Msg) /\ Len(t) = Len(s) + 2
        /\ \A i \in 1..Len(s) + 2 :
             t[i] = IF i <= Len(s) THEN s[i] ELSE <<header, end>>[i - Len(s)]
    BY <1>2, <2>1, ConcatProperties
  <2>3. Len(s) \in Nat
    BY LenProperties
  <2> QED
    BY <2>2, <2>3
<1>4. t # <<>>
  BY <1>3, EmptySeq
<1>5. Head(t) = t[1]
  BY <1>3, <1>4, HeadTailProperties
<1>6. s # <<>> => Head(t) = Head(s)
  <2>1. ASSUME s # <<>> PROVE 1 \in 1..Len(s) /\ Head(s) = s[1]
    BY <2>1, EmptySeq, HeadTailProperties
  <2> QED
    BY <1>3, <1>5, <2>1
<1>7. s = <<>> => Head(t).type # "EndOfFile"
  BY <1>1, <1>3, <1>5, EmptySeq
<1>8. ASSUME NEW i \in 1..Len(t), t[i].type = "FileHeader"
      PROVE  /\ i + 1 \in 1..Len(t)
             /\ t[i + 1].type = "EndOfFile" /\ t[i + 1].path = t[i].path
  <2>1. CASE i \in 1..Len(s)
    <3>1. s[i].type = "FileHeader"
      BY <1>3, <1>8, <2>1
    <3> QED
      BY <1>3, <2>1, <3>1 DEF Paired
  <2>2. CASE i = Len(s) + 1
    BY <1>1, <1>3, <2>2
  <2> QED
    BY <1>1, <1>3, <1>8, <2>1, <2>2
<1>9. ASSUME NEW i \in 2..Len(t), t[i].type = "EndOfFile"
      PROVE  t[i - 1].type = "FileHeader"
  <2>1. CASE i \in 2..Len(s)
    <3>1. s[i].type = "EndOfFile" /\ i - 1 \in 1..Len(s)
      BY <1>3, <1>9, <2>1
    <3> QED
      BY <1>3, <2>1, <3>1 DEF Paired
  <2>2. CASE i = Len(s) + 2
    BY <1>1, <1>3, <2>2
  <2> QED
    BY <1>1, <1>3, <1>9, <2>1, <2>2
<1> QED
  BY <1>3, <1>4, <1>6, <1>7, <1>8, <1>9 DEF Paired, GrowsTo, t

LEMMA PairedShrinks ==
  ASSUME NEW s \in Seq(Msg), s # <<>>, Paired(s)
  PROVE  /\ Paired(Tail(s)) /\ Tail(s) \in Seq(Msg)
         /\ Head(s).type = "FileHeader" =>
              /\ Tail(s) # <<>> /\ Head(Tail(s)).type = "EndOfFile"
              /\ Head(Tail(s)).path = Head(s).path
         /\ Head(s).type # "FileHeader" /\ Tail(s) # <<>> =>
              Head(Tail(s)).type # "EndOfFile"
<1> DEFINE t == Tail(s)
<1>1. /\ t \in Seq(Msg) /\ Len(t) = Len(s) - 1 /\ Len(s) \in Nat \ {0}
      /\ \A i \in 1..Len(t) : t[i] = s[i + 1]
      /\ Head(s) = s[1]
  BY HeadTailProperties, EmptySeq
<1>2. t # <<>> => Len(t) >= 1 /\ Head(t) = t[1]
  BY <1>1, EmptySeq
<1>3. t = <<>> => Len(t) = 0
  BY EmptySeq
<1> HIDE DEF t
<1>4. ASSUME NEW i \in 1..Len(t), t[i].type = "FileHeader"
      PROVE  /\ i + 1 \in 1..Len(t)
             /\ t[i + 1].type = "EndOfFile" /\ t[i + 1].path = t[i].path
  <2>1. i + 1 \in 1..Len(s) /\ s[i + 1].type = "FileHeader"
    BY <1>1, <1>4
  <2>2. /\ i + 2 \in 1..Len(s) /\ s[i + 2].type = "EndOfFile"
        /\ s[i + 2].path = s[i + 1].path
    BY <1>1, <2>1 DEF Paired
  <2> QED
    BY <1>1, <2>1, <2>2
<1>5. ASSUME NEW i \in 2..Len(t), t[i].type = "EndOfFile"
      PROVE  t[i - 1].type = "FileHeader"
  <2>1. i + 1 \in 2..Len(s) /\ s[i + 1].type = "EndOfFile"
    BY <1>1, <1>5
  <2>2. s[i].type = "FileHeader"
    BY <1>1, <2>1 DEF Paired
  <2> QED
    BY <1>1, <2>2
<1>6. Paired(t)
  BY <1>4, <1>5 DEF Paired
<1>7. ASSUME Head(s).type = "FileHeader"
      PROVE  /\ t # <<>> /\ Head(t).type = "EndOfFile"
             /\ Head(t).path = Head(s).path
  <2>1. /\ 2 \in 1..Len(s) /\ s[2].type = "EndOfFile" /\ s[2].path = s[1].path
    BY <1>1, <1>7 DEF Paired
  <2> QED
    BY <1>1, <1>2, <1>3, <2>1
<1>8. ASSUME Head(s).type # "FileHeader", t # <<>>
      PROVE  Head(t).type # "EndOfFile"
  <2>1. 2 \in 2..Len(s) /\ t[1] = s[2]
    BY <1>1, <1>2, <1>8
  <2> QED
    BY <1>1, <1>2, <1>8, <2>1 DEF Paired
<1> QED
  BY <1>1, <1>6, <1>7, <1>8 DEF t

(* The rest of p is what the queue s begins with. *)
AtHand(s, p) == s # <<>> /\ Head(s).type = "EndOfFile" /\ Head(s).path = p

(* An open file waits for the message at hand; a file whose header was     *)
(* refused, or that is not whole, is known as spoilt.                      *)
InOrder(c) ==
  /\ Paired(toClient[c])
  /\ \A p \in open[c]["client"] : AtHand(toClient[c], p)
  /\ \A p \in Files : AtHand(toClient[c], p) =>
       p \in open[c]["client"] \cup spoilt[c]
  /\ \A m \in ToSet(toClient[c]) :
       m.type = "EndOfFile" /\ m.data \notin Content => m.path \in spoilt[c]
  /\ \A p \in Files : disk[c][p] \in Content \cup {Missing}
                        \/ p \in open[c]["client"] \cup spoilt[c]
FilesInOrder == \A c \in Clients : InOrder(c)

(* A listed file that was promised is there, or it is still to come.       *)
PromisesHold ==
  \A c \in Clients : \A p \in promised[c] :
    /\ conns # <<>> /\ c = Replied
    /\ disk[c][p] \in Content \/ p \in spoilt[c] \cup Expected(c)

(* A blocked client has its handler, and some file is still to come to it  *)
(* if one was sent.                                                        *)
BlockedIsServed ==
  \A c \in Clients : blocked[c] =>
    handler[c] /\ (served[c] # {} => Posted(c) # {})

Serving == FilesInOrder /\ PromisesHold /\ BlockedIsServed

(* A step that sends c nothing, or a list, or a file that is spoilt unless *)
(* it is whole.                                                            *)
LEMMA QuietInOrder ==
  ASSUME NEW c, InOrder(c), toClient'[c] = toClient[c],
         open'[c]["client"] = open[c]["client"], spoilt[c] \subseteq spoilt'[c],
         \A p \in Files : \/ disk'[c][p] = disk[c][p]
                          \/ disk'[c][p] \in Content \cup {Missing}
  PROVE  InOrder(c)'
BY DEF InOrder

LEMMA GrowingInOrder ==
  ASSUME NEW c, InOrder(c), GrowsTo(toClient[c], toClient'[c]),
         open'[c]["client"] = open[c]["client"], spoilt[c] \subseteq spoilt'[c],
         \A p \in Files : disk'[c][p] = disk[c][p],
         \A m \in ToSet(toClient'[c]) \ ToSet(toClient[c]) :
           m.type = "EndOfFile" /\ m.data \notin Content => m.path \in spoilt'[c]
  PROVE  InOrder(c)'
<1>1. \A p : AtHand(toClient'[c], p) <=> AtHand(toClient[c], p)
  BY DEF AtHand, GrowsTo
<1>2. Paired(toClient'[c])
  BY DEF GrowsTo
<1> QED
  BY <1>1, <1>2 DEF InOrder

LEMMA CommandServes ==
  ASSUME Typed, Serving, NEW c \in Clients, CommandLine(c)
  PROVE  Serving'
<1>1. /\ UNCHANGED <<conns, toClient, open, spoilt>>
      /\ \A d \in Clients : \A p \in Files :
           \/ disk'[d][p] = disk[d][p] \/ disk'[d][p] \in Content
           \/ disk'[d][p] = Missing /\ p \notin promised'[d]
      /\ \A d \in Clients : promised'[d] \subseteq promised[d]
  <2>1. CASE Save(c)
    <3>1. PICK p \in Files : disk' = [disk EXCEPT ![c][p] = saves']
      BY <2>1 DEF Save
    <3>2. saves' \in Content
      BY <2>1, IntegrityAssumption DEF Save, Typed, TypeOK, Content
    <3>3. UNCHANGED <<conns, toClient, open, spoilt, promised>>
      BY <2>1 DEF Save
    <3> QED
      BY <3>1, <3>2, <3>3 DEF Typed, TypeOK, Node
  <2>2. CASE Restore(c)
    <3>1. PICK p \in Files :
            /\ disk' = [disk EXCEPT ![c] = Without(@, p)]
            /\ promised' = [promised EXCEPT ![c] = @ \ (Later[p] \cup {p})]
      BY <2>2 DEF Restore
    <3>2. UNCHANGED <<conns, toClient, open, spoilt>>
      BY <2>2 DEF Restore
    <3> QED
      BY <3>1, <3>2 DEF Without, Typed, TypeOK, Node
  <2>3. CASE Check(c)
    BY <2>3 DEF Check
  <2> QED
    BY <2>1, <2>2, <2>3 DEF CommandLine
<1>2. \A d \in Clients : Expected(d)' = Expected(d) /\ Posted(d)' = Posted(d)
  BY CommandComing
<1>3. FilesInOrder'
  BY <1>1, QuietInOrder DEF Serving, FilesInOrder
<1>4. PromisesHold'
  BY <1>1, <1>2 DEF Serving, PromisesHold, Replied, Typed, TypeOK
<1>5. BlockedIsServed'
  <2>1. CASE Check(c)
    BY <1>2, <2>1 DEF Check, Serving, BlockedIsServed, Typed, TypeOK
  <2>2. CASE Save(c) \/ Restore(c)
    BY <1>2, <2>2 DEF Save, Restore, Serving, BlockedIsServed
  <2> QED
    BY <2>1, <2>2 DEF CommandLine
<1> QED
  BY <1>3, <1>4, <1>5 DEF Serving

LEMMA ConnectServes ==
  ASSUME Typed, Serving, NEW c \in Clients, Connect(c)
  PROVE  Serving'
<1>1. UNCHANGED <<toClient, disk, open, spoilt, blocked, handler, served>>
  BY DEF Connect, state
<1>2. \A d \in Clients : promised'[d] = {} /\ Posted(d)' = Posted(d)
  BY ConnectComing DEF Connect
<1> QED
  BY <1>1, <1>2, QuietInOrder
     DEF Serving, FilesInOrder, PromisesHold, BlockedIsServed

LEMMA ServerServes ==
  ASSUME Typed, Serving, NEW c \in Clients,
         \/ ServerReceives(c) \/ ServerRestores(c)
         \/ ServerLists(c) \/ ServerStartsServing(c)
  PROVE  Serving'
<1>1. UNCHANGED <<promised, spoilt, blocked, handler, served>>
  BY DEF ServerReceives, ServerRestores, ServerLists, ServerStartsServing,
         ghosts, state
<1>2. \A d \in Clients : disk'[d] = disk[d]
  BY IntegrityAssumption
     DEF ServerReceives, ServerRestores, ServerLists, ServerStartsServing,
         HeaderOpens, EndCloses, state, Typed, TypeOK, Node
<1>3. \A d \in Clients : open'[d]["client"] = open[d]["client"]
  <2>1. open' = open \/ \E s : open' = [open EXCEPT ![c]["server"] = s]
    BY DEF ServerReceives, ServerRestores, ServerLists, ServerStartsServing,
           HeaderOpens, EndCloses, state
  <2>2. ASSUME NEW s, open' = [open EXCEPT ![c]["server"] = s], NEW d \in Clients
        PROVE  open'[d]["client"] = open[d]["client"]
    BY <2>2 DEF Typed, TypeOK, Side
  <2> QED
    BY <2>1, <2>2
<1>4. ASSUME NEW d \in Clients
      PROVE  InOrder(d)'
  <2>1. InOrder(d)
    BY DEF Serving, FilesInOrder
  <2>2. CASE ServerLists(c) /\ d = Replied
    <3> DEFINE list == [type |-> "List",
                        paths |-> {p \in Files : disk[Server][p] # Missing}]
    <3>1. list \in Msg /\ list.type = "List"
      BY DEF Msg
    <3>2. toClient' = [toClient EXCEPT ![Replied] = Append(@, list)]
      BY <2>2 DEF ServerLists
    <3> HIDE DEF list
    <3>3. toClient'[d] = Append(toClient[d], list) /\ toClient[d] \in Seq(Msg)
      BY <2>2, <3>2 DEF Typed, TypeOK
    <3>4. GrowsTo(toClient[d], toClient'[d])
      BY <2>1, <3>1, <3>3, ListGrows DEF InOrder, FileType
    <3>5. ToSet(toClient'[d]) = ToSet(toClient[d]) \cup {list}
      BY <3>1, <3>3, ToSetFacts
    <3> QED
      BY <1>1, <1>2, <1>3, <2>1, <3>1, <3>4, <3>5, GrowingInOrder
  <2>3. CASE ~(ServerLists(c) /\ d = Replied)
    <3>1. toClient'[d] = toClient[d]
      BY <2>3 DEF ServerReceives, ServerRestores, ServerLists,
                  ServerStartsServing, Typed, TypeOK
    <3> QED
      BY <1>1, <1>2, <1>3, <2>1, <3>1, QuietInOrder
  <2> QED
    BY <2>2, <2>3
<1>5. PromisesHold'
  BY <1>1, <1>2, ServerComing DEF Serving, PromisesHold, Typed, TypeOK
<1>6. BlockedIsServed'
  BY <1>1, ServerComing DEF Serving, BlockedIsServed
<1> QED
  BY <1>4, <1>5, <1>6 DEF Serving, FilesInOrder

LEMMA ServeFileServes ==
  ASSUME Typed, Serving, NEW c \in Clients, ServeFile(c)
  PROVE  Serving'
<1>1. PICK p \in Files, to \in Clients : Round(c, p, to) /\ conns # <<>>
  BY ServeFileRound
<1>2. UNCHANGED <<disk, open, promised, blocked, handler>>
  BY <1>1 DEF Round
<1>3. /\ \A d \in Clients : spoilt[d] \subseteq spoilt'[d]
      /\ disk[Server][p] \notin Content => p \in spoilt'[to]
  BY <1>1 DEF Round, Typed, TypeOK
<1>4. ASSUME NEW d \in Clients
      PROVE  InOrder(d)'
  <2>1. InOrder(d)
    BY DEF Serving, FilesInOrder
  <2>2. CASE d = to /\ disk[Server][p] # Missing
    <3> DEFINE t == toClient[d] \o AsMessages(p, disk[Server][p])
    <3>1. toClient'[d] = t /\ toClient[d] \in Seq(Msg)
      BY <1>1, <2>2 DEF Round, Typed, TypeOK
    <3>2. disk[Server][p] \in Content \cup {Partial}
      BY <2>2 DEF Typed, TypeOK, Node
    <3>3. GrowsTo(toClient[d], toClient'[d])
      BY <2>1, <3>1, <3>2, FileGrows DEF InOrder
    <3>4. /\ AsMessages(p, disk[Server][p]) \in Seq(Msg)
          /\ \A m \in ToSet(AsMessages(p, disk[Server][p])) :
               m.type = "EndOfFile" =>
                 m.path = p /\ m.data = disk[Server][p]
      BY <3>2 DEF AsMessages, Msg, ToSet
    <3>5. ToSet(t) = ToSet(toClient[d])
                       \cup ToSet(AsMessages(p, disk[Server][p]))
      BY <3>1, <3>4, ToSetFacts
    <3>6. \A m \in ToSet(toClient'[d]) \ ToSet(toClient[d]) :
            m.type = "EndOfFile" /\ m.data \notin Content => m.path \in spoilt'[d]
      BY <1>3, <2>2, <3>1, <3>4, <3>5
    <3> QED
      BY <1>2, <1>3, <2>1, <3>3, <3>6, GrowingInOrder
  <2>3. CASE ~(d = to /\ disk[Server][p] # Missing)
    <3>1. toClient'[d] = toClient[d]
      BY <1>1, <2>3 DEF Round, Typed, TypeOK
    <3> QED
      BY <1>2, <1>3, <2>1, <3>1, QuietInOrder
  <2> QED
    BY <2>2, <2>3
<1>5. disk[Server][p] \in Content => p \in Expected(to)'
  <2>1. disk[Server][p] \in Content => disk[Server][p] # Missing
    BY IntegrityAssumption
  <2>2. Posted(to)' \subseteq Expected(to)'
    BY ExpectedIsNext, PostedNext
  <2> QED
    BY <1>1, <2>1, <2>2, RoundComing
<1>6. PromisesHold'
  <2>1. ASSUME NEW d \in Clients, NEW q \in promised'[d]
        PROVE  /\ conns' # <<>> /\ d = Replied'
               /\ disk'[d][q] \in Content \/ q \in spoilt'[d] \cup Expected(d)'
    <3>1. /\ conns # <<>> /\ d = Replied
          /\ disk[d][q] \in Content \/ q \in spoilt[d] \cup Expected(d)
      BY <1>2, <2>1 DEF Serving, PromisesHold
    <3>2. conns' = conns /\ Replied' = to /\ d = to
      BY <1>1, <3>1, RoundComing
    <3>3. Expected(to) \subseteq Expected(to)' \cup {p}
      BY <1>1, RoundComing
    <3> QED
      BY <1>2, <1>3, <1>5, <3>1, <3>2, <3>3
  <2> QED
    BY <2>1 DEF PromisesHold
<1>7. BlockedIsServed'
  <2>1. ASSUME NEW d \in Clients, served'[d] # {}
        PROVE  (served[d] # {} => Posted(d) # {}) => Posted(d)' # {}
    <3>1. CASE d = to /\ disk[Server][p] # Missing
      BY <1>1, <3>1, RoundComing
    <3>2. CASE ~(d = to /\ disk[Server][p] # Missing)
      <4>1. served'[d] = served[d]
        BY <1>1, <3>2 DEF Round, Typed, TypeOK
      <4>2. Posted(d)' = Posted(d)
        BY <1>1, <3>2, RoundComing
      <4> QED
        BY <2>1, <4>1, <4>2
    <3> QED
      BY <3>1, <3>2
  <2> QED
    BY <1>2, <2>1 DEF Serving, BlockedIsServed
<1> QED
  BY <1>4, <1>6, <1>7 DEF Serving, FilesInOrder

LEMMA ComparesServes ==
  ASSUME Typed, Serving, NEW c \in Clients, ClientCompares(c)
  PROVE  Serving'
<1> DEFINE s == toClient[c]
           paths == Head(toClient[c]).paths
           lacking == NotFound(c, paths)
<1>1. s \in Seq(Msg) /\ s # <<>> /\ Head(s).type = "List"
  BY NextToTypes DEF ClientCompares
<1>2. /\ toClient' = [toClient EXCEPT ![c] = Tail(@)]
      /\ UNCHANGED <<conns, disk, open, blocked, handler, spoilt, served>>
      /\ promised' = IF handler[c] /\ c = Replied
                     THEN [promised EXCEPT ![c] = @ \cup paths] ELSE promised
  BY DEF ClientCompares, NextTo
<1>3. /\ \A d \in Clients : Posted(d)' = Posted(d)
      /\ \A d \in Clients \ {c} : Expected(d)' = Expected(d)
      /\ paths \subseteq Files
      /\ Expected(c) \subseteq Expected(c)'
      /\ handler[c] /\ c = Replied => lacking \subseteq Expected(c)'
      /\ Replied' = Replied /\ conns # <<>>
  BY ComparesComing
<1>4. InOrder(c)
  BY DEF Serving, FilesInOrder
<1>5. open[c]["client"] = {}
  BY <1>1, <1>4 DEF InOrder, AtHand
<1>6. \A p \in paths : p \notin lacking => disk[c][p] # Missing
  BY DEF NotFound
<1> HIDE DEF lacking, paths
<1>7. ASSUME NEW d \in Clients
      PROVE  InOrder(d)'
  <2>1. CASE d = c
    <3>1. toClient'[c] = Tail(s)
      BY <1>2 DEF Typed, TypeOK
    <3>2. Paired(Tail(s)) /\ (Tail(s) # <<>> => Head(Tail(s)).type # "EndOfFile")
      BY <1>1, <1>4, PairedShrinks DEF InOrder
    <3>3. ToSet(Tail(s)) \subseteq ToSet(s)
      BY <1>1, ToSetFacts
    <3> HIDE DEF s
    <3>4. \A p : ~AtHand(toClient'[c], p)
      BY <3>1, <3>2 DEF AtHand
    <3>5. \A m \in ToSet(toClient'[c]) : m \in ToSet(toClient[c])
      BY <3>1, <3>3 DEF s
    <3> QED
      BY <1>2, <1>4, <1>5, <2>1, <3>1, <3>2, <3>4, <3>5 DEF InOrder
  <2>2. CASE d # c
    <3>1. toClient'[d] = toClient[d] /\ InOrder(d)
      BY <1>2, <2>2 DEF Serving, FilesInOrder, Typed, TypeOK
    <3> QED
      BY <1>2, <3>1, QuietInOrder
  <2> QED
    BY <2>1, <2>2
<1>8. PromisesHold'
  <2>1. ASSUME NEW d \in Clients, NEW p \in promised'[d]
        PROVE  /\ conns' # <<>> /\ d = Replied'
               /\ disk'[d][p] \in Content \/ p \in spoilt'[d] \cup Expected(d)'
    <3>1. CASE p \in promised[d]
      BY <1>2, <1>3, <3>1 DEF Serving, PromisesHold
    <3>2. CASE p \notin promised[d]
      <4>1. d = c /\ p \in paths /\ handler[c] /\ c = Replied
        BY <1>2, <2>1, <3>2 DEF Typed, TypeOK
      <4>2. CASE p \in lacking
        BY <1>2, <1>3, <4>1, <4>2
      <4>3. CASE p \notin lacking
        <5>1. disk[c][p] \in Content \/ p \in spoilt[c]
          BY <1>3, <1>4, <1>5, <1>6, <4>1, <4>3 DEF InOrder
        <5> QED
          BY <1>2, <1>3, <4>1, <5>1
      <4> QED
        BY <4>2, <4>3
    <3> QED
      BY <3>1, <3>2
  <2> QED
    BY <2>1 DEF PromisesHold
<1>9. BlockedIsServed'
  BY <1>2, <1>3 DEF Serving, BlockedIsServed
<1> QED
  BY <1>7, <1>8, <1>9 DEF Serving, FilesInOrder

(* What the handlers of a file's messages have in common.                  *)
LEMMA FileMessageServes ==
  ASSUME Typed, Serving, NEW c \in Clients,
         toClient[c] # <<>>, toClient[c] \in Seq(Msg),
         NEW p \in Files, Head(toClient[c]).path = p,
         toClient' = [toClient EXCEPT ![c] = Tail(@)],
         UNCHANGED <<conns, promised, served, handler>>,
         Expected(c) = Expected(c)' \cup {p},
         \A d \in Clients \ {c} :
           Posted(d)' = Posted(d) /\ Expected(d)' = Expected(d),
         Replied' = Replied,
         \A d \in Clients : \A q \in Files :
           ~(d = c /\ q = p) => disk'[d][q] = disk[d][q],
         \A d \in Clients \ {c} : /\ open'[d]["client"] = open[d]["client"]
                                  /\ blocked'[d] = blocked[d]
                                  /\ spoilt'[d] = spoilt[d],
         spoilt[c] \subseteq spoilt'[c],
         InOrder(c)',
         disk'[c][p] \in Content \/ p \in spoilt'[c] \cup Expected(c)',
         blocked'[c] => blocked[c] /\ Posted(c)' # {}
  PROVE  Serving'
<1>1. ASSUME NEW d \in Clients \ {c}
      PROVE  InOrder(d)'
  <2>1. toClient'[d] = toClient[d] /\ InOrder(d)
    BY DEF Serving, FilesInOrder, Typed, TypeOK
  <2> QED
    BY <2>1, QuietInOrder
<1>2. PromisesHold'
  <2>1. ASSUME NEW d \in Clients, NEW q \in promised[d]
        PROVE  /\ conns' # <<>> /\ d = Replied'
               /\ disk'[d][q] \in Content \/ q \in spoilt'[d] \cup Expected(d)'
    <3>1. /\ conns # <<>> /\ d = Replied /\ q \in Files
          /\ disk[d][q] \in Content \/ q \in spoilt[d] \cup Expected(d)
      BY DEF Serving, PromisesHold, Typed, TypeOK
    <3>2. CASE d = c /\ q = p
      BY <3>1, <3>2
    <3>3. CASE ~(d = c /\ q = p)
      BY <3>1, <3>3
    <3> QED
      BY <3>2, <3>3
  <2> QED
    BY <2>1 DEF PromisesHold
<1>3. BlockedIsServed'
  BY DEF Serving, BlockedIsServed
<1> QED
  BY <1>1, <1>2, <1>3 DEF Serving, FilesInOrder

(* After a header the rest of the file is at hand.                         *)
LEMMA HeaderIsFollowed ==
  ASSUME NEW c \in Clients, InOrder(c),
         toClient[c] # <<>>, toClient[c] \in Seq(Msg),
         Head(toClient[c]).type = "FileHeader",
         toClient'[c] = Tail(toClient[c])
  PROVE  LET p == Head(toClient[c]).path IN
         /\ open[c]["client"] = {} /\ Paired(toClient'[c])
         /\ \A q : AtHand(toClient'[c], q) <=> q = p
         /\ p \in Posted(c)' /\ p \in Expected(c)'
         /\ ToSet(toClient'[c]) \subseteq ToSet(toClient[c])
<1> DEFINE p == Head(toClient[c]).path
           t == Tail(toClient[c])
<1>1. open[c]["client"] = {}
  BY DEF InOrder, AtHand
<1>2. /\ Paired(t) /\ t \in Seq(Msg) /\ t # <<>>
      /\ Head(t).type = "EndOfFile" /\ Head(t).path = p
  BY PairedShrinks DEF InOrder
<1>3. ToSet(t) \subseteq ToSet(toClient[c])
  BY ToSetFacts
<1>4. FilePaths(t) = FilePaths(Tail(t)) \cup
        (IF Head(t).type \in FileType THEN {Head(t).path} ELSE {})
  BY <1>2, MessageFacts
<1>5. p \in FilePaths(t)
  BY <1>2, <1>4 DEF FileType
<1>6. p \in Posted(c)' /\ p \in Expected(c)'
  BY <1>5, PostedNext, ExpectedIsNext
<1>7. \A q : AtHand(toClient'[c], q) <=> q = p
  BY <1>2 DEF AtHand
<1> QED
  BY <1>1, <1>2, <1>3, <1>6, <1>7

LEMMA ReceivesServes ==
  ASSUME Typed, Serving, NEW c \in Clients, ClientReceives(c)
  PROVE  Serving'
<1> DEFINE s == toClient[c]
           m == Head(toClient[c])
           p == Head(toClient[c]).path
<1>1. /\ toClient[c] # <<>> /\ toClient[c] \in Seq(Msg)
      /\ toClient' = [toClient EXCEPT ![c] = Tail(@)]
      /\ toClient'[c] = Tail(toClient[c])
      /\ UNCHANGED <<conns, promised, served, handler, spoilt>>
  BY DEF ClientReceives, NextTo, ghosts, Typed, TypeOK
<1>2. /\ m \in Msg /\ p \in Files /\ Expected(c) = Expected(c)' \cup {p}
      /\ \A d \in Clients \ {c} :
           Posted(d)' = Posted(d) /\ Expected(d)' = Expected(d)
      /\ Replied' = Replied
  BY FileMessageComing
<1>3. InOrder(c)
  BY DEF Serving, FilesInOrder
<1>4. /\ \A d \in Clients \ {c} : blocked'[d] = blocked[d]
      /\ blocked'[c] => blocked[c] /\ (handler[c] => open'[c]["client"] # {})
  BY DEF ClientReceives, Unblock, Completed, Typed, TypeOK
<1>5. CASE m.type = "FileHeader"
  <2>1. HeaderOpens(c, "client", c, m)
    BY <1>5 DEF ClientReceives, NextTo
  <2>2. /\ disk'[c][p] = Partial
        /\ \A d \in Clients : \A q \in Files :
             ~(d = c /\ q = p) => disk'[d][q] = disk[d][q]
    <3>1. disk' = [disk EXCEPT ![c][p] = Partial]
      BY <2>1 DEF HeaderOpens
    <3> HIDE DEF p
    <3> QED
      BY <1>2, <3>1 DEF Typed, TypeOK, Node
  <2>3. /\ open'[c]["client"] = open[c]["client"] \cup {p}
        /\ \A d \in Clients \ {c} : open'[d]["client"] = open[d]["client"]
    <3>1. open' = [open EXCEPT ![c]["client"] = @ \cup {p}]
      BY <2>1 DEF HeaderOpens
    <3> HIDE DEF p
    <3> QED
      BY <3>1 DEF Typed, TypeOK, Side
  <2>4. /\ open[c]["client"] = {} /\ Paired(toClient'[c])
        /\ \A q : AtHand(toClient'[c], q) <=> q = p
        /\ p \in Posted(c)' /\ p \in Expected(c)'
        /\ ToSet(toClient'[c]) \subseteq ToSet(toClient[c])
    BY <1>1, <1>3, <1>5, HeaderIsFollowed
  <2> HIDE DEF p, m
  <2>5. InOrder(c)'
    BY <1>1, <1>3, <2>2, <2>3, <2>4 DEF InOrder
  <2> QED
    BY <1>1, <1>2, <1>4, <2>2, <2>3, <2>4, <2>5, FileMessageServes, ZenonT(40) DEF p
<1>6. CASE m.type = "EndOfFile"
  <2>1. EndCloses(c, "client", c, m) /\ m \in ToSet(s)
    BY <1>1, <1>6, ToSetFacts DEF ClientReceives, NextTo
  <2>2. AtHand(s, p)
    BY <1>1, <1>6 DEF AtHand
  <2>3. \A q : AtHand(s, q) => q = p
    BY DEF AtHand
  <2>4. /\ open'[c]["client"] = open[c]["client"] \ {p}
        /\ \A d \in Clients \ {c} : open'[d]["client"] = open[d]["client"]
    <3>1. open' = [open EXCEPT ![c]["client"] = @ \ {p}]
      BY <2>1 DEF EndCloses
    <3> HIDE DEF p
    <3> QED
      BY <3>1 DEF Typed, TypeOK, Side
  <2>5. open[c]["client"] \subseteq {p} /\ open'[c]["client"] = {}
    BY <1>3, <2>3, <2>4 DEF InOrder
  <2>6. /\ Paired(Tail(s)) /\ (Tail(s) # <<>> => Head(Tail(s)).type # "EndOfFile")
    BY <1>1, <1>3, <1>6, PairedShrinks DEF InOrder
  <2>7. ToSet(Tail(s)) \subseteq ToSet(s)
    BY <1>1, ToSetFacts
  <2>8. \A q : ~AtHand(toClient'[c], q)
    BY <1>1, <2>6 DEF AtHand
  <2>9. /\ disk'[c][p] \in Content \/ p \in spoilt[c]
        /\ \A d \in Clients : \A q \in Files :
             ~(d = c /\ q = p) => disk'[d][q] = disk[d][q]
    <3>1. CASE p \in open[c]["client"]
      <4>1. disk' = [disk EXCEPT ![c][p] = m.data]
        BY <2>1, <3>1 DEF EndCloses
      <4>2. m.data \in Content \/ p \in spoilt[c]
        BY <1>3, <1>6, <2>1 DEF InOrder
      <4> HIDE DEF p, m
      <4> QED
        BY <1>2, <4>1, <4>2 DEF Typed, TypeOK, Node
    <3>2. CASE p \notin open[c]["client"]
      <4>1. disk' = disk
        BY <2>1, <3>2 DEF EndCloses
      <4>2. p \in spoilt[c]
        BY <1>2, <1>3, <2>2, <3>2 DEF InOrder
      <4> QED
        BY <4>1, <4>2
    <3> QED
      BY <3>1, <3>2
  <2>10. InOrder(c)'
    <3>1. ASSUME NEW q \in Files
          PROVE  disk'[c][q] \in Content \cup {Missing} \/ q \in spoilt'[c]
      <4>1. CASE q = p
        BY <1>1, <2>9, <4>1
      <4>2. CASE q # p
        BY <1>1, <1>3, <2>5, <2>9, <4>2 DEF InOrder
      <4> QED
        BY <4>1, <4>2
    <3> HIDE DEF p, m, s
    <3>2. Paired(toClient'[c])
      BY <1>1, <2>6 DEF s
    <3>3. \A n \in ToSet(toClient'[c]) : n \in ToSet(toClient[c])
      BY <1>1, <2>7 DEF s
    <3> QED
      BY <1>1, <1>3, <2>5, <2>8, <3>1, <3>2, <3>3 DEF InOrder
  <2>11. blocked'[c] => blocked[c] /\ Posted(c)' # {}
    BY <1>4, <2>5 DEF Serving, BlockedIsServed
  <2> HIDE DEF m, s
  <2> QED
    BY <1>1, <1>2, <1>4, <2>4, <2>9, <2>10, <2>11, FileMessageServes
<1> QED
  BY <1>5, <1>6 DEF ClientReceives, NextTo

LEMMA RefusesServes ==
  ASSUME Typed, Serving, NEW c \in Clients, ClientRefuses(c)
  PROVE  Serving'
<1> DEFINE p == Head(toClient[c]).path
<1>1. /\ toClient[c] # <<>> /\ toClient[c] \in Seq(Msg)
      /\ Head(toClient[c]).type = "FileHeader"
      /\ toClient' = [toClient EXCEPT ![c] = Tail(@)]
      /\ toClient'[c] = Tail(toClient[c])
      /\ UNCHANGED <<conns, promised, served, handler, disk, open, blocked>>
      /\ spoilt' = [spoilt EXCEPT ![c] = @ \cup {p}]
  BY DEF ClientRefuses, NextTo, state, Typed, TypeOK
<1>2. /\ p \in Files /\ Expected(c) = Expected(c)' \cup {p}
      /\ \A d \in Clients \ {c} :
           Posted(d)' = Posted(d) /\ Expected(d)' = Expected(d)
      /\ Replied' = Replied
  BY FileMessageComing
<1>3. InOrder(c)
  BY DEF Serving, FilesInOrder
<1>4. /\ open[c]["client"] = {} /\ Paired(toClient'[c])
      /\ \A q : AtHand(toClient'[c], q) <=> q = p
      /\ p \in Posted(c)' /\ p \in Expected(c)'
      /\ ToSet(toClient'[c]) \subseteq ToSet(toClient[c])
  BY <1>1, <1>3, HeaderIsFollowed
<1>5. /\ spoilt'[c] = spoilt[c] \cup {p}
      /\ \A d \in Clients \ {c} : spoilt'[d] = spoilt[d]
  BY <1>1 DEF Typed, TypeOK
<1> HIDE DEF p
<1>6. InOrder(c)'
  BY <1>1, <1>3, <1>4, <1>5 DEF InOrder
<1> QED
  BY <1>1, <1>2, <1>4, <1>5, <1>6, FileMessageServes DEF p

LEMMA InitialServing == Init => Serving
<1> SUFFICES ASSUME Init PROVE Serving
  OBVIOUS
<1>1. Len(<<>>) = 0 /\ ToSet(<<>>) = {}
  BY EmptySeq, ToSetFacts
<1>2. Paired(<<>>)
  BY <1>1 DEF Paired
<1>3. 0 \in Content
  BY IntegrityAssumption DEF Content
<1>4. FilesInOrder
  BY <1>1, <1>2, <1>3 DEF Init, FilesInOrder, InOrder, AtHand, Side, Node
<1> QED
  BY <1>4 DEF Init, Serving, PromisesHold, BlockedIsServed

LEMMA InductiveServing == Typed /\ Serving /\ [Next]_vars => Serving'
<1> SUFFICES ASSUME Typed, Serving, [Next]_vars PROVE Serving'
  OBVIOUS
<1>1. ASSUME NEW c \in Clients,
             Connect(c) \/ CommandLine(c) \/ ServerThread(c) \/ ClientThread(c)
      PROVE  Serving'
  BY <1>1, ConnectServes, CommandServes, ServerServes, ServeFileServes,
     ComparesServes, ReceivesServes, RefusesServes
     DEF ServerThread, ClientThread
<1>2. CASE UNCHANGED vars
  BY <1>2 DEF vars, Serving, FilesInOrder, InOrder, PromisesHold,
              BlockedIsServed, Expected, ComingFrom, Posted, Asked, Replied
<1> QED
  BY <1>1, <1>2 DEF Next

LEMMA AlwaysServing == Spec => [](Typed /\ Serving)
BY InitialTypes, InductiveTypes, InitialServing, InductiveServing, PTL DEF Spec

(* When all is handled there is nothing to come.                           *)
LEMMA QuiescentExpectsNothing ==
  ASSUME Quiescent, NEW c \in Clients
  PROVE  Expected(c) = {} /\ Posted(c) = {}
<1>1. FilePaths(<<>>) = {} /\ AskedIn(<<>>) = {}
  BY MessageFacts, EmptySeq
<1> QED
  BY <1>1, ExpectedIs, InTheseTerms DEF Quiescent

(* A check brings what it is for: with any number of clients that ask,     *)
(* save and restore meanwhile, once all is handled the client that the     *)
(* server replies to has every file of the list, unless it was refused or  *)
(* was not whole on the server.                                            *)
THEOREM CheckBringsTheFiles == Spec => []ListedIsThere
<1>1. Typed /\ Serving => ListedIsThere
  BY QuiescentExpectsNothing DEF Serving, PromisesHold, ListedIsThere
<1> QED
  BY <1>1, AlwaysServing, PTL

(* A client that stays blocked was sent nothing since its last check.      *)
THEOREM BlockedForNothing == Spec => []BlockedWasServedNothing
<1>1. Typed /\ Serving => BlockedWasServedNothing
  BY QuiescentExpectsNothing
     DEF Serving, BlockedIsServed, BlockedWasServedNothing
<1> QED
  BY <1>1, AlwaysServing, PTL

------------------------------------------------------------------------------
(* One file at a time *)

AtMostOne(s, type) ==
  \A i, j \in 1..Len(s) : s[i].type = type /\ s[j].type = type => i = j
NoneOf(s, type) == \A m \in ToSet(s) : m.type # type

LEMMA AtMostOneGrows ==
  ASSUME NEW s \in Seq(Msg), NEW m \in Msg, NEW type, AtMostOne(s, type),
         m.type # type \/ NoneOf(s, type)
  PROVE  AtMostOne(Append(s, m), type)
<1> DEFINE t == Append(s, m)
<1>1. /\ Len(t) = Len(s) + 1 /\ Len(s) \in Nat /\ t[Len(s) + 1] = m
      /\ \A i \in 1..Len(s) : t[i] = s[i] /\ s[i] \in ToSet(s)
  BY AppendProperties, LenProperties, Members
<1> HIDE DEF t
<1>2. ASSUME NEW i \in 1..Len(t), NEW j \in 1..Len(t),
             t[i].type = type, t[j].type = type
      PROVE  i = j
  <2>1. CASE i \in 1..Len(s) /\ j \in 1..Len(s)
    BY <1>1, <1>2, <2>1 DEF AtMostOne
  <2>2. CASE i = Len(s) + 1 /\ j = Len(s) + 1
    BY <2>2
  <2>3. CASE i = Len(s) + 1 /\ j \in 1..Len(s)
    BY <1>1, <1>2, <2>3 DEF NoneOf
  <2>4. CASE j = Len(s) + 1 /\ i \in 1..Len(s)
    BY <1>1, <1>2, <2>4 DEF NoneOf
  <2> QED
    BY <1>1, <2>1, <2>2, <2>3, <2>4
<1> QED
  BY <1>2 DEF AtMostOne, t

LEMMA AtMostOneShrinks ==
  ASSUME NEW s \in Seq(Msg), s # <<>>, NEW type, AtMostOne(s, type)
  PROVE  /\ AtMostOne(Tail(s), type)
         /\ Head(s).type = type => NoneOf(Tail(s), type)
<1> DEFINE t == Tail(s)
<1>1. /\ t \in Seq(Msg) /\ Len(t) = Len(s) - 1 /\ Len(s) \in Nat \ {0}
      /\ \A i \in 1..Len(t) : t[i] = s[i + 1]
      /\ Head(s) = s[1]
  BY HeadTailProperties, EmptySeq
<1>2. \A m \in ToSet(t) : \E i \in 1..Len(t) : t[i] = m
  BY <1>1, Members, ZenonT(40)
<1> HIDE DEF t
<1>3. ASSUME NEW i \in 1..Len(t), NEW j \in 1..Len(t),
             t[i].type = type, t[j].type = type
      PROVE  i = j
  <2>1. i + 1 \in 1..Len(s) /\ j + 1 \in 1..Len(s)
    BY <1>1
  <2>2. i + 1 = j + 1
    BY <1>1, <1>3, <2>1 DEF AtMostOne
  <2> QED
    BY <2>2
<1>4. ASSUME Head(s).type = type, NEW m \in ToSet(t), m.type = type
      PROVE  FALSE
  <2>1. PICK i \in 1..Len(t) : t[i] = m
    BY <1>2
  <2>2. i + 1 \in 1..Len(s) /\ 1 \in 1..Len(s) /\ s[i + 1].type = type
    BY <1>1, <1>4, <2>1
  <2>3. i + 1 = 1
    BY <1>1, <1>4, <2>2 DEF AtMostOne
  <2> QED
    BY <2>3
<1> QED
  BY <1>3, <1>4 DEF AtMostOne, NoneOf, t

(* A file is two messages, and only one of them ends it.                   *)
LEMMA AtMostOneFile ==
  ASSUME NEW s \in Seq(Msg), NEW p \in Files, NEW d \in Content \cup {Partial}
  PROVE  LET t == s \o AsMessages(p, d) IN
         /\ AtMostOne(s, "RequestFiles") => AtMostOne(t, "RequestFiles")
         /\ AtMostOne(s, "EndOfFile") /\ NoneOf(s, "EndOfFile") =>
              AtMostOne(t, "EndOfFile")
         /\ \A m \in ToSet(t) : m.type = "RequestFiles" => m \in ToSet(s)
<1> DEFINE header == [type |-> "FileHeader", path |-> p]
           end == [type |-> "EndOfFile", path |-> p, data |-> d]
<1>1. /\ header.type = "FileHeader" /\ end.type = "EndOfFile"
      /\ header \in Msg /\ end \in Msg /\ AsMessages(p, d) = <<header, end>>
  BY DEF Msg, AsMessages
<1> HIDE DEF header, end
<1>2. s \o AsMessages(p, d) = Append(Append(s, header), end)
  BY <1>1
<1>3. /\ Append(s, header) \in Seq(Msg)
      /\ ToSet(Append(s, header)) = ToSet(s) \cup {header}
      /\ ToSet(Append(Append(s, header), end)) = ToSet(s) \cup {header, end}
  <2>1. /\ Append(s, header) \in Seq(Msg)
        /\ ToSet(Append(s, header)) = ToSet(s) \cup {header}
    BY <1>1, AppendProperties, ToSetFacts
  <2> DEFINE t == Append(s, header)
  <2> HIDE DEF t
  <2>2. ToSet(Append(t, end)) = ToSet(t) \cup {end}
    <3>1. t \in Seq(Msg)
      BY <2>1 DEF t
    <3> QED
      BY <1>1, <3>1, ToSetFacts
  <2> QED
    BY <2>1, <2>2 DEF t
<1>4. ASSUME AtMostOne(s, "RequestFiles")
      PROVE  AtMostOne(Append(Append(s, header), end), "RequestFiles")
  BY <1>1, <1>3, <1>4, AtMostOneGrows
<1>5. ASSUME AtMostOne(s, "EndOfFile"), NoneOf(s, "EndOfFile")
      PROVE  AtMostOne(Append(Append(s, header), end), "EndOfFile")
  <2>1. AtMostOne(Append(s, header), "EndOfFile")
    BY <1>1, <1>5, AtMostOneGrows
  <2>2. NoneOf(Append(s, header), "EndOfFile")
    BY <1>1, <1>3, <1>5 DEF NoneOf
  <2> QED
    BY <1>1, <1>3, <2>1, <2>2, AtMostOneGrows
<1> QED
  BY <1>1, <1>2, <1>3, <1>4, <1>5

(* Requests name files.  A client that is not unblocked early is blocked   *)
(* while a file is to come to it, of which there is at most one: asked     *)
(* for, in the loop of its server thread, or posted.                       *)
OneFile(c) ==
  /\ AtMostOne(toClient[c], "EndOfFile")
  /\ Expected(c) # {} => blocked[c]
  /\ conns # <<>> /\ c = Replied =>
       /\ AtMostOne(toServer[c], "RequestFiles")
       /\ NoneOf(toServer[c], "RequestFiles") \/ serving[c] = {}
       /\ Asked(c) # {} => Posted(c) = {}
       /\ \A p, q \in Asked(c) : p = q
RequestsName ==
  \A c \in Clients : \A m \in ToSet(toServer[c]) :
    m.type = "RequestFiles" => m.paths # {}
OneFileAtATime == RequestsName /\ \A c \in Clients \ early : OneFile(c)

LEMMA AskedNext == \A c : Asked(c)' = serving'[c] \cup AskedIn(toServer'[c])
BY DEF Asked, AskedIn

(* A client for which less is to come, as it loses no block.               *)
LEMMA LessIsOneFile ==
  ASSUME NEW c, OneFile(c), AtMostOne(toClient'[c], "EndOfFile"),
         Expected(c)' \subseteq Expected(c), blocked[c] => blocked'[c],
         Posted(c)' \subseteq Posted(c),
         UNCHANGED <<conns, Replied>>,
         \/ c # Replied
         \/ /\ Asked(c)' \subseteq Asked(c)
            /\ AtMostOne(toServer'[c], "RequestFiles")
            /\ NoneOf(toServer'[c], "RequestFiles") \/ serving'[c] = {}
  PROVE  OneFile(c)'
BY DEF OneFile

LEMMA ConnectOneFile ==
  ASSUME Typed, OneFileAtATime, NEW c \in Clients, Connect(c)
  PROVE  OneFileAtATime'
<1>1. UNCHANGED <<toServer, toClient, serving, blocked, early>>
  BY DEF Connect, state
<1>2. toServer[c] = <<>> /\ toClient[c] = <<>> /\ serving[c] = {}
  BY DEF Connect, Typed, StrangersAreQuiet
<1>3. /\ FilePaths(<<>>) = {} /\ AskedIn(<<>>) = {}
      /\ Len(<<>>) = 0 /\ ToSet(<<>>) = {}
  BY MessageFacts, EmptySeq, ToSetFacts
<1>4. Posted(c)' = {} /\ Asked(c)' = {}
  BY <1>1, <1>2, <1>3, PostedNext, AskedNext
<1>5. AtMostOne(<<>>, "RequestFiles") /\ NoneOf(<<>>, "RequestFiles")
  BY <1>3 DEF AtMostOne, NoneOf
<1>6. ASSUME NEW d \in Clients \ early
      PROVE  OneFile(d)'
  <2>1. OneFile(d)
    BY DEF OneFileAtATime
  <2>2. Expected(d)' \subseteq Expected(d) /\ Replied' = c
    BY ConnectComing
  <2> QED
    BY <1>1, <1>2, <1>4, <1>5, <2>1, <2>2 DEF OneFile
<1> QED
  BY <1>1, <1>6 DEF OneFileAtATime, RequestsName

(* What the commands post are no requests.                                 *)
LEMMA CommandAsksNothing ==
  ASSUME Typed, NEW c \in Clients, CommandLine(c), NEW d \in Clients
  PROVE  /\ AtMostOne(toServer[d], "RequestFiles") =>
              AtMostOne(toServer'[d], "RequestFiles")
         /\ \A m \in ToSet(toServer'[d]) :
              m.type = "RequestFiles" => m \in ToSet(toServer[d])
<1>1. toServer[c] \in Seq(Msg)
  BY DEF Typed, TypeOK
<1>2. CASE d # c
  <2>1. toServer'[d] = toServer[d]
    BY <1>2 DEF CommandLine, Save, Restore, Check, Typed, TypeOK
  <2> QED
    BY <2>1
<1>3. ASSUME NEW m \in Msg, m.type # "RequestFiles",
             toServer' = [toServer EXCEPT ![c] = Append(@, m)], d = c
      PROVE  /\ AtMostOne(toServer[d], "RequestFiles") =>
                  AtMostOne(toServer'[d], "RequestFiles")
             /\ \A n \in ToSet(toServer'[d]) :
                  n.type = "RequestFiles" => n \in ToSet(toServer[d])
  <2>1. toServer'[d] = Append(toServer[c], m)
    BY <1>3 DEF Typed, TypeOK
  <2> QED
    BY <1>1, <1>3, <2>1, AtMostOneGrows, ToSetFacts
<1>4. CASE Save(c) /\ d = c
  <2>1. PICK p \in Files :
          toServer' = [toServer EXCEPT ![c] = @ \o AsMessages(p, saves')]
    BY <1>4 DEF Save
  <2>2. saves' \in Content
    BY <1>4, IntegrityAssumption DEF Save, Typed, TypeOK, Content
  <2>3. toServer'[d] = toServer[c] \o AsMessages(p, saves')
    BY <1>4, <2>1 DEF Typed, TypeOK
  <2> QED
    BY <1>1, <1>4, <2>2, <2>3, AtMostOneFile
<1>5. CASE Restore(c) /\ d = c
  <2>1. PICK p \in Files :
          toServer' = [toServer EXCEPT ![c] =
            Append(@, [type |-> "RestoreVersion", path |-> p])]
    BY <1>5 DEF Restore
  <2>2. [type |-> "RestoreVersion", path |-> p] \in Msg
    BY DEF Msg
  <2> QED
    BY <1>3, <1>5, <2>1, <2>2
<1>6. CASE Check(c) /\ d = c
  <2>1. [type |-> "CheckIntegrity"] \in Msg
    BY DEF Msg
  <2> QED
    BY <1>3, <1>6, <2>1 DEF Check
<1> QED
  BY <1>2, <1>4, <1>5, <1>6 DEF CommandLine

LEMMA CommandOneFile ==
  ASSUME Typed, OneFileAtATime, NEW c \in Clients, CommandLine(c)
  PROVE  OneFileAtATime'
<1>1. /\ UNCHANGED <<conns, toClient, serving, early>>
      /\ \A d \in Clients : blocked[d] => blocked'[d]
  BY DEF CommandLine, Save, Restore, Check, Typed, TypeOK
<1>2. Replied' = Replied
  BY <1>1 DEF Replied
<1>3. ASSUME NEW d \in Clients \ early
      PROVE  OneFile(d)'
  <2>1. OneFile(d)
    BY DEF OneFileAtATime
  <2>2. Expected(d)' = Expected(d) /\ Posted(d)' = Posted(d)
    BY CommandComing
  <2>3. /\ AtMostOne(toServer[d], "RequestFiles") =>
             AtMostOne(toServer'[d], "RequestFiles")
        /\ \A m \in ToSet(toServer'[d]) :
             m.type = "RequestFiles" => m \in ToSet(toServer[d])
    BY CommandAsksNothing
  <2>4. Asked(d)' \subseteq Asked(d)
    BY <1>1, <2>3, AskedNext, InTheseTerms DEF AskedIn
  <2>5. NoneOf(toServer[d], "RequestFiles") =>
          NoneOf(toServer'[d], "RequestFiles")
    BY <2>3 DEF NoneOf
  <2> QED
    BY <1>1, <1>2, <2>1, <2>2, <2>3, <2>4, <2>5 DEF OneFile
<1>4. RequestsName'
  BY CommandAsksNothing DEF OneFileAtATime, RequestsName
<1> QED
  BY <1>1, <1>3, <1>4 DEF OneFileAtATime

LEMMA ServerOneFile ==
  ASSUME Typed, OneFileAtATime, NEW c \in Clients,
         \/ ServerReceives(c) \/ ServerRestores(c)
         \/ ServerLists(c) \/ ServerStartsServing(c)
  PROVE  OneFileAtATime'
<1>1. UNCHANGED <<early, blocked>>
  BY DEF ServerReceives, ServerRestores, ServerLists, ServerStartsServing,
         ghosts, state
<1>2. PICK type \in {"FileHeader", "EndOfFile", "RestoreVersion",
                     "CheckIntegrity", "RequestFiles"} : NextFrom(c, type)
  BY DEF ServerReceives, ServerRestores, ServerLists, ServerStartsServing
<1>3. /\ toServer[c] \in Seq(Msg) /\ toServer[c] # <<>>
      /\ Head(toServer[c]).type = type /\ serving[c] = {}
      /\ toServer'[c] = Tail(toServer[c])
      /\ \A d \in Clients \ {c} : toServer'[d] = toServer[d]
  BY <1>2, NextFromTypes DEF NextFrom, Typed, TypeOK
<1>4. /\ \A d \in Clients \ {c} : serving'[d] = serving[d]
      /\ IF type = "RequestFiles" THEN serving'[c] = Head(toServer[c]).paths
                                  ELSE serving'[c] = {}
  BY <1>2, <1>3 DEF ServerReceives, ServerRestores, ServerLists, state,
                    ServerStartsServing, NextFrom, Typed, TypeOK
<1>5. ToSet(toServer[c]) = {Head(toServer[c])} \cup ToSet(Tail(toServer[c]))
  BY <1>3, ToSetFacts
<1>6. RequestsName'
  BY <1>3, <1>5 DEF OneFileAtATime, RequestsName
<1>7. ASSUME NEW d \in Clients \ early
      PROVE  OneFile(d)'
  <2>1. OneFile(d)
    BY DEF OneFileAtATime
  <2>2. /\ Expected(d)' = Expected(d) /\ Posted(d)' = Posted(d)
        /\ conns' = conns /\ Replied' = Replied
    BY ServerComing
  <2>3. AtMostOne(toClient'[d], "EndOfFile")
    <3>1. CASE toClient'[d] = toClient[d]
      BY <2>1, <3>1 DEF OneFile
    <3>2. CASE toClient'[d] # toClient[d]
      <4> DEFINE list == [type |-> "List",
                          paths |-> {p \in Files : disk[Server][p] # Missing}]
      <4>1. list \in Msg /\ list.type = "List"
        BY DEF Msg
      <4>2. toClient' = [toClient EXCEPT ![Replied] = Append(@, list)]
        BY <3>2 DEF ServerReceives, ServerRestores, ServerLists,
                    ServerStartsServing
      <4> HIDE DEF list
      <4>3. toClient'[d] = Append(toClient[d], list) /\ toClient[d] \in Seq(Msg)
        BY <3>2, <4>2 DEF Typed, TypeOK
      <4> QED
        BY <2>1, <4>1, <4>3, AtMostOneGrows DEF OneFile
    <3> QED
      BY <3>1, <3>2
  <2>4. CASE d # c
    <3>1. toServer'[d] = toServer[d] /\ serving'[d] = serving[d]
      BY <1>3, <1>4, <2>4
    <3>2. Asked(d)' = Asked(d)
      BY <3>1, AskedNext, InTheseTerms
    <3> QED
      BY <1>1, <2>1, <2>2, <2>3, <3>1, <3>2 DEF OneFile
  <2>5. CASE d = c
    <3>1. AskedIn(toServer[c]) = AskedIn(Tail(toServer[c])) \cup
            (IF type = "RequestFiles" THEN Head(toServer[c]).paths ELSE {})
      BY <1>3, MessageFacts
    <3>2. Asked(c)' = Asked(c)
      BY <1>3, <1>4, <3>1, AskedNext, InTheseTerms
    <3>3. AtMostOne(toServer[c], "RequestFiles") =>
            /\ AtMostOne(toServer'[c], "RequestFiles")
            /\ NoneOf(toServer'[c], "RequestFiles") \/ serving'[c] = {}
      BY <1>3, <1>4, AtMostOneShrinks
    <3> QED
      BY <1>1, <2>1, <2>2, <2>3, <2>5, <3>2, <3>3 DEF OneFile
  <2> QED
    BY <2>4, <2>5
<1> QED
  BY <1>1, <1>6, <1>7 DEF OneFileAtATime

(* A queue in which no file's messages are posted has no end of a file.    *)
LEMMA NothingPosted ==
  ASSUME NEW c \in Clients, Posted(c) = {}
  PROVE  NoneOf(toClient[c], "EndOfFile")
BY DEF Posted, NoneOf

LEMMA ServeFileOneFile ==
  ASSUME Typed, OneFileAtATime, NEW c \in Clients, ServeFile(c)
  PROVE  OneFileAtATime'
<1>1. PICK p \in Files, to \in Clients : Round(c, p, to) /\ conns # <<>>
  BY ServeFileRound
<1>2. /\ UNCHANGED <<conns, toServer, blocked>> /\ p \in serving[c]
      /\ serving' = [serving EXCEPT ![c] = @ \ {p}]
      /\ early' = IF to = c THEN early ELSE early \cup {to}
      /\ serving'[c] = serving[c] \ {p}
  BY <1>1 DEF Round, Typed, TypeOK
<1>3. ASSUME NEW d \in Clients \ early'
      PROVE  OneFile(d)'
  <2>1. OneFile(d)
    BY <1>2 DEF OneFileAtATime
  <2>2. to = Replied /\ Replied' = to
    BY <1>1, RoundComing
  <2>3. CASE d # to
    <3>1. Expected(d)' = Expected(d) /\ Posted(d)' = Posted(d)
      BY <1>1, <2>3, RoundComing
    <3>2. toClient'[d] = toClient[d]
      BY <1>1, <2>3 DEF Round, Typed, TypeOK
    <3> QED
      BY <1>2, <2>1, <2>2, <2>3, <3>1, <3>2 DEF OneFile
  <2>4. CASE d = to
    <3>1. d = c /\ to = c
      BY <1>2, <2>4
    <3>2. Expected(c)' \subseteq Expected(c) /\ Expected(c) # {}
      BY <1>1, <3>1, RoundComing
    <3>3. p \in Asked(c) /\ serving[c] \subseteq Asked(c)
      BY <1>2, InTheseTerms
    <3>4. /\ AtMostOne(toServer[c], "RequestFiles")
          /\ NoneOf(toServer[c], "RequestFiles")
          /\ Posted(c) = {} /\ \A q \in Asked(c) : q = p
      BY <1>1, <1>2, <2>1, <2>2, <3>1, <3>3 DEF OneFile
    <3>5. serving'[c] = {}
      BY <1>2, <3>3, <3>4
    <3>6. AskedIn(toServer[c]) = {}
      BY <3>4 DEF AskedIn, NoneOf
    <3>7. Asked(c)' = {}
      BY <1>2, <3>5, <3>6, AskedNext
    <3>8. AtMostOne(toClient'[c], "EndOfFile")
      <4>1. AtMostOne(toClient[c], "EndOfFile") /\ toClient[c] \in Seq(Msg)
        BY <2>1, <3>1 DEF OneFile, Typed, TypeOK
      <4>2. CASE disk[Server][p] = Missing
        BY <1>1, <4>1, <4>2 DEF Round
      <4>3. CASE disk[Server][p] # Missing
        <5>1. toClient'[c] = toClient[c] \o AsMessages(p, disk[Server][p])
          BY <1>1, <3>1, <4>3 DEF Round, Typed, TypeOK
        <5>2. disk[Server][p] \in Content \cup {Partial}
          BY <4>3 DEF Typed, TypeOK, Node
        <5> QED
          BY <3>4, <4>1, <5>1, <5>2, NothingPosted, AtMostOneFile
      <4> QED
        BY <4>2, <4>3
    <3> QED
      BY <1>2, <2>1, <3>1, <3>2, <3>4, <3>5, <3>7, <3>8 DEF OneFile
  <2> QED
    BY <2>3, <2>4
<1>4. RequestsName'
  BY <1>2 DEF OneFileAtATime, RequestsName
<1> QED
  BY <1>3, <1>4 DEF OneFileAtATime

(* Of a finite set that has no more than one element, any two are equal.   *)
LEMMA AtMostOneElement ==
  ASSUME NEW S, IsFiniteSet(S), ~(Cardinality(S) > 1)
  PROVE  \A p, q \in S : p = q
<1>1. Cardinality(S) \in Nat
  BY FS_CardinalityType
<1>2. Cardinality(S) = 0 \/ Cardinality(S) = 1
  BY <1>1
<1> QED
  BY <1>2, FS_EmptySet, FS_Singleton

LEMMA ComparesOneFile ==
  ASSUME Typed, OneFileAtATime, NEW c \in Clients, ClientCompares(c)
  PROVE  OneFileAtATime'
<1> DEFINE lacking == NotFound(c, Head(toClient[c]).paths)
           request == [type |-> "RequestFiles", paths |-> lacking]
<1>1. /\ toClient' = [toClient EXCEPT ![c] = Tail(@)]
      /\ UNCHANGED <<conns, serving, blocked>>
      /\ \/ toServer' = toServer
         \/ /\ toServer' = [toServer EXCEPT ![c] = Append(@, request)]
            /\ lacking # {}
      /\ early' = IF \/ Cardinality(lacking) > 1
                     \/ ~blocked[c] \/ Expected(c) # {}
                  THEN early \cup {c} ELSE early
  BY DEF ClientCompares, NextTo, Expected
<1>2. toClient[c] \in Seq(Msg) /\ toClient[c] # <<>>
  BY NextToTypes DEF ClientCompares
<1>3. /\ \A d \in Clients : Posted(d)' = Posted(d)
      /\ \A d \in Clients \ {c} : Expected(d)' = Expected(d)
      /\ lacking \subseteq Files /\ Replied' = Replied /\ conns # <<>>
  BY ComparesComing DEF NotFound
<1>4. request \in Msg /\ request.type = "RequestFiles" /\ request.paths = lacking
  BY <1>3 DEF Msg
<1> HIDE DEF request, lacking
<1>5. toServer[c] \in Seq(Msg)
  BY DEF Typed, TypeOK
<1>6. ToSet(Append(toServer[c], request)) = ToSet(toServer[c]) \cup {request}
  BY <1>4, <1>5, ToSetFacts
<1>7. \/ toServer' = toServer
      \/ /\ toServer'[c] = Append(toServer[c], request) /\ lacking # {}
         /\ \A d \in Clients \ {c} : toServer'[d] = toServer[d]
  BY <1>1 DEF Typed, TypeOK
<1>8. RequestsName'
  BY <1>4, <1>6, <1>7 DEF OneFileAtATime, RequestsName
<1>9. ASSUME NEW d \in Clients \ early', d # c
      PROVE  OneFile(d)'
  <2>1. OneFile(d)
    BY <1>1, <1>9 DEF OneFileAtATime
  <2>2. /\ toClient'[d] = toClient[d] /\ toServer'[d] = toServer[d]
        /\ serving'[d] = serving[d] /\ blocked'[d] = blocked[d]
    BY <1>1, <1>7, <1>9 DEF Typed, TypeOK
  <2>3. Asked(d)' = Asked(d)
    BY <2>2, AskedNext, InTheseTerms
  <2> QED
    BY <1>1, <1>3, <1>9, <2>1, <2>2, <2>3 DEF OneFile
<1>10. ASSUME c \notin early'
       PROVE  OneFile(c)'
  <2>1. /\ OneFile(c) /\ blocked[c] /\ Expected(c) = {}
        /\ ~(Cardinality(lacking) > 1)
    BY <1>1, <1>10 DEF OneFileAtATime
  <2>2. \A p, q \in lacking : p = q
    <3>1. IsFiniteSet(lacking)
      BY <1>3, IntegrityAssumption, FS_Subset
    <3> QED
      BY <2>1, <3>1, AtMostOneElement
  <2>3. AtMostOne(toClient'[c], "EndOfFile")
    <3>1. toClient'[c] = Tail(toClient[c])
      BY <1>1 DEF Typed, TypeOK
    <3> QED
      BY <1>2, <2>1, <3>1, AtMostOneShrinks DEF OneFile
  <2>4. Posted(c)' = {}
    BY <1>3, <2>1, PostedIsExpected
  <2>5. ASSUME c = Replied
        PROVE  /\ AtMostOne(toServer'[c], "RequestFiles")
               /\ serving'[c] = {}
               /\ \A p, q \in Asked(c)' : p = q
    <3>1. serving[c] = {} /\ AskedIn(toServer[c]) = {}
      BY <1>3, <2>1, <2>5, ExpectedIs
    <3>2. NoneOf(toServer[c], "RequestFiles")
      BY <3>1 DEF OneFileAtATime, RequestsName, AskedIn, NoneOf
    <3>3. AtMostOne(toServer'[c], "RequestFiles")
      <4>1. AtMostOne(toServer[c], "RequestFiles")
        BY <1>3, <2>1, <2>5 DEF OneFile
      <4>2. AtMostOne(Append(toServer[c], request), "RequestFiles")
        BY <1>4, <1>5, <3>2, <4>1, AtMostOneGrows
      <4> QED
        BY <1>7, <4>1, <4>2
    <3>4. AskedIn(toServer'[c]) \subseteq lacking
      <4>1. AskedIn(Append(toServer[c], request)) = AskedIn(toServer[c]) \cup
              (IF request.type = "RequestFiles" THEN request.paths ELSE {})
        BY <1>4, <1>5, MessageFacts
      <4> QED
        BY <1>4, <1>7, <3>1, <4>1
    <3>5. serving'[c] = {}
      BY <1>1, <3>1
    <3>6. Asked(c)' \subseteq lacking
      BY <3>4, <3>5, AskedNext
    <3> QED
      BY <2>2, <3>3, <3>5, <3>6
  <2> QED
    BY <1>1, <1>3, <2>1, <2>3, <2>4, <2>5 DEF OneFile
<1> QED
  BY <1>8, <1>9, <1>10 DEF OneFileAtATime

(* The end of the one file leaves nothing to come.                         *)
LEMMA EndLeavesNothing ==
  ASSUME Typed, Serving, NEW c \in Clients, OneFile(c),
         ClientReceives(c), Head(toClient[c]).type = "EndOfFile"
  PROVE  Expected(c)' = {}
<1>1. /\ toClient[c] \in Seq(Msg) /\ toClient[c] # <<>>
      /\ toClient'[c] = Tail(toClient[c])
      /\ UNCHANGED <<conns, serving, toServer>>
  BY DEF ClientReceives, NextTo, Typed, TypeOK
<1>2. Head(toClient[c]).path \in Posted(c) /\ Replied' = Replied
  BY FileMessageComing
<1>3. conns # <<>> /\ c = Replied => Asked(c) = {}
  BY <1>2 DEF OneFile
<1>4. NoneOf(toClient'[c], "EndOfFile") /\ Paired(toClient'[c])
      /\ toClient'[c] \in Seq(Msg)
  BY <1>1, AtMostOneShrinks, PairedShrinks
     DEF OneFile, Serving, FilesInOrder, InOrder
<1>5. ASSUME NEW m \in ToSet(toClient'[c]), m.type = "FileHeader"
      PROVE  FALSE
  <2>1. PICK i \in 1..Len(toClient'[c]) : toClient'[c][i] = m
    BY <1>4, Members
  <2>2. /\ i + 1 \in 1..Len(toClient'[c])
        /\ toClient'[c][i + 1].type = "EndOfFile"
    BY <1>4, <1>5, <2>1 DEF Paired
  <2>3. toClient'[c][i + 1] \in ToSet(toClient'[c])
    BY <1>4, <2>2, Members
  <2> QED
    BY <1>4, <2>2, <2>3 DEF NoneOf
<1>6. FilePaths(toClient'[c]) = {}
  BY <1>4, <1>5 DEF FilePaths, NoneOf, FileType
<1> QED
  BY <1>1, <1>2, <1>3, <1>6, ExpectedIsNext, InTheseTerms

LEMMA FileMessageOneFile ==
  ASSUME Typed, Serving, OneFileAtATime, NEW c \in Clients,
         ClientReceives(c) \/ ClientRefuses(c)
  PROVE  OneFileAtATime'
<1> DEFINE m == Head(toClient[c])
<1>1. /\ UNCHANGED <<conns, toServer, serving, early>>
      /\ toClient[c] # <<>> /\ toClient[c] \in Seq(Msg)
      /\ toClient' = [toClient EXCEPT ![c] = Tail(@)]
      /\ toClient'[c] = Tail(toClient[c])
  BY DEF ClientReceives, ClientRefuses, NextTo, state, ghosts, Typed, TypeOK
<1>2. /\ m \in Msg /\ m.type \in FileType
      /\ Posted(c) = Posted(c)' \cup {m.path}
      /\ Expected(c) = Expected(c)' \cup {m.path}
      /\ \A d \in Clients \ {c} :
           Posted(d)' = Posted(d) /\ Expected(d)' = Expected(d)
      /\ Replied' = Replied
  BY FileMessageComing
<1>3. \A d \in Clients : Asked(d)' = Asked(d)
  BY <1>1, AskedNext, InTheseTerms
<1>4. ASSUME NEW d \in Clients \ early, d # c
      PROVE  OneFile(d)'
  <2>1. OneFile(d)
    BY DEF OneFileAtATime
  <2>2. toClient'[d] = toClient[d] /\ blocked'[d] = blocked[d]
    BY <1>1, <1>4 DEF ClientReceives, ClientRefuses, Unblock, state,
                      Typed, TypeOK
  <2> QED
    BY <1>1, <1>2, <1>3, <1>4, <2>1, <2>2 DEF OneFile
<1>5. ASSUME c \notin early
      PROVE  OneFile(c)'
  <2>1. OneFile(c)
    BY <1>5 DEF OneFileAtATime
  <2>2. AtMostOne(toClient'[c], "EndOfFile")
    BY <1>1, <2>1, AtMostOneShrinks DEF OneFile
  <2>3. Expected(c)' # {} => blocked'[c]
    <3>1. CASE ClientReceives(c) /\ m.type = "EndOfFile"
      BY <2>1, <3>1, EndLeavesNothing
    <3>2. CASE ClientReceives(c) /\ m.type # "EndOfFile"
      <4>1. open' = [open EXCEPT ![c]["client"] = @ \cup {m.path}]
        BY <3>2 DEF ClientReceives, NextTo, HeaderOpens
      <4> HIDE DEF m
      <4>2. open'[c]["client"] # {}
        BY <4>1, ZenonT(40) DEF Typed, TypeOK, Side
      <4>3. blocked' = blocked
        BY <3>2, <4>2 DEF ClientReceives, Unblock, Completed
      <4> QED
        BY <1>2, <2>1, <4>3 DEF OneFile
    <3>3. CASE ClientRefuses(c)
      BY <1>2, <2>1, <3>3 DEF ClientRefuses, state, OneFile
    <3> QED
      BY <3>1, <3>2, <3>3
  <2> QED
    BY <1>1, <1>2, <1>3, <2>1, <2>2, <2>3 DEF OneFile
<1>6. RequestsName'
  BY <1>1 DEF OneFileAtATime, RequestsName
<1> QED
  BY <1>1, <1>4, <1>5, <1>6 DEF OneFileAtATime

LEMMA InitialOneFile == Init => OneFileAtATime
<1> SUFFICES ASSUME Init PROVE OneFileAtATime
  OBVIOUS
<1>1. /\ Len(<<>>) = 0 /\ ToSet(<<>>) = {} /\ FilePaths(<<>>) = {}
  BY EmptySeq, ToSetFacts, MessageFacts
<1>2. \A type : AtMostOne(<<>>, type)
  BY <1>1 DEF AtMostOne
<1>3. RequestsName
  BY <1>1 DEF Init, RequestsName
<1>4. ASSUME NEW c \in Clients
      PROVE  OneFile(c)
  <2>1. toClient[c] = <<>> /\ conns = <<>>
    BY DEF Init
  <2>2. Expected(c) = {}
    BY <1>1, <2>1, ExpectedIs
  <2> QED
    BY <1>2, <2>1, <2>2 DEF OneFile
<1> QED
  BY <1>3, <1>4 DEF OneFileAtATime

LEMMA InductiveOneFile ==
  Typed /\ Serving /\ OneFileAtATime /\ [Next]_vars => OneFileAtATime'
<1> SUFFICES ASSUME Typed, Serving, OneFileAtATime, [Next]_vars
             PROVE  OneFileAtATime'
  OBVIOUS
<1>1. ASSUME NEW c \in Clients,
             Connect(c) \/ CommandLine(c) \/ ServerThread(c) \/ ClientThread(c)
      PROVE  OneFileAtATime'
  BY <1>1, ConnectOneFile, CommandOneFile, ServerOneFile, ServeFileOneFile,
     ComparesOneFile, FileMessageOneFile DEF ServerThread, ClientThread
<1>2. CASE UNCHANGED vars
  <2>1. UNCHANGED <<toServer, toClient, conns, serving, blocked, early>>
    BY <1>2 DEF vars
  <2>2. RequestsName'
    BY <2>1 DEF OneFileAtATime, RequestsName
  <2>3. ASSUME NEW c \in Clients \ early'
        PROVE  OneFile(c)'
    <3>1. OneFile(c)
      BY <2>1, <2>3 DEF OneFileAtATime
    <3>2. UNCHANGED <<Expected(c), Posted(c), Asked(c), Replied>>
      BY <2>1 DEF Expected, ComingFrom, Posted, Asked, Replied
    <3> QED
      BY <2>1, <3>1, <3>2 DEF OneFile
  <2> QED
    BY <2>2, <2>3 DEF OneFileAtATime
<1> QED
  BY <1>1, <1>2 DEF Next

(* _blocked is false with files still to come only if the list named more  *)
(* than one that is missing, came when the last check had not ended, or    *)
(* another client's requests were answered here.                           *)
THEOREM UnblockedInTime == Spec => []UnblockedAtTheEnd
<1>1. Spec => []OneFileAtATime
  BY InitialOneFile, InductiveOneFile, AlwaysServing, PTL DEF Spec
<1>2. OneFileAtATime => UnblockedAtTheEnd
  BY DEF OneFileAtATime, OneFile, UnblockedAtTheEnd, Expected
<1> QED
  BY <1>1, <1>2, PTL
==============================================================================
