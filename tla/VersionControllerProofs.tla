------------------------ MODULE VersionControllerProofs ------------------------
(***************************************************************************)
(* For any number of versions, any contents and any disturbance: the       *)
(* variables of VersionController keep their types; the server's version   *)
(* files are the client's whenever nothing is under way; and each version  *)
(* that is not cut off leads back to what it recorded.  Without two        *)
(* versions in one second, no version is written over and restore removes  *)
(* the newest first, but where the postfix has come to Base in a minute.   *)
(***************************************************************************)
EXTENDS VersionController, ProductProofs, FiniteSetTheorems

(* s has the names of S, each later one before the earlier ones.           *)
Lists(s, S) ==
  /\ s \in Seq(S)
  /\ \A n \in S : \E i \in 1..Len(s) : s[i] = n
  /\ \A i, j \in 1..Len(s) : i < j => Before(s[j], s[i])

Message == [type : {"copy", "version", "restore"},
            name : Name \cup {None}, data : File]

Named(q) ==
  \A i \in 1..Len(q) : q[i].type = "version" => q[i].name \in Name

(* With the types: where the commands count on files that are there, and   *)
(* what is left of the vector of versions.                                 *)
Typed ==
  /\ TypeOK
  /\ vers = [n \in DOMAIN vers |-> vers[n]]
  /\ copy = None => DOMAIN vers = {}
  /\ at \in {"copy", "send"} => copy # None
  /\ at = "copy" => made \in DOMAIN vers
  /\ at = "send" => made = None \/ made \in DOMAIN vers
  /\ at \in {"undo", "back"} =>
       target \in DOMAIN vers /\ todo \in Seq(DOMAIN vers)
  /\ at = "back" => todo # <<>>
  /\ at = "remove" =>
       target \in Name /\ Lists(todo, From(DOMAIN vers, target))
  /\ Named(net)

(* What the server makes of a message.                                     *)
HandledCopy(c, m) == IF m.type = "copy" THEN m.data ELSE c

HandledVers(f, m) ==
  CASE m.type = "version" -> Put(f, m.name, m.data)
    [] m.type = "restore" -> AfterRestore(f, m.name)
    [] OTHER -> f

(* From the copy c0 and the versions f0 the messages q lead to c1 and f1.  *)
Replays(q, c0, f0, c1, f1) ==
  \E c, f :
    /\ c[0] = c0 /\ f[0] = f0
    /\ \A i \in 1..Len(q) : /\ c[i] = HandledCopy(c[i - 1], q[i])
                           /\ f[i] = HandledVers(f[i - 1], q[i])
    /\ c[Len(q)] = c1 /\ f[Len(q)] = f1

SameVersions(f) ==
  DOMAIN f = DOMAIN vers /\ \A n \in DOMAIN vers : f[n] = Text(vers[n].data)

(* The copy c and the versions f are the client's as far as it has told.   *)
Mirrors(c, f) ==
  /\ at = "idle" /\ ~behind => c = (IF copy = None THEN None ELSE Text(copy.data))
  /\ \/ at \in {"idle", "undo", "back"}
     \/ at = "send" /\ made = None
     => SameVersions(f)
  /\ \/ at = "copy"
     \/ at = "send" /\ made # None
     => /\ DOMAIN f \ {made} = DOMAIN vers \ {made}
        /\ \A n \in DOMAIN vers \ {made} : f[n] = Text(vers[n].data)
  /\ at = "remove" =>
       /\ target \in DOMAIN f /\ DOMAIN vers \subseteq DOMAIN f
       /\ \A n \in DOMAIN vers : f[n] = Text(vers[n].data)
       /\ \A n \in DOMAIN f \ DOMAIN vers : ~Before(n, target)

(* What the server will have once it has handled all that is under way.    *)
MirrorInv ==
  linked => \E c, f : Replays(net, srvCopy, srvVers, c, f) /\ Mirrors(c, f)

(* The names say the minute.  Within a minute they go up as the times do,  *)
(* as long as the postfix has not come to Base; "0" is the oldest anyway.  *)
OrderInv ==
  /\ \A n \in DOMAIN vers : /\ vers[n].mtime <= now
                            /\ n[1] = vers[n].mtime \div MinuteLength
  /\ \A m, n \in DOMAIN vers :
       m[1] = n[1] /\ m[2] < n[2] /\ (~CameToBase(n) \/ m[2] = 0) =>
         vers[m].mtime < vers[n].mtime

(* By f and r, taking a version of S back leads from what the next one     *)
(* recorded to what it has recorded itself; before the last there is d.    *)
Links(f, r, S, d) ==
  /\ \A n \in S : (\A m \in S : ~Before(n, m)) =>
       Multiply(Text(d), Text(f[n].data)) = r[n]
  /\ \A m, n \in S :
       Before(m, n) /\ (\A k \in S : ~(Before(m, k) /\ Before(k, n))) =>
         Multiply(Text(r[n]), Text(f[m].data)) = r[m]

(* The versions that are not cut off.                                      *)
Good == DOMAIN vers \ broken

(* What restore promises is in the storage folder, and copied.             *)
Brought(v) ==
  main.data = copy.data /\ (v \notin broken => main.data = recorded[v])

(* The restore to v has come to the versions U: it has taken those outside *)
(* U back, and none of them is before v.                                   *)
Undoing(U, v) ==
  /\ Lists(todo, From(U, v))
  /\ \A n \in DOMAIN vers \ U : ~Before(n, v)
  /\ at = "undo" => Links(vers, recorded, U \cap Good, copy.data)
  /\ at = "back" => Links(vers, recorded, (U \cap Good) \ {Head(todo)}, main.data)
  /\ "edit" \notin Disturbances =>
       /\ v \in U \/ (todo = <<>> /\ Brought(v))
       /\ at = "back" => v \in broken \/ main.data = recorded[Head(todo)]

(* The versions that are cut off come before the others, and these are a   *)
(* chain, which ends with the copy, or with the file that is about to be   *)
(* copied.                                                                 *)
ChainInv ==
  /\ Good \subseteq DOMAIN recorded
  /\ \A m \in broken, n \in Good : Before(m, n)
  /\ at # "remove" => broken \subseteq DOMAIN vers
  /\ at \in {"idle", "send"} => Links(vers, recorded, Good, copy.data)
  /\ at = "copy" => Links(vers, recorded, Good, main.data)
  /\ at \in {"undo", "back"} =>
       \E U \in SUBSET DOMAIN vers : Undoing(U, target)
  /\ at = "remove" =>
       /\ Links(vers, recorded, {n \in Good : Before(n, target)}, copy.data)
       /\ "edit" \notin Disturbances => Brought(target)

------------------------------------------------------------------------------
(* Names *)

LEMMA Names ==
  /\ \A n \in Name : n[1] \in Nat /\ n[2] \in 0..Base
  /\ \A m, n \in Name : m[1] = n[1] /\ m[2] = n[2] => m = n
  /\ IsFiniteSet(Name)
<1> DEFINE Latest == MaxTime \div MinuteLength
<1>1. /\ Latest \in Nat
      /\ \A n \in Name : n = <<n[1], n[2]>> /\ n[1] \in 0..Latest /\ n[2] \in 0..Base
  BY ControllerAssumption, Quotients DEF Name
<1>2. 0 \in Int /\ Latest \in Int /\ Base \in Int
  BY <1>1, ControllerAssumption
<1> HIDE DEF Latest
<1>3. IsFiniteSet(0..Latest) /\ IsFiniteSet(0..Base)
  BY <1>2, FS_Interval
<1>4. IsFiniteSet(Name)
  BY <1>3, FS_Product DEF Name, Latest
<1>5. ASSUME NEW m \in Name, NEW n \in Name, m[1] = n[1], m[2] = n[2]
      PROVE  m = n
  <2>1. m = <<m[1], m[2]>> /\ n = <<n[1], n[2]>>
    BY <1>1
  <2> QED
    BY <2>1, <1>5
<1> QED
  BY <1>1, <1>4, <1>5

(* The folder lists any two names in one order.                            *)
LEMMA NamesAreOrdered ==
  ASSUME NEW m \in Name, NEW n \in Name
  PROVE  /\ ~ Before(n, n)
         /\ ~ (Before(m, n) /\ Before(n, m))
         /\ m # n => Before(m, n) \/ Before(n, m)
         /\ \A l \in Name : Before(l, m) /\ Before(m, n) => Before(l, n)
<1>1. \A k \in Name : k[1] \in Nat /\ k[2] \in Nat
  BY Names, ControllerAssumption
<1>2. \A p \in Nat : Rank(p) \in Nat
  BY DEF Rank
<1>3. \A p, q \in Nat : Rank(p) = Rank(q) => p = q
  BY DEF Rank
<1>4. m # n => m[1] # n[1] \/ m[2] # n[2]
  BY Names
<1>5. \A k \in Name : Rank(k[2]) \in Nat
  BY <1>1, <1>2
<1>6. m # n => m[1] # n[1] \/ Rank(m[2]) # Rank(n[2])
  BY <1>1, <1>3, <1>4
<1> QED
  BY <1>1, <1>5, <1>6 DEF Before

LEMMA FirstName ==
  ASSUME NEW S \in SUBSET Name, S # {}
  PROVE  \E n \in S : \A m \in S \ {n} : Before(n, m)
<1>1. \A k \in S : k[1] \in Nat /\ Rank(k[2]) \in Nat
  <2>1. \A k \in S : k[1] \in Nat /\ k[2] \in Nat
    BY Names, ControllerAssumption
  <2> QED
    BY <2>1 DEF Rank
<1> DEFINE M == {k[1] : k \in S}
<1>2. M \in SUBSET Nat /\ M # {}
  BY <1>1
<1>3. PICK x \in S : \A k \in S : x[1] <= k[1]
  <2>1. PICK a \in M : \A b \in M : a <= b
    <3> HIDE DEF M
    <3> QED
      BY <1>2, LeastOne
  <2> QED
    BY <2>1
<1> DEFINE T == {k \in S : k[1] = x[1]}
           R == {Rank(k[2]) : k \in T}
<1>4. R \in SUBSET Nat /\ R # {}
  BY <1>1
<1>5. PICK y \in T : \A k \in T : Rank(y[2]) <= Rank(k[2])
  <2>1. PICK a \in R : \A b \in R : a <= b
    <3> HIDE DEF R
    <3> QED
      BY <1>4, LeastOne
  <2> QED
    BY <2>1
<1>6. ASSUME NEW m \in S \ {y}
      PROVE  Before(y, m)
  <2>1. ~Before(m, y)
    <3>1. m[1] \in Nat /\ y[1] \in Nat /\ Rank(m[2]) \in Nat /\ Rank(y[2]) \in Nat
      BY <1>1
    <3>2. y[1] <= m[1] /\ (m[1] = y[1] => Rank(y[2]) <= Rank(m[2]))
      BY <1>3, <1>5
    <3> QED
      BY <3>1, <3>2 DEF Before
  <2>2. m \in Name /\ y \in Name /\ m # y
    OBVIOUS
  <2> QED
    BY <2>1, <2>2, NamesAreOrdered
<1> QED
  BY <1>6

------------------------------------------------------------------------------
(* The vector of versions *)

(* A set of names can be listed: the first name comes behind the others.   *)
LEMMA CanBeListed ==
  ASSUME NEW S \in SUBSET Name
  PROVE  \E s \in [1..Cardinality(S) -> S] :
           \A i, j \in DOMAIN s : i < j => Before(s[j], s[i])
<1> DEFINE Listed(T) == \E s \in [1..Cardinality(T) -> T] :
                          \A i, j \in DOMAIN s : i < j => Before(s[j], s[i])
           Bad == {k \in Nat : \E T \in SUBSET Name :
                                 Cardinality(T) = k /\ ~Listed(T)}
<1> HIDE DEF Listed
<1>1. \A T \in SUBSET Name : IsFiniteSet(T) /\ Cardinality(T) \in Nat
  BY Names, FS_Subset, FS_CardinalityType
<1>2. SUFFICES Bad = {}
  BY <1>1 DEF Listed
<1>3. SUFFICES ASSUME Bad # {}
               PROVE  FALSE
  OBVIOUS
<1>4. PICK k \in Bad : \A l \in Bad : k <= l
  <2>1. Bad \in SUBSET Nat
    OBVIOUS
  <2> HIDE DEF Bad
  <2> QED
    BY <1>3, <2>1, LeastOne
<1>5. PICK T \in SUBSET Name : Cardinality(T) = k /\ ~Listed(T)
  OBVIOUS
<1>6. T # {}
  <2>1. SUFFICES ASSUME T = {}
                 PROVE  FALSE
    OBVIOUS
  <2>2. Cardinality(T) = 0
    BY <2>1, FS_EmptySet
  <2>3. <<>> \in [1..Cardinality(T) -> T] /\ DOMAIN <<>> = {}
    BY <2>1, <2>2
  <2>4. Listed(T)
    BY <2>3 DEF Listed
  <2> QED
    BY <2>4, <1>5
<1>7. PICK x \in T : \A m \in T \ {x} : Before(x, m)
  BY <1>6, FirstName
<1>8. k \in Nat \ {0} /\ Cardinality(T \ {x}) = k - 1
  <2>1. Cardinality(T \ {x}) = k - 1
    BY <1>1, <1>5, <1>7, FS_RemoveElement
  <2>2. T \ {x} \in SUBSET Name
    OBVIOUS
  <2>3. Cardinality(T \ {x}) \in Nat
    BY <1>1, <2>2
  <2> QED
    BY <2>1, <2>3
<1>9. k - 1 \notin Bad
  <2> k \in Nat
    OBVIOUS
  <2> HIDE DEF Bad
  <2> QED
    BY <1>4, <1>8
<1>10. Listed(T \ {x})
  BY <1>8, <1>9
<1>11. PICK s \in [1..(k - 1) -> T \ {x}] :
         \A i, j \in 1..(k - 1) : i < j => Before(s[j], s[i])
  BY <1>8, <1>10 DEF Listed
<1>12. PICK t : t = [i \in 1..k |-> IF i = k THEN x ELSE s[i]]
  OBVIOUS
<1>13. t \in [1..k -> T] /\ DOMAIN t = 1..k
  BY <1>8, <1>11, <1>12
<1>14. ASSUME NEW i \in 1..k, NEW j \in 1..k, i < j
       PROVE  Before(t[j], t[i])
  <2>1. i \in 1..(k - 1) /\ t[i] = s[i] /\ t[i] \in T \ {x}
    BY <1>8, <1>11, <1>12, <1>14
  <2>2. CASE j = k
    BY <2>1, <2>2, <1>7, <1>12
  <2>3. CASE j # k
    <3>1. j \in 1..(k - 1) /\ t[j] = s[j]
      BY <2>3, <1>8, <1>12
    <3> QED
      BY <2>1, <3>1, <1>11, <1>14
  <2> QED
    BY <2>2, <2>3
<1>15. Listed(T)
  BY <1>5, <1>13, <1>14 DEF Listed
<1> QED
  BY <1>5, <1>15

LEMMA NewestFirstLists ==
  ASSUME NEW S \in SUBSET Name
  PROVE  Lists(NewestFirst(S), S)
<1>1. IsFiniteSet(S) /\ Cardinality(S) \in Nat
  BY Names, FS_Subset, FS_CardinalityType
<1>2. PICK k \in Nat : k = Cardinality(S)
  BY <1>1
<1>3. PICK s \in [1..k -> S] :
        /\ s = NewestFirst(S)
        /\ \A i, j \in 1..k : i < j => Before(s[j], s[i])
  BY <1>2, CanBeListed DEF NewestFirst
<1>4. s \in Seq(S) /\ Len(s) = k
  OBVIOUS
<1>5. \A i, j \in 1..k : i # j => s[i] # s[j]
  <2>1. ASSUME NEW i \in 1..k, NEW j \in 1..k, i < j
        PROVE  s[i] # s[j]
    <3>1. Before(s[j], s[i]) /\ s[i] \in Name
      BY <2>1, <1>3
    <3> QED
      BY <3>1, NamesAreOrdered
  <2> QED
    BY <2>1
<1>6. IsFiniteSet(1..k) /\ Cardinality(1..k) = k
  BY FS_Interval
<1>7. s \in Injection(1..k, S)
  BY <1>5 DEF Injection, IsInjective
<1>8. s \in Surjection(1..k, S)
  BY <1>1, <1>2, <1>6, <1>7, FS_Injection
<1>9. \A n \in S : \E i \in 1..k : s[i] = n
  BY <1>8 DEF Surjection
<1> QED
  BY <1>3, <1>4, <1>9 DEF Lists

(* The head of a list is its last name, and the tail lists the others.     *)
LEMMA ListTail ==
  ASSUME NEW S \in SUBSET Name, NEW s, Lists(s, S), s # <<>>
  PROVE  /\ Head(s) \in S
         /\ Lists(Tail(s), S \ {Head(s)})
         /\ \A n \in S \ {Head(s)} : Before(n, Head(s))
<1>1. /\ s \in Seq(S) /\ Len(s) \in Nat /\ Len(s) > 0
      /\ \A n \in S : \E i \in 1..Len(s) : s[i] = n
      /\ \A i, j \in 1..Len(s) : i < j => Before(s[j], s[i])
  BY DEF Lists
<1>2. PICK l \in Nat : l = Len(s) - 1 /\ Len(s) = l + 1
  <2>1. Len(s) - 1 \in Nat /\ Len(s) = (Len(s) - 1) + 1
    BY <1>1
  <2> QED
    BY <2>1
<1>3. PICK x \in S : x = Head(s) /\ x = s[1]
  BY <1>1
<1>4. PICK t \in Seq(S) : /\ t = Tail(s) /\ Len(t) = l
                          /\ \A i \in 1..l : t[i] = s[i + 1]
  <2>1. /\ Tail(s) \in Seq(S) /\ Len(Tail(s)) = Len(s) - 1
        /\ \A i \in 1..(Len(s) - 1) : Tail(s)[i] = s[i + 1]
    BY <1>1, HeadTailProperties
  <2> QED
    BY <2>1, <1>2
<1>5. ASSUME NEW n \in S \ {x}
      PROVE  \E i \in 1..l : t[i] = n
  <2>1. PICK i \in 1..(l + 1) : s[i] = n
    BY <1>1, <1>2
  <2>2. i # 1
    BY <2>1, <1>3
  <2>3. i - 1 \in 1..l /\ (i - 1) + 1 = i
    BY <2>2
  <2>4. t[i - 1] = n
    BY <2>1, <2>3, <1>4
  <2> QED
    BY <2>3, <2>4
<1>6. ASSUME NEW i \in 1..l
      PROVE  Before(t[i], x)
  <2>1. i + 1 \in 1..Len(s) /\ 1 \in 1..Len(s) /\ 1 < i + 1
    BY <1>2
  <2>2. Before(s[i + 1], s[1])
    BY <2>1, <1>1
  <2> QED
    BY <2>2, <1>3, <1>4
<1>7. \A i \in 1..l : t[i] \in S \ {x}
  <2>1. ~ Before(x, x)
    BY NamesAreOrdered
  <2> QED
    BY <2>1, <1>4, <1>6
<1>8. t \in Seq(S \ {x})
  <2>1. t \in [1..l -> S \ {x}]
    <3>1. t \in [1..l -> S]
      BY <1>4, LenProperties
    <3> QED
      BY <3>1, <1>7
  <2> QED
    BY <2>1
<1>9. ASSUME NEW i \in 1..l, NEW j \in 1..l, i < j
      PROVE  Before(t[j], t[i])
  <2>1. i + 1 \in 1..Len(s) /\ j + 1 \in 1..Len(s) /\ i + 1 < j + 1
    BY <1>2, <1>9
  <2>2. Before(s[j + 1], s[i + 1])
    BY <2>1, <1>1
  <2> QED
    BY <2>2, <1>4
<1>10. Lists(t, S \ {x})
  BY <1>4, <1>5, <1>8, <1>9 DEF Lists
<1>11. \A n \in S \ {x} : Before(n, x)
  BY <1>5, <1>6
<1> QED
  BY <1>3, <1>4, <1>10, <1>11

------------------------------------------------------------------------------
(* Types *)

(* What is read of a file, and the product of two that are read, are files.*)
LEMMA Texts ==
  /\ \A f \in File : Text(f) \in File
  /\ \A f, g \in File : Multiply(Text(f), Text(g)) \in File
<1>1. ASSUME NEW f \in File
      PROVE  Text(f) \in File
  BY TextUpToIs DEF Text
<1>2. ASSUME NEW f \in File, NEW g \in File
      PROVE  Multiply(Text(f), Text(g)) \in File
  BY <1>1, ProductIsFile
<1> QED
  BY <1>1, <1>2

LEMMA NoVersions ==
  ASSUME Typed, DOMAIN vers = {}
  PROVE  vers = <<>>
<1>1. vers = [n \in {} |-> vers[n]]
  BY DEF Typed
<1>2. [n \in {} |-> vers[n]] = <<>>
  OBVIOUS
<1> QED
  BY <1>1, <1>2

LEMMA LatestVersion ==
  ASSUME Typed, vers # <<>>
  PROVE  /\ LastVersion \in DOMAIN vers
         /\ \A n \in DOMAIN vers : vers[n].mtime <= vers[LastVersion].mtime
<1>1. /\ DOMAIN vers # {} /\ DOMAIN vers \in SUBSET Name
      /\ \A n \in DOMAIN vers : vers[n].mtime \in 0..MaxTime
  BY NoVersions DEF Typed, TypeOK, Stored, Time
<1>2. \A n \in DOMAIN vers : /\ vers[n].mtime \in Nat
                             /\ MaxTime - vers[n].mtime \in Nat
  BY <1>1, ControllerAssumption
<1> DEFINE A == {MaxTime - vers[n].mtime : n \in DOMAIN vers}
<1>3. A \in SUBSET Nat /\ A # {}
  BY <1>1, <1>2
<1>4. PICK x \in DOMAIN vers : \A n \in DOMAIN vers :
        MaxTime - vers[x].mtime <= MaxTime - vers[n].mtime
  <2>1. PICK a \in A : \A b \in A : a <= b
    <3> HIDE DEF A
    <3> QED
      BY <1>3, LeastOne
  <2> QED
    BY <2>1
<1>5. \A n \in DOMAIN vers : vers[n].mtime <= vers[x].mtime
  BY <1>2, <1>4, ControllerAssumption
<1> DEFINE S == {n \in DOMAIN vers : vers[n].mtime = vers[x].mtime}
<1>6. S \in SUBSET Name /\ S # {}
  BY <1>1
<1>7. PICK y \in S : \A m \in S \ {y} : Before(y, m)
  <2> HIDE DEF S
  <2> QED
    BY <1>6, FirstName
<1>8. \A m \in DOMAIN vers \ {y} :
        \/ vers[m].mtime < vers[y].mtime
        \/ vers[m].mtime = vers[y].mtime /\ Before(y, m)
  BY <1>2, <1>5, <1>7
<1>9. /\ LastVersion \in DOMAIN vers
      /\ \A m \in DOMAIN vers \ {LastVersion} :
           \/ vers[m].mtime < vers[LastVersion].mtime
           \/ vers[m].mtime = vers[LastVersion].mtime /\ Before(LastVersion, m)
  BY <1>7, <1>8 DEF LastVersion
<1>10. PICK z \in DOMAIN vers : z = LastVersion
  BY <1>9
<1>11. \A n \in DOMAIN vers : vers[n].mtime <= vers[z].mtime
  BY <1>2, <1>9, <1>10
<1> QED
  BY <1>10, <1>11

LEMMA NewNameIsName ==
  ASSUME Typed
  PROVE  NewName \in Name
<1>1. now \in Nat /\ now <= MaxTime /\ MinuteLength \in Nat \ {0} /\ MaxTime \in Nat
      /\ Base \in Nat \ {0}
  BY ControllerAssumption DEF Typed, TypeOK, Time
<1>2. now \div MinuteLength \in 0..MaxTime \div MinuteLength
  <2>1. PICK q \in Nat, l \in Nat :
          q = now \div MinuteLength /\ l = MaxTime \div MinuteLength
    BY <1>1, Quotients
  <2>2. q <= l
    BY <2>1, <1>1, QuotientsGrow
  <2> QED
    BY <2>1, <2>2
<1>3. (IF vers = <<>> THEN 0 ELSE NextPostfix(LastVersion[2])) \in 0..Base
  <2>1. CASE vers = <<>>
    BY <2>1, <1>1
  <2>2. CASE vers # <<>>
    <3>1. LastVersion \in Name
      BY <2>2, LatestVersion DEF Typed, TypeOK
    <3>2. PICK p \in Nat : p = LastVersion[2]
      BY <3>1, <1>1, Names
    <3>3. p % Base \in 0..(Base - 1)
      BY <1>1
    <3>4. (p % Base) + 1 \in 0..Base
      BY <3>3, <1>1
    <3> QED
      BY <2>2, <3>2, <3>4 DEF NextPostfix
  <2> QED
    BY <2>1, <2>2
<1> QED
  BY <1>2, <1>3 DEF NewName, Name

LEMMA TypedInit == Init => Typed
<1> SUFFICES ASSUME Init
             PROVE  Typed
  OBVIOUS
<1>1. \A n \in DOMAIN <<>> : FALSE
  OBVIOUS
<1>2. 0 \in Time /\ Contents \subseteq File
  BY ControllerAssumption DEF Time
<1>3. main \in Stored
  BY <1>2 DEF Init, Stored
<1>4. /\ net = <<>> /\ todo = <<>> /\ vers = <<>> /\ srvVers = <<>>
      /\ recorded = <<>> /\ at = "idle" /\ now \in Time /\ linked \in BOOLEAN
      /\ copy = None /\ made = None /\ target = None /\ srvCopy = None
      /\ broken = {} /\ behind = FALSE
  BY <1>2, ControllerAssumption DEF Init
<1>5. <<>> = [n \in DOMAIN <<>> |-> <<>>[n]] /\ DOMAIN <<>> = {}
  OBVIOUS
<1>6. <<>> \in Seq(Name) /\ <<>> \in Seq(Message) /\ Len(<<>>) = 0
  OBVIOUS
<1>7. TypeOK
  BY <1>1, <1>3, <1>4, <1>6 DEF TypeOK, Message
<1> QED
  BY <1>4, <1>5, <1>6, <1>7 DEF Typed, Named

(* What a handler makes of the messages under way.                         *)
LEMMA OneMore ==
  ASSUME NEW S, NEW q \in Seq(S), NEW a \in S
  PROVE  /\ q \o <<a>> = Append(q, a) /\ q \o (<<a>> \o <<>>) = Append(q, a)
         /\ Append(q, a) \in Seq(S) /\ Len(Append(q, a)) = Len(q) + 1
         /\ Append(q, a)[Len(q) + 1] = a
         /\ \A i \in 1..Len(q) : Append(q, a)[i] = q[i]
<1>1. /\ Append(q, a) \in Seq(S) /\ Len(Append(q, a)) = Len(q) + 1
      /\ Append(q, a)[Len(q) + 1] = a
      /\ \A i \in 1..Len(q) : Append(q, a)[i] = q[i]
  BY AppendProperties
<1>2. q \o <<a>> = Append(q, a)
  OBVIOUS
<1>3. <<a>> \o <<>> = <<a>>
  OBVIOUS
<1> QED
  BY <1>1, <1>2, <1>3

LEMMA TwoMore ==
  ASSUME NEW S, NEW q \in Seq(S), NEW a \in S, NEW b \in S
  PROVE  q \o (<<a>> \o <<b>>) = Append(Append(q, a), b)
<1>1. <<a>> \in Seq(S) /\ <<b>> \in Seq(S)
  OBVIOUS
<1>2. q \o (<<a>> \o <<b>>) = (q \o <<a>>) \o <<b>>
  BY <1>1, ConcatAssociative
<1>3. q \o <<a>> = Append(q, a) /\ Append(q, a) \in Seq(S)
  BY OneMore
<1>4. Append(q, a) \o <<b>> = Append(Append(q, a), b)
  BY <1>3, OneMore
<1> QED
  BY <1>2, <1>3, <1>4

LEMMA NamedMore ==
  ASSUME NEW q \in Seq(Message), Named(q), NEW m \in Message,
         m.type = "version" => m.name \in Name
  PROVE  Append(q, m) \in Seq(Message) /\ Named(Append(q, m))
<1>1. PICK l \in Nat : l = Len(q)
  OBVIOUS
<1>2. PICK p \in Seq(Message) : /\ p = Append(q, m) /\ Len(p) = l + 1
                                /\ p[l + 1] = m
                                /\ \A i \in 1..l : p[i] = q[i]
  <2>1. /\ Append(q, m) \in Seq(Message) /\ Len(Append(q, m)) = Len(q) + 1
        /\ Append(q, m)[Len(q) + 1] = m
        /\ \A i \in 1..Len(q) : Append(q, m)[i] = q[i]
    BY OneMore
  <2> QED
    BY <1>1, <2>1
<1>3. ASSUME NEW i \in 1..(l + 1), p[i].type = "version"
      PROVE  p[i].name \in Name
  <2>1. i = l + 1 \/ i \in 1..l
    OBVIOUS
  <2> QED
    BY <2>1, <1>1, <1>2, <1>3 DEF Named
<1> QED
  BY <1>2, <1>3 DEF Named

LEMMA NamedPart ==
  ASSUME NEW q \in Seq(Message), Named(q)
  PROVE  /\ q # <<>> => /\ Head(q) \in Message
                        /\ Head(q).type = "version" => Head(q).name \in Name
                        /\ Tail(q) \in Seq(Message) /\ Named(Tail(q))
         /\ \A n \in 0..Len(q) : /\ SubSeq(q, 1, n) \in Seq(Message)
                                 /\ Named(SubSeq(q, 1, n))
<1>1. ASSUME q # <<>>
      PROVE  /\ Head(q) \in Message
             /\ Head(q).type = "version" => Head(q).name \in Name
             /\ Tail(q) \in Seq(Message) /\ Named(Tail(q))
  <2>1. /\ Head(q) \in Message /\ Head(q) = q[1] /\ 1 \in 1..Len(q)
    BY <1>1
  <2>2. /\ Tail(q) \in Seq(Message) /\ Len(Tail(q)) = Len(q) - 1
        /\ \A i \in 1..(Len(q) - 1) : Tail(q)[i] = q[i + 1] /\ i + 1 \in 1..Len(q)
    <3>1. /\ Tail(q) \in Seq(Message) /\ Len(Tail(q)) = Len(q) - 1
          /\ \A i \in 1..(Len(q) - 1) : Tail(q)[i] = q[i + 1]
      BY <1>1, HeadTailProperties
    <3>2. \A i \in 1..(Len(q) - 1) : i + 1 \in 1..Len(q)
      OBVIOUS
    <3> QED
      BY <3>1, <3>2
  <2> QED
    BY <2>1, <2>2 DEF Named
<1>2. ASSUME NEW n \in 0..Len(q)
      PROVE  SubSeq(q, 1, n) \in Seq(Message) /\ Named(SubSeq(q, 1, n))
  <2>1. PICK p : p = SubSeq(q, 1, n)
    OBVIOUS
  <2>2. \A i \in 1..n : i \in 1..Len(q) /\ q[i] \in Message
    OBVIOUS
  <2>3. p \in Seq(Message) /\ Len(p) = n /\ \A i \in 1..n : p[i] = q[i]
    BY <2>1, <2>2
  <2>4. Named(p)
    BY <2>2, <2>3 DEF Named
  <2> QED
    BY <2>1, <2>3, <2>4
<1> QED
  BY <1>1, <1>2

LEMMA TypedUpdateDiff == Typed /\ UpdateDiff => Typed'
<1> SUFFICES ASSUME Typed, UpdateDiff
             PROVE  Typed'
  OBVIOUS
<1>1. PICK x \in Name : x = NewName
  BY NewNameIsName
<1>2. /\ main \in Stored /\ copy \in Stored /\ now \in Time
      /\ main.data \in File /\ copy.data \in File
  BY DEF Typed, TypeOK, UpdateDiff, Stored
<1>3. Multiply(Text(main.data), Text(copy.data)) \in File
  BY <1>2, Texts
<1>4. PICK v \in Stored :
        v = [data |-> Multiply(Text(main.data), Text(copy.data)), mtime |-> now]
  BY <1>2, <1>3 DEF Stored
<1>5. /\ vers' = Put(vers, x, v) /\ recorded' = Put(recorded, x, copy.data)
      /\ made' = x /\ at' = "copy" /\ broken' \in {broken, DOMAIN vers'}
      /\ UNCHANGED <<main, copy, now, target, todo, linked, net, server, behind>>
  BY <1>1, <1>4 DEF UpdateDiff
<1>6. /\ DOMAIN vers' = DOMAIN vers \cup {x}
      /\ \A m \in DOMAIN vers' : vers'[m] = IF m = x THEN v ELSE vers[m]
      /\ vers' = [n \in DOMAIN vers' |-> vers'[n]]
  <2>1. vers' = [m \in DOMAIN vers \cup {x} |-> IF m = x THEN v ELSE vers[m]]
    BY <1>5 DEF Put
  <2> QED
    BY <2>1
<1>7. /\ DOMAIN recorded' = DOMAIN recorded \cup {x}
      /\ \A m \in DOMAIN recorded' :
           recorded'[m] = IF m = x THEN copy.data ELSE recorded[m]
  <2>1. recorded' = [m \in DOMAIN recorded \cup {x} |->
                       IF m = x THEN copy.data ELSE recorded[m]]
    BY <1>5 DEF Put
  <2> QED
    BY <2>1
<1>8. TypeOK'
  <2>1. DOMAIN vers' \subseteq Name /\ \A n \in DOMAIN vers' : vers'[n] \in Stored
    BY <1>6 DEF Typed, TypeOK
  <2>2. /\ DOMAIN recorded' \subseteq Name
        /\ \A n \in DOMAIN recorded' : recorded'[n] \in File
    BY <1>2, <1>7 DEF Typed, TypeOK
  <2>3. broken' \subseteq Name
    BY <2>1, <1>5 DEF Typed, TypeOK
  <2> QED
    BY <2>1, <2>2, <2>3, <1>5 DEF Typed, TypeOK, server
<1>9. copy # None /\ copy' = copy /\ net' = net
  BY <1>5 DEF UpdateDiff
<1> QED
  BY <1>5, <1>6, <1>8, <1>9 DEF Typed

LEMMA TypedSendFiles == Typed /\ SendFiles => Typed'
<1> SUFFICES ASSUME Typed, SendFiles
             PROVE  Typed'
  OBVIOUS
<1>1. /\ Text(copy.data) \in File /\ net \in Seq(Message) /\ Named(net)
  <2>1. copy \in Stored /\ copy.data \in File
    BY DEF Typed, TypeOK, SendFiles, Stored
  <2> QED
    BY <2>1, Texts DEF Typed, TypeOK, Message
<1>2. PICK a \in Message :
        /\ a = [type |-> "copy", name |-> None, data |-> Text(copy.data)]
        /\ a.type # "version"
  <2>1. PICK a : a = [type |-> "copy", name |-> None, data |-> Text(copy.data)]
    OBVIOUS
  <2>2. a \in Message /\ a.type # "version"
    BY <1>1, <2>1 DEF Message
  <2> QED
    BY <2>1, <2>2
<1>3. net' \in Seq(Message) /\ Named(net')
  <2>1. CASE ~linked
    BY <2>1, <1>1 DEF SendFiles, Post
  <2>2. CASE linked /\ made = None
    <3>1. net' = net \o (<<a>> \o <<>>)
      BY <2>2, <1>2 DEF SendFiles, Post
    <3>2. net' = Append(net, a)
      BY <3>1, <1>1, OneMore
    <3> QED
      BY <3>2, <1>1, <1>2, NamedMore
  <2>3. CASE linked /\ made # None
    <3>1. made \in Name /\ Text(vers[made].data) \in File
      <4>1. made \in Name /\ vers[made] \in Stored /\ vers[made].data \in File
        BY <2>3 DEF Typed, TypeOK, SendFiles, Stored
      <4> QED
        BY <4>1, Texts
    <3>2. PICK b \in Message :
            /\ b = [type |-> "version", name |-> made,
                    data |-> Text(vers[made].data)]
            /\ b.name \in Name
      <4>1. PICK b : b = [type |-> "version", name |-> made,
                          data |-> Text(vers[made].data)]
        OBVIOUS
      <4>2. b \in Message /\ b.name \in Name
        BY <3>1, <4>1 DEF Message
      <4> QED
        BY <4>1, <4>2
    <3>3. net' = net \o (<<a>> \o <<b>>)
      BY <2>3, <1>2, <3>2 DEF SendFiles, Post
    <3>4. net' = Append(Append(net, a), b)
      BY <3>3, <1>1, TwoMore
    <3>5. Append(net, a) \in Seq(Message) /\ Named(Append(net, a))
      BY <1>1, <1>2, NamedMore
    <3> QED
      BY <3>2, <3>4, <3>5, NamedMore
  <2> QED
    BY <2>1, <2>2, <2>3
<1>4. TypeOK'
  BY <1>3 DEF Typed, TypeOK, SendFiles, server, Message
<1>5. /\ copy' = copy /\ vers' = vers /\ at' = "idle"
  BY DEF SendFiles
<1> QED
  BY <1>3, <1>4, <1>5 DEF Typed

LEMMA TypedRestore == Typed /\ (Restore \/ AllUndone) => Typed'
<1> SUFFICES ASSUME Typed, Restore \/ AllUndone
             PROVE  Typed'
  OBVIOUS
<1>1. PICK v \in DOMAIN vers :
        /\ target' = v /\ todo' = NewestFirst(From(DOMAIN vers, v))
        /\ at' = "undo" \/ at' = "remove"
    BY DEF Typed, Restore, AllUndone
<1>2. DOMAIN vers \subseteq Name
  BY DEF Typed, TypeOK
<1>3. From(DOMAIN vers, v) \in SUBSET Name /\ From(DOMAIN vers, v) \subseteq DOMAIN vers
  BY <1>2 DEF From
<1>4. Lists(todo', From(DOMAIN vers, v))
  BY <1>1, <1>3, NewestFirstLists
<1>5. todo' \in Seq(From(DOMAIN vers, v))
  BY <1>4 DEF Lists
<1>6. todo' \in Seq(DOMAIN vers) /\ todo' \in Seq(Name)
  BY <1>2, <1>3, <1>5, SeqMonotonic
<1>7. /\ UNCHANGED <<main, copy, vers, now, made, linked, net, server,
                     recorded, broken, behind>>
  BY DEF Restore, AllUndone
<1>8. v \in Name
  BY <1>2
<1>9. TypeOK'
  BY <1>1, <1>6, <1>7, <1>8 DEF Typed, TypeOK, server
<1> QED
  BY <1>1, <1>4, <1>6, <1>7, <1>8, <1>9 DEF Typed

LEMMA TypedUndo == Typed /\ (Undo \/ CopyBack) => Typed'
<1> SUFFICES ASSUME Typed, Undo \/ CopyBack
             PROVE  Typed'
  OBVIOUS
<1>1. /\ target \in DOMAIN vers /\ todo \in Seq(DOMAIN vers) /\ todo # <<>>
      /\ todo \in Seq(Name) /\ DOMAIN vers \subseteq Name
      /\ main \in Stored /\ now \in Time
      /\ vers' = vers /\ target' = target /\ net' = net
  BY DEF Typed, TypeOK, Undo, CopyBack
<1>2. copy \in Stored
  <2>1. copy # None
    BY <1>1 DEF Typed
  <2> QED
    BY <2>1 DEF Typed, TypeOK
<1>3. CASE Undo
  <2>1. Head(todo) \in DOMAIN vers
    BY <1>1
  <2>2. copy.data \in File /\ vers[Head(todo)].data \in File
    BY <1>2, <2>1 DEF Typed, TypeOK, Stored
  <2>3. Multiply(Text(copy.data), Text(vers[Head(todo)].data)) \in File
    BY <2>2, Texts
  <2>4. main' \in Stored
    BY <1>1, <1>3, <2>3 DEF Undo, Stored
  <2>5. TypeOK'
    BY <1>3, <2>4 DEF Typed, TypeOK, Undo, server
  <2>6. copy' = copy /\ todo' = todo /\ at' = "back"
    BY <1>3 DEF Undo
  <2> QED
    BY <1>1, <2>5, <2>6 DEF Typed
<1>4. CASE CopyBack
  <2>1. Tail(todo) \in Seq(DOMAIN vers) /\ Tail(todo) \in Seq(Name)
    BY <1>1
  <2>2. /\ copy' = main /\ todo' = Tail(todo) /\ at' = "undo" /\ copy' # None
    BY <1>1, <1>4, ControllerAssumption DEF CopyBack, Copied
  <2>3. TypeOK'
    BY <1>1, <1>4, <2>1, <2>2 DEF Typed, TypeOK, CopyBack, server
  <2> QED
    BY <1>1, <2>1, <2>2, <2>3 DEF Typed
<1> QED
  BY <1>3, <1>4

(* The rest of the vector lists the rest of what is to be removed.         *)
LEMMA Removed ==
  ASSUME Typed, RemoveVersion
  PROVE  /\ Head(todo) \in From(DOMAIN vers, target)
         /\ todo' = Tail(todo) /\ target' = target
         /\ DOMAIN vers' = DOMAIN vers \ {Head(todo)}
         /\ \A n \in DOMAIN vers' : vers'[n] = vers[n]
         /\ vers' = [n \in DOMAIN vers' |-> vers'[n]]
         /\ From(DOMAIN vers', target) = From(DOMAIN vers, target) \ {Head(todo)}
         /\ Lists(todo', From(DOMAIN vers', target'))
         /\ \A n \in From(DOMAIN vers', target) : Before(n, Head(todo))
<1>1. /\ todo # <<>> /\ vers' = Without(vers, {Head(todo)})
      /\ todo' = Tail(todo) /\ target' = target
      /\ target \in Name /\ Lists(todo, From(DOMAIN vers, target))
      /\ DOMAIN vers \subseteq Name
  BY DEF Typed, TypeOK, RemoveVersion
<1>2. From(DOMAIN vers, target) \in SUBSET Name
  BY <1>1 DEF From
<1>3. PICK S \in SUBSET Name : S = From(DOMAIN vers, target)
  BY <1>2
<1>4. PICK s : s = todo /\ Lists(s, S) /\ s # <<>>
  BY <1>1, <1>3
<1>5. /\ Head(s) \in S /\ Lists(Tail(s), S \ {Head(s)})
      /\ \A n \in S \ {Head(s)} : Before(n, Head(s))
  BY <1>4, ListTail
<1>6. vers' = [n \in DOMAIN vers \ {Head(todo)} |-> vers[n]]
  BY <1>1 DEF Without
<1>7. /\ DOMAIN vers' = DOMAIN vers \ {Head(todo)}
      /\ \A n \in DOMAIN vers' : vers'[n] = vers[n]
      /\ vers' = [n \in DOMAIN vers' |-> vers'[n]]
  BY <1>6
<1>8. From(DOMAIN vers', target) = From(DOMAIN vers, target) \ {Head(todo)}
  BY <1>7 DEF From
<1> QED
  BY <1>1, <1>3, <1>4, <1>5, <1>7, <1>8

LEMMA TypedRemoveVersion == Typed /\ RemoveVersion => Typed'
<1> SUFFICES ASSUME Typed, RemoveVersion
             PROVE  Typed'
  OBVIOUS
<1>1. /\ DOMAIN vers' = DOMAIN vers \ {Head(todo)}
      /\ \A n \in DOMAIN vers' : vers'[n] = vers[n]
      /\ vers' = [n \in DOMAIN vers' |-> vers'[n]]
      /\ Lists(todo', From(DOMAIN vers', target'))
      /\ todo' = Tail(todo)
  BY Removed
<1>2. /\ todo' \in Seq(Name) /\ target' = target /\ target \in Name
      /\ at' = "remove" /\ copy' = copy /\ net' = net
  BY <1>1 DEF Typed, TypeOK, RemoveVersion
<1>3. broken' \subseteq Name
  BY DEF Typed, TypeOK, RemoveVersion
<1>4. DOMAIN vers' \subseteq Name /\ \A n \in DOMAIN vers' : vers'[n] \in Stored
  BY <1>1 DEF Typed, TypeOK
<1>5. TypeOK'
  BY <1>2, <1>3, <1>4 DEF Typed, TypeOK, RemoveVersion, server
<1> QED
  BY <1>1, <1>2, <1>5 DEF Typed

(* The message at the end of a restore, of a version that was there or not.*)
LEMMA RestorePosted ==
  ASSUME Typed, NEW v \in Name,
         Post(<<[type |-> "restore", name |-> v, data |-> <<>>]>>)
  PROVE  net' \in Seq(Message) /\ Named(net')
<1>1. net \in Seq(Message) /\ Named(net)
  BY DEF Typed, TypeOK, Message
<1>2. CASE ~linked
  BY <1>1, <1>2 DEF Post
<1>3. CASE linked
  <2>1. PICK a : a = [type |-> "restore", name |-> v, data |-> <<>>]
    OBVIOUS
  <2>2. a \in Message /\ a.type # "version"
    <3>1. <<>> \in File
      BY DEF File
    <3> QED
      BY <2>1, <3>1 DEF Message
  <2>3. net' = net \o <<a>>
    BY <1>3, <2>1 DEF Post
  <2>4. net' = Append(net, a)
    BY <1>1, <2>2, <2>3, OneMore
  <2> QED
    BY <1>1, <2>2, <2>4, NamedMore
<1> QED
  BY <1>2, <1>3

LEMMA TypedRestoreUnknown == Typed /\ RestoreUnknown => Typed'
<1> SUFFICES ASSUME Typed, RestoreUnknown
             PROVE  Typed'
  OBVIOUS
<1>1. net' \in Seq(Message) /\ Named(net')
  BY RestorePosted DEF RestoreUnknown
<1>2. UNCHANGED <<main, copy, vers, now, cli, linked, server, recorded, broken,
                  behind>>
  BY DEF RestoreUnknown
<1>3. TypeOK'
  BY <1>1, <1>2 DEF Typed, TypeOK, cli, server, Message
<1> QED
  BY <1>1, <1>2, <1>3 DEF Typed, cli

LEMMA TypedTellServer == Typed /\ TellServer => Typed'
<1> SUFFICES ASSUME Typed, TellServer
             PROVE  Typed'
  OBVIOUS
<1>1. target \in Name
  BY DEF Typed, TellServer
<1>2. net' \in Seq(Message) /\ Named(net')
  BY <1>1, RestorePosted DEF TellServer
<1>3. /\ DOMAIN recorded' \subseteq Name
      /\ \A n \in DOMAIN recorded' : recorded'[n] \in File
  BY DEF Typed, TypeOK, TellServer, Without
<1>4. TypeOK'
  BY <1>2, <1>3 DEF Typed, TypeOK, TellServer, server, Message
<1>5. copy' = copy /\ vers' = vers /\ at' = "idle"
  BY DEF TellServer
<1> QED
  BY <1>2, <1>4, <1>5 DEF Typed

LEMMA TypedCrash == Typed /\ Crash => Typed'
<1> SUFFICES ASSUME Typed, Crash
             PROVE  Typed'
  OBVIOUS
<1>1. net \in Seq(Message) /\ Named(net)
  BY DEF Typed, TypeOK, Message
<1>2. net' \in Seq(Message) /\ Named(net')
  BY <1>1, NamedPart DEF Crash
<1>3. todo' \in Seq(Name)
  BY DEF Crash
<1>4. broken' \subseteq Name
  BY DEF Typed, TypeOK, Crash
<1>5. TypeOK'
  BY <1>2, <1>3, <1>4 DEF Typed, TypeOK, Crash, server, Message
<1>6. copy' = copy /\ vers' = vers /\ at' = "idle"
  BY DEF Crash
<1> QED
  BY <1>2, <1>5, <1>6 DEF Typed

LEMMA TypedServerHandles == Typed /\ ServerHandles => Typed'
<1> SUFFICES ASSUME Typed, ServerHandles
             PROVE  Typed'
  OBVIOUS
<1>1. net \in Seq(Message) /\ Named(net) /\ net # <<>>
  BY DEF Typed, TypeOK, ServerHandles, Message
<1>2. PICK m \in Message : m = Head(net) /\ (m.type = "version" => m.name \in Name)
  BY <1>1, NamedPart
<1>3. net' \in Seq(Message) /\ Named(net')
  BY <1>1, NamedPart DEF ServerHandles
<1>4. m.type \in {"copy", "version", "restore"} /\ m.data \in File
  BY DEF Message
<1>5. srvCopy' \in File \cup {None}
  BY <1>2, <1>4 DEF Typed, TypeOK, ServerHandles
<1>6. /\ DOMAIN srvVers' \subseteq Name
      /\ \A n \in DOMAIN srvVers' : srvVers'[n] \in File
  <2>1. DOMAIN srvVers \subseteq Name /\ \A n \in DOMAIN srvVers : srvVers[n] \in File
    BY DEF Typed, TypeOK
  <2>2. CASE m.type = "copy"
    BY <1>2, <2>1, <2>2 DEF ServerHandles
  <2>3. CASE m.type = "version"
    <3>1. srvVers' = Put(srvVers, m.name, m.data)
      BY <1>2, <2>3 DEF ServerHandles
    <3> QED
      BY <1>2, <1>4, <2>1, <2>3, <3>1 DEF Put
  <2>4. CASE m.type = "restore"
    <3>1. srvVers' = AfterRestore(srvVers, m.name)
      BY <1>2, <2>4 DEF ServerHandles
    <3> QED
      BY <2>1, <3>1 DEF AfterRestore, Without
  <2> QED
    BY <1>4, <2>2, <2>3, <2>4
<1>7. TypeOK'
  BY <1>3, <1>5, <1>6 DEF Typed, TypeOK, ServerHandles, cli, Message
<1>8. UNCHANGED <<copy, vers, at, made, target, todo>>
  BY DEF ServerHandles, cli
<1> QED
  BY <1>3, <1>7, <1>8 DEF Typed

LEMMA TypedCopies == Typed /\ (Add \/ UpdateCopy \/ Observe) => Typed'
<1> SUFFICES ASSUME Typed, Add \/ UpdateCopy \/ Observe
             PROVE  Typed'
  OBVIOUS
<1>1. copy' = main /\ main \in Stored /\ copy' # None /\ vers' = vers /\ net' = net
  BY ControllerAssumption DEF Typed, TypeOK, Add, UpdateCopy, Observe, Copied
<1>2. broken' \subseteq Name /\ behind' \in BOOLEAN /\ recorded' = recorded
  <2>1. broken \subseteq Name /\ DOMAIN vers \subseteq Name /\ behind \in BOOLEAN
    BY DEF Typed, TypeOK
  <2>2. broken' \in {broken, DOMAIN vers}
    BY DEF Add, UpdateCopy, Observe
  <2>3. behind' \in {behind, TRUE} /\ recorded' = recorded
    BY DEF Add, UpdateCopy, Observe
  <2> QED
    BY <2>1, <2>2, <2>3
<1>3. TypeOK'
  BY <1>1, <1>2 DEF Typed, TypeOK, Add, UpdateCopy, Observe, server, cli
<1>4. CASE Add
  BY <1>1, <1>3, <1>4 DEF Typed, Add
<1>5. CASE UpdateCopy
  BY <1>1, <1>3, <1>5 DEF Typed, UpdateCopy
<1>6. CASE Observe
  BY <1>1, <1>3, <1>6 DEF Typed, Observe, cli
<1> QED
  BY <1>4, <1>5, <1>6

LEMMA TypedStep == Typed /\ [Next]_vars => Typed'
<1> SUFFICES ASSUME Typed, [Next]_vars
             PROVE  Typed'
  OBVIOUS
<1>1. CASE Edit
  <2>1. main' \in Stored
    BY <1>1, ControllerAssumption DEF Typed, TypeOK, Edit, Stored
  <2>2. broken' \subseteq Name
    BY <1>1 DEF Typed, TypeOK, Edit
  <2> QED
    BY <1>1, <2>1, <2>2 DEF Typed, TypeOK, Edit, server, cli, Message
<1>2. CASE Tick
  <2>1. now' \in Time
    BY <1>2, ControllerAssumption DEF Typed, TypeOK, Tick, Time
  <2> QED
    BY <1>2, <2>1 DEF Typed, TypeOK, Tick, server, cli
<1>3. CASE UNCHANGED vars
  BY <1>3 DEF Typed, TypeOK, vars, server, cli
<1> QED
  BY <1>1, <1>2, <1>3, TypedUpdateDiff, TypedSendFiles, TypedRestore, TypedUndo,
     TypedRemoveVersion, TypedTellServer, TypedRestoreUnknown, TypedCrash,
     TypedServerHandles, TypedCopies DEF Next

(* The variables keep their types, and every command finds the files that  *)
(* it opens: the copy when it sends or restores, the version that it sends *)
(* or undoes.                                                              *)
THEOREM HistoryTypes == Spec => []Typed
  BY TypedInit, TypedStep, PTL DEF Spec

------------------------------------------------------------------------------
(* The server *)

LEMMA ReplaysNothing ==
  ASSUME NEW c0, NEW f0, NEW c1, NEW f1
  PROVE  Replays(<<>>, c0, f0, c1, f1) <=> c0 = c1 /\ f0 = f1
<1>1. Len(<<>>) = 0 /\ 1..0 = {}
  OBVIOUS
<1>2. Replays(<<>>, c0, f0, c1, f1) => c0 = c1 /\ f0 = f1
  BY <1>1 DEF Replays
<1>3. ASSUME c0 = c1, f0 = f1
      PROVE  Replays(<<>>, c0, f0, c1, f1)
  <2>1. PICK c, f : c = [i \in {0} |-> c0] /\ f = [i \in {0} |-> f0]
    OBVIOUS
  <2>2. c[0] = c0 /\ f[0] = f0
    BY <2>1
  <2> QED
    BY <1>1, <1>3, <2>2 DEF Replays
<1> QED
  BY <1>2, <1>3

LEMMA ReplaysOneMore ==
  ASSUME NEW q \in Seq(Message), NEW m \in Message,
         NEW c0, NEW f0, NEW c1, NEW f1, Replays(q, c0, f0, c1, f1)
  PROVE  Replays(Append(q, m), c0, f0, HandledCopy(c1, m), HandledVers(f1, m))
<1>1. PICK l \in Nat : l = Len(q)
  OBVIOUS
<1>2. PICK c, f :
        /\ c[0] = c0 /\ f[0] = f0
        /\ \A i \in 1..l : /\ c[i] = HandledCopy(c[i - 1], q[i])
                           /\ f[i] = HandledVers(f[i - 1], q[i])
        /\ c[l] = c1 /\ f[l] = f1
  BY <1>1 DEF Replays
<1>3. PICK p : p = Append(q, m)
  OBVIOUS
<1>4. Len(p) = l + 1 /\ p[l + 1] = m /\ \A i \in 1..l : p[i] = q[i]
  <2>1. /\ Len(Append(q, m)) = Len(q) + 1 /\ Append(q, m)[Len(q) + 1] = m
        /\ \A i \in 1..Len(q) : Append(q, m)[i] = q[i]
    BY OneMore
  <2> QED
    BY <1>1, <1>3, <2>1
<1>5. PICK d : d = [i \in 0..(l + 1) |->
                      IF i <= l THEN c[i] ELSE HandledCopy(c1, m)]
  OBVIOUS
<1>6. PICK g : g = [i \in 0..(l + 1) |->
                      IF i <= l THEN f[i] ELSE HandledVers(f1, m)]
  OBVIOUS
<1>7. /\ \A i \in 0..l : d[i] = c[i] /\ g[i] = f[i]
      /\ d[l + 1] = HandledCopy(c1, m) /\ g[l + 1] = HandledVers(f1, m)
  BY <1>5, <1>6
<1>8. ASSUME NEW i \in 1..(l + 1)
      PROVE  /\ d[i] = HandledCopy(d[i - 1], p[i])
             /\ g[i] = HandledVers(g[i - 1], p[i])
  <2>1. CASE i = l + 1
    <3>1. i - 1 = l /\ l \in 0..l
      BY <2>1
    <3> QED
      BY <2>1, <3>1, <1>2, <1>4, <1>7
  <2>2. CASE i # l + 1
    <3>1. i \in 1..l /\ i \in 0..l /\ i - 1 \in 0..l
      BY <2>2
    <3> QED
      BY <3>1, <1>2, <1>4, <1>7
  <2> QED
    BY <2>1, <2>2
<1>9. d[0] = c0 /\ g[0] = f0
  BY <1>2, <1>7
<1> QED
  BY <1>3, <1>4, <1>7, <1>8, <1>9 DEF Replays

LEMMA ReplaysTheRest ==
  ASSUME NEW q \in Seq(Message), q # <<>>,
         NEW c0, NEW f0, NEW c1, NEW f1, Replays(q, c0, f0, c1, f1)
  PROVE  Replays(Tail(q), HandledCopy(c0, Head(q)), HandledVers(f0, Head(q)),
                 c1, f1)
<1>1. PICK l \in Nat : l = Len(q) - 1 /\ Len(q) = l + 1
  <2>1. Len(q) - 1 \in Nat /\ Len(q) = (Len(q) - 1) + 1
    OBVIOUS
  <2> QED
    BY <2>1
<1>2. PICK c, f :
        /\ c[0] = c0 /\ f[0] = f0
        /\ \A i \in 1..(l + 1) : /\ c[i] = HandledCopy(c[i - 1], q[i])
                                 /\ f[i] = HandledVers(f[i - 1], q[i])
        /\ c[l + 1] = c1 /\ f[l + 1] = f1
  BY <1>1 DEF Replays
<1>3. PICK p : p = Tail(q)
  OBVIOUS
<1>4. Len(p) = l /\ \A i \in 1..l : p[i] = q[i + 1]
  <2>1. /\ Len(Tail(q)) = Len(q) - 1
        /\ \A i \in 1..(Len(q) - 1) : Tail(q)[i] = q[i + 1]
    BY HeadTailProperties
  <2> QED
    BY <1>1, <1>3, <2>1
<1>5. PICK d : d = [i \in 0..l |-> c[i + 1]]
  OBVIOUS
<1>6. PICK g : g = [i \in 0..l |-> f[i + 1]]
  OBVIOUS
<1>7. \A i \in 0..l : d[i] = c[i + 1] /\ g[i] = f[i + 1]
  BY <1>5, <1>6
<1>8. ASSUME NEW i \in 1..l
      PROVE  /\ d[i] = HandledCopy(d[i - 1], p[i])
             /\ g[i] = HandledVers(g[i - 1], p[i])
  <2>1. /\ i + 1 \in 1..(l + 1) /\ (i + 1) - 1 = i
        /\ i - 1 \in 0..l /\ (i - 1) + 1 = i /\ i \in 0..l
    OBVIOUS
  <2>2. /\ c[i + 1] = HandledCopy(c[i], q[i + 1])
        /\ f[i + 1] = HandledVers(f[i], q[i + 1])
    BY <2>1, <1>2
  <2>3. d[i] = c[i + 1] /\ d[i - 1] = c[i] /\ g[i] = f[i + 1] /\ g[i - 1] = f[i]
    BY <2>1, <1>7
  <2> QED
    BY <2>2, <2>3, <1>4
<1>9. d[0] = HandledCopy(c0, Head(q)) /\ g[0] = HandledVers(f0, Head(q))
  <2>1. 1 \in 1..(l + 1) /\ 1 - 1 = 0 /\ 0 \in 0..l /\ 0 + 1 = 1 /\ Head(q) = q[1]
    OBVIOUS
  <2> QED
    BY <2>1, <1>2, <1>7
<1>10. d[l] = c1 /\ g[l] = f1
  BY <1>2, <1>7
<1> QED
  BY <1>3, <1>4, <1>8, <1>9, <1>10 DEF Replays

LEMMA MirrorInit == Init => MirrorInv
<1> SUFFICES ASSUME Init
             PROVE  MirrorInv
  OBVIOUS
<1>1. Replays(net, srvCopy, srvVers, srvCopy, srvVers)
  BY ReplaysNothing DEF Init
<1>2. vers = <<>> /\ srvVers = <<>> /\ srvCopy = None /\ copy = None /\ at = "idle"
  BY DEF Init
<1>3. Mirrors(srvCopy, srvVers)
  BY <1>2 DEF Mirrors, SameVersions
<1> QED
  BY <1>1, <1>3 DEF MirrorInv

(* A step that posts nothing, as the client sees it.                       *)
LEMMA MirrorKept ==
  ASSUME MirrorInv, UNCHANGED <<linked, net, server>>,
         \A c, f : Mirrors(c, f) => Mirrors(c, f)'
  PROVE  MirrorInv'
<1>1. SUFFICES ASSUME linked'
               PROVE  \E c, f : Replays(net, srvCopy, srvVers, c, f)' /\ Mirrors(c, f)'
  BY DEF MirrorInv
<1>2. PICK c, f : Replays(net, srvCopy, srvVers, c, f) /\ Mirrors(c, f)
  BY <1>1 DEF MirrorInv
<1>3. Replays(net, srvCopy, srvVers, c, f)' /\ Mirrors(c, f)'
  BY <1>2 DEF server
<1> QED
  BY <1>3

LEMMA MirrorSendFiles == Typed /\ MirrorInv /\ SendFiles => MirrorInv'
<1> SUFFICES ASSUME Typed, MirrorInv, SendFiles, linked
             PROVE  MirrorInv'
  BY DEF MirrorInv, SendFiles
<1>1. net \in Seq(Message) /\ copy # None
  BY DEF Typed, TypeOK, SendFiles, Message
<1>2. PICK a \in Message, d \in File :
        d = Text(copy.data) /\ a = [type |-> "copy", name |-> None, data |-> d]
  <2>1. copy \in Stored /\ copy.data \in File
    BY DEF Typed, TypeOK, SendFiles, Stored
  <2>2. PICK d \in File : d = Text(copy.data)
    BY <2>1, Texts
  <2>3. [type |-> "copy", name |-> None, data |-> d] \in Message
    BY DEF Message
  <2> QED
    BY <2>2, <2>3
<1>3. PICK c, f : Replays(net, srvCopy, srvVers, c, f) /\ Mirrors(c, f)
  BY DEF MirrorInv
<1>4. /\ at = "send" /\ at' = "idle" /\ vers' = vers /\ copy' = copy
      /\ srvCopy' = srvCopy /\ srvVers' = srvVers
  BY DEF SendFiles, server
<1>5. Append(net, a) \in Seq(Message)
  BY <1>1, OneMore
<1>6. Replays(Append(net, a), srvCopy, srvVers, d, f)
  <2>1. HandledCopy(c, a) = d /\ HandledVers(f, a) = f
    BY <1>2 DEF HandledCopy, HandledVers
  <2>2. Replays(Append(net, a), srvCopy, srvVers, HandledCopy(c, a), HandledVers(f, a))
    BY <1>1, <1>3, ReplaysOneMore
  <2> QED
    BY <2>1, <2>2
<1>7. CASE made = None
  <2>1. net' = net \o (<<a>> \o <<>>)
    BY <1>2, <1>7 DEF SendFiles, Post
  <2>2. net' = Append(net, a)
    BY <2>1, <1>1, OneMore
  <2>3. Replays(net, srvCopy, srvVers, d, f)'
    BY <2>2, <1>4, <1>6
  <2>4. SameVersions(f)
    BY <1>3, <1>4, <1>7 DEF Mirrors
  <2>5. Mirrors(d, f)'
    BY <2>4, <1>1, <1>2, <1>4 DEF Mirrors, SameVersions
  <2> QED
    BY <2>3, <2>5, <1>4 DEF MirrorInv
<1>8. CASE made # None
  <2>1. PICK e \in File :
          e = Text(vers[made].data) /\ made \in DOMAIN vers /\ made \in Name
    <3>1. made \in DOMAIN vers /\ made \in Name /\ vers[made].data \in File
      BY <1>4, <1>8 DEF Typed, TypeOK, Stored
    <3> QED
      BY <3>1, Texts
  <2>2. PICK b \in Message : b = [type |-> "version", name |-> made, data |-> e]
    <3>1. [type |-> "version", name |-> made, data |-> e] \in Message
      BY <2>1 DEF Message
    <3> QED
      BY <3>1
  <2>3. net' = net \o (<<a>> \o <<b>>)
    BY <1>2, <1>8, <2>1, <2>2 DEF SendFiles, Post
  <2>4. net' = Append(Append(net, a), b)
    BY <2>3, <1>1, TwoMore
  <2>5. PICK g : g = Put(f, made, e)
    OBVIOUS
  <2>6. HandledCopy(d, b) = d /\ HandledVers(f, b) = g
    BY <2>2, <2>5 DEF HandledCopy, HandledVers
  <2>7. Replays(Append(Append(net, a), b), srvCopy, srvVers, d, g)
    <3>1. Replays(Append(Append(net, a), b), srvCopy, srvVers,
                  HandledCopy(d, b), HandledVers(f, b))
      BY <1>5, <1>6, ReplaysOneMore
    <3> QED
      BY <2>6, <3>1
  <2>8. Replays(net, srvCopy, srvVers, d, g)'
    BY <2>4, <2>7, <1>4
  <2>9. SameVersions(g)
    <3>1. /\ DOMAIN f \ {made} = DOMAIN vers \ {made}
          /\ \A n \in DOMAIN vers \ {made} : f[n] = Text(vers[n].data)
      BY <1>3, <1>4, <1>8 DEF Mirrors
    <3>2. /\ DOMAIN g = DOMAIN f \cup {made} /\ g[made] = e
          /\ \A n \in DOMAIN f \ {made} : g[n] = f[n]
      BY <2>5 DEF Put
    <3> QED
      BY <2>1, <3>1, <3>2 DEF SameVersions
  <2>10. Mirrors(d, g)'
    BY <2>9, <1>1, <1>2, <1>4 DEF Mirrors, SameVersions
  <2> QED
    BY <2>8, <2>10, <1>4 DEF MirrorInv
<1> QED
  BY <1>7, <1>8

LEMMA MirrorTellServer == Typed /\ MirrorInv /\ TellServer => MirrorInv'
<1> SUFFICES ASSUME Typed, MirrorInv, TellServer, linked
             PROVE  MirrorInv'
  BY DEF MirrorInv, TellServer
<1>1. /\ net \in Seq(Message) /\ target \in Name /\ todo = <<>>
      /\ Lists(todo, From(DOMAIN vers, target)) /\ DOMAIN vers \subseteq Name
  BY DEF Typed, TypeOK, TellServer, Message
<1>2. PICK a \in Message :
        a = [type |-> "restore", name |-> target, data |-> <<>>]
  <2>1. <<>> \in File
    BY DEF File
  <2>2. [type |-> "restore", name |-> target, data |-> <<>>] \in Message
    BY <1>1, <2>1 DEF Message
  <2> QED
    BY <2>2
<1>3. PICK c, f : Replays(net, srvCopy, srvVers, c, f) /\ Mirrors(c, f)
  BY DEF MirrorInv
<1>4. /\ at = "remove" /\ at' = "idle" /\ behind' = TRUE /\ vers' = vers
      /\ srvCopy' = srvCopy /\ srvVers' = srvVers
  BY DEF TellServer, server
<1>5. net' = Append(net, a)
  <2>1. net' = net \o <<a>>
    BY <1>2 DEF TellServer, Post
  <2> QED
    BY <2>1, <1>1, OneMore
<1>6. /\ target \in DOMAIN f /\ DOMAIN vers \subseteq DOMAIN f
      /\ \A n \in DOMAIN vers : f[n] = Text(vers[n].data)
      /\ \A n \in DOMAIN f \ DOMAIN vers : ~Before(n, target)
  BY <1>3, <1>4 DEF Mirrors
<1>7. PICK g : g = Without(f, From(DOMAIN f, target))
  OBVIOUS
<1>8. HandledCopy(c, a) = c /\ HandledVers(f, a) = g
  BY <1>2, <1>6, <1>7 DEF HandledCopy, HandledVers, AfterRestore
<1>9. Replays(net, srvCopy, srvVers, c, g)'
  <2>1. Replays(Append(net, a), srvCopy, srvVers, HandledCopy(c, a), HandledVers(f, a))
    BY <1>1, <1>3, ReplaysOneMore
  <2> QED
    BY <2>1, <1>4, <1>5, <1>8
<1>10. \A n \in DOMAIN vers : Before(n, target)
  <2>1. From(DOMAIN vers, target) = {}
    BY <1>1 DEF Lists
  <2> QED
    BY <2>1 DEF From
<1>11. /\ DOMAIN g = {n \in DOMAIN f : Before(n, target)}
       /\ \A n \in DOMAIN g : g[n] = f[n]
  BY <1>7 DEF Without, From
<1>12. SameVersions(g)
  BY <1>6, <1>10, <1>11 DEF SameVersions
<1>13. Mirrors(c, g)'
  BY <1>4, <1>12 DEF Mirrors, SameVersions
<1> QED
  BY <1>9, <1>13 DEF MirrorInv

(* The server ignores a version that the client does not have either.      *)
LEMMA MirrorRestoreUnknown ==
  Typed /\ MirrorInv /\ RestoreUnknown => MirrorInv'
<1> SUFFICES ASSUME Typed, MirrorInv, RestoreUnknown, linked
             PROVE  MirrorInv'
  BY DEF MirrorInv, RestoreUnknown
<1>1. PICK v \in Name \ DOMAIN vers :
        Post(<<[type |-> "restore", name |-> v, data |-> <<>>]>>)
  BY DEF RestoreUnknown
<1>2. PICK a \in Message : a = [type |-> "restore", name |-> v, data |-> <<>>]
  <2>1. <<>> \in File
    BY DEF File
  <2>2. [type |-> "restore", name |-> v, data |-> <<>>] \in Message
    BY <2>1 DEF Message
  <2> QED
    BY <2>2
<1>3. PICK c, f : Replays(net, srvCopy, srvVers, c, f) /\ Mirrors(c, f)
  BY DEF MirrorInv
<1>4. at = "idle" /\ net \in Seq(Message)
  BY DEF RestoreUnknown, Typed, TypeOK, Message
<1>5. net' = Append(net, a)
  <2>1. net' = net \o <<a>>
    BY <1>1, <1>2 DEF Post
  <2> QED
    BY <2>1, <1>4, OneMore
<1>6. v \notin DOMAIN f
  BY <1>1, <1>3, <1>4 DEF Mirrors, SameVersions
<1>7. HandledCopy(c, a) = c /\ HandledVers(f, a) = f
  BY <1>2, <1>6 DEF HandledCopy, HandledVers, AfterRestore
<1>8. UNCHANGED <<copy, vers, cli, server, behind>>
  BY DEF RestoreUnknown
<1>9. Replays(net, srvCopy, srvVers, c, f)'
  <2>1. Replays(Append(net, a), srvCopy, srvVers, HandledCopy(c, a), HandledVers(f, a))
    BY <1>3, <1>4, ReplaysOneMore
  <2> QED
    BY <2>1, <1>5, <1>7, <1>8 DEF server
<1>10. Mirrors(c, f)'
  BY <1>3, <1>8 DEF Mirrors, SameVersions, cli
<1> QED
  BY <1>9, <1>10 DEF MirrorInv

LEMMA MirrorServerHandles == Typed /\ MirrorInv /\ ServerHandles => MirrorInv'
<1> SUFFICES ASSUME Typed, MirrorInv, ServerHandles, linked
             PROVE  MirrorInv'
  BY DEF MirrorInv, ServerHandles
<1>1. net \in Seq(Message) /\ net # <<>>
  BY DEF Typed, TypeOK, ServerHandles, Message
<1>2. PICK c, f : Replays(net, srvCopy, srvVers, c, f) /\ Mirrors(c, f)
  BY DEF MirrorInv
<1>3. /\ net' = Tail(net)
      /\ srvCopy' = HandledCopy(srvCopy, Head(net))
      /\ srvVers' = HandledVers(srvVers, Head(net))
  BY DEF ServerHandles, HandledCopy, HandledVers
<1>4. Replays(net, srvCopy, srvVers, c, f)'
  <2>1. Replays(Tail(net), HandledCopy(srvCopy, Head(net)),
                HandledVers(srvVers, Head(net)), c, f)
    BY <1>1, <1>2, ReplaysTheRest
  <2> QED
    BY <1>3, <2>1
<1>5. Mirrors(c, f)'
  BY <1>2 DEF ServerHandles, cli, Mirrors, SameVersions
<1> QED
  BY <1>4, <1>5 DEF MirrorInv

LEMMA MirrorUpdateDiff == Typed /\ MirrorInv /\ UpdateDiff => MirrorInv'
<1> SUFFICES ASSUME Typed, MirrorInv, UpdateDiff
             PROVE  MirrorInv'
  OBVIOUS
<1>1. /\ at = "idle" /\ at' = "copy" /\ made' = NewName
      /\ UNCHANGED <<linked, net, server>>
  BY DEF UpdateDiff
<1>2. /\ DOMAIN vers' = DOMAIN vers \cup {NewName}
      /\ \A n \in DOMAIN vers \ {NewName} : vers'[n] = vers[n]
  BY DEF UpdateDiff, Put
<1>3. ASSUME NEW c, NEW f, Mirrors(c, f)
      PROVE  Mirrors(c, f)'
  <2>1. SameVersions(f)
    BY <1>1, <1>3 DEF Mirrors
  <2>2. /\ DOMAIN f \ {made'} = DOMAIN vers' \ {made'}
        /\ \A n \in DOMAIN vers' \ {made'} : f[n] = Text(vers'[n].data)
    BY <2>1, <1>1, <1>2 DEF SameVersions
  <2> QED
    BY <2>2, <1>1 DEF Mirrors
<1> QED
  BY <1>1, <1>3, MirrorKept

LEMMA MirrorRemoveVersion == Typed /\ MirrorInv /\ RemoveVersion => MirrorInv'
<1> SUFFICES ASSUME Typed, MirrorInv, RemoveVersion
             PROVE  MirrorInv'
  OBVIOUS
<1>1. at = "remove" /\ at' = "remove" /\ UNCHANGED <<linked, net, server>>
  BY DEF RemoveVersion
<1>2. /\ DOMAIN vers' = DOMAIN vers \ {Head(todo)} /\ target' = target
      /\ \A n \in DOMAIN vers' : vers'[n] = vers[n]
      /\ ~Before(Head(todo), target)
  <2>1. Head(todo) \in From(DOMAIN vers, target)
    BY Removed
  <2> QED
    BY <2>1, Removed DEF From
<1>3. ASSUME NEW c, NEW f, Mirrors(c, f)
      PROVE  Mirrors(c, f)'
  <2>1. /\ target \in DOMAIN f /\ DOMAIN vers \subseteq DOMAIN f
        /\ \A n \in DOMAIN vers : f[n] = Text(vers[n].data)
        /\ \A n \in DOMAIN f \ DOMAIN vers : ~Before(n, target)
    BY <1>1, <1>3 DEF Mirrors
  <2>2. /\ target' \in DOMAIN f /\ DOMAIN vers' \subseteq DOMAIN f
        /\ \A n \in DOMAIN vers' : f[n] = Text(vers'[n].data)
        /\ \A n \in DOMAIN f \ DOMAIN vers' : ~Before(n, target')
    BY <1>2, <2>1
  <2> QED
    BY <1>1, <2>2 DEF Mirrors
<1> QED
  BY <1>1, <1>3, MirrorKept

LEMMA MirrorStep == Typed /\ MirrorInv /\ [Next]_vars => MirrorInv'
<1> SUFFICES ASSUME Typed, MirrorInv, [Next]_vars
             PROVE  MirrorInv'
  OBVIOUS
<1>1. CASE Edit \/ Tick
  <2>1. UNCHANGED <<linked, net, server, copy, vers, at, made, target, behind>>
    BY <1>1 DEF Edit, Tick, cli
  <2>2. \A c, f : Mirrors(c, f) => Mirrors(c, f)'
    BY <2>1 DEF Mirrors, SameVersions
  <2> QED
    BY <2>1, <2>2, MirrorKept
<1>2. CASE Add
  <2>1. /\ at = "idle" /\ at' = "send" /\ made' = None
        /\ UNCHANGED <<linked, net, server, vers>>
    BY <1>2 DEF Add
  <2>2. \A c, f : Mirrors(c, f) => Mirrors(c, f)'
    BY <2>1 DEF Mirrors, SameVersions
  <2> QED
    BY <2>1, <2>2, MirrorKept
<1>3. CASE UpdateCopy
  <2>1. /\ at = "copy" /\ at' = "send" /\ made' = made /\ made \in DOMAIN vers
        /\ made # None
        /\ UNCHANGED <<linked, net, server, vers>>
    BY <1>3, ControllerAssumption DEF UpdateCopy, Typed, TypeOK
  <2>2. \A c, f : Mirrors(c, f) => Mirrors(c, f)'
    BY <2>1 DEF Mirrors, SameVersions
  <2> QED
    BY <2>1, <2>2, MirrorKept
<1>4. CASE Restore \/ Undo \/ CopyBack
  <2>1. /\ at \in {"idle", "undo", "back"} /\ at' \in {"undo", "back"}
        /\ UNCHANGED <<linked, net, server, vers>>
    BY <1>4 DEF Restore, Undo, CopyBack
  <2>2. \A c, f : Mirrors(c, f) => Mirrors(c, f)'
    BY <2>1 DEF Mirrors, SameVersions
  <2> QED
    BY <2>1, <2>2, MirrorKept
<1>5. CASE AllUndone
  <2>1. /\ at = "undo" /\ at' = "remove" /\ target' = target
        /\ UNCHANGED <<linked, net, server, vers>>
    BY <1>5 DEF AllUndone
  <2>2. target \in DOMAIN vers
    BY <2>1 DEF Typed
  <2>3. \A c, f : Mirrors(c, f) => Mirrors(c, f)'
    BY <2>1, <2>2 DEF Mirrors, SameVersions
  <2> QED
    BY <2>1, <2>3, MirrorKept
<1>6. CASE Observe
  <2>1. behind' = TRUE /\ UNCHANGED <<linked, net, server, vers, at, made, target>>
    BY <1>6 DEF Observe, cli
  <2>2. \A c, f : Mirrors(c, f) => Mirrors(c, f)'
    BY <2>1 DEF Mirrors, SameVersions
  <2> QED
    BY <2>1, <2>2, MirrorKept
<1>7. CASE Crash
  BY <1>7 DEF Crash, MirrorInv
<1>8. CASE UNCHANGED vars
  <2>1. UNCHANGED <<linked, net, server, copy, vers, at, made, target, behind>>
    BY <1>8 DEF vars, server
  <2>2. \A c, f : Mirrors(c, f) => Mirrors(c, f)'
    BY <2>1 DEF Mirrors, SameVersions
  <2> QED
    BY <2>1, <2>2, MirrorKept
<1> QED
  BY <1>1, <1>2, <1>3, <1>4, <1>5, <1>6, <1>7, <1>8, MirrorSendFiles,
     MirrorTellServer, MirrorRestoreUnknown, MirrorServerHandles,
     MirrorUpdateDiff, MirrorRemoveVersion DEF Next

(* Through updates and restores, with the observer, files that are added   *)
(* again and versions of one second or of one name in between: what the    *)
(* server is told is enough for it to have the client's version files, and *)
(* the copy too until a restore or the observer changes it.                *)
THEOREM ServerFollows == Spec => []ServerMirrors
<1>1. MirrorInv => ServerMirrors
  <2> SUFFICES ASSUME MirrorInv, at = "idle", net = <<>>, linked
               PROVE  /\ DOMAIN srvVers = DOMAIN vers
                      /\ \A n \in DOMAIN vers : srvVers[n] = Text(vers[n].data)
                      /\ ~behind => srvCopy = (IF copy = None THEN None
                                               ELSE Text(copy.data))
    BY DEF ServerMirrors
  <2>1. PICK c, f : Replays(net, srvCopy, srvVers, c, f) /\ Mirrors(c, f)
    BY DEF MirrorInv
  <2>2. c = srvCopy /\ f = srvVers
    <3>1. PICK q : q = net /\ Replays(q, srvCopy, srvVers, c, f)
      BY <2>1
    <3> QED
      BY <3>1, ReplaysNothing
  <2> QED
    BY <2>1, <2>2 DEF Mirrors, SameVersions
<1> QED
  BY <1>1, MirrorInit, MirrorStep, TypedInit, TypedStep, PTL DEF Spec

------------------------------------------------------------------------------
(* The order of the versions *)

LEMMA OrderInit == Init => OrderInv
  BY DEF Init, OrderInv

(* A new version comes behind all of its minute, unless the postfix has    *)
(* come to Base there.                                                     *)
LEMMA NewNameIsLast ==
  ASSUME Typed, OrderInv, UpdateDiff, "hurry" \notin Disturbances
  PROVE  /\ NewName \in Name /\ NewName[1] = now \div MinuteLength
         /\ \A n \in DOMAIN vers : vers[n].mtime < now
         /\ \A n \in DOMAIN vers :
              n[1] = NewName[1] /\ NewName[2] <= n[2]
                => CameToBase(n) /\ NewName[2] # 0
<1>1. /\ now \in Nat /\ MinuteLength \in Nat \ {0} /\ Base \in Nat \ {0}
      /\ DOMAIN vers \subseteq Name
      /\ \A n \in DOMAIN vers : vers[n].mtime \in Nat
  BY ControllerAssumption DEF Typed, TypeOK, Time, Stored
<1>2. \A n \in DOMAIN vers : vers[n].mtime < now
  BY DEF UpdateDiff
<1>3. NewName \in Name /\ NewName[1] = now \div MinuteLength
  BY NewNameIsName DEF NewName
<1>4. SUFFICES ASSUME NEW n \in DOMAIN vers,
                      n[1] = NewName[1], NewName[2] <= n[2]
               PROVE  CameToBase(n) /\ NewName[2] # 0
  BY <1>2, <1>3
<1>5. PICK l \in DOMAIN vers :
        /\ l = LastVersion /\ vers[n].mtime <= vers[l].mtime
        /\ NewName[2] = NextPostfix(l[2])
  <2>1. vers # <<>>
    BY <1>4
  <2> QED
    BY <2>1, LatestVersion DEF NewName
<1>6. /\ l \in Name /\ n \in Name /\ l[2] \in Nat /\ l[2] <= Base /\ n[2] \in Nat
      /\ l = <<l[1], l[2]>>
  BY <1>1, Names DEF Name
<1>7. l[1] = n[1]
  <2>1. PICK s \in Nat, t \in Nat :
          s = vers[n].mtime /\ t = vers[l].mtime /\ s <= t /\ t <= now
    BY <1>1, <1>2, <1>5
  <2>2. n[1] = s \div MinuteLength /\ l[1] = t \div MinuteLength
    BY <2>1 DEF OrderInv
  <2>3. s \div MinuteLength <= t \div MinuteLength
    BY <1>1, <2>1, QuotientsGrow
  <2>4. t \div MinuteLength <= now \div MinuteLength
    BY <1>1, <2>1, QuotientsGrow
  <2>5. /\ s \div MinuteLength \in Nat /\ t \div MinuteLength \in Nat
        /\ now \div MinuteLength \in Nat
    BY <1>1, <2>1, Quotients
  <2> QED
    BY <2>2, <2>3, <2>4, <2>5, <1>3, <1>4
<1>8. PICK p \in Nat : p = l[2] /\ p <= Base /\ NewName[2] = (p % Base) + 1
  BY <1>5, <1>6 DEF NextPostfix
<1>9. NewName[2] # 0
  <2>1. p % Base \in Nat
    BY <1>1
  <2> QED
    BY <2>1, <1>8
<1>10. CASE p = Base
  BY <1>6, <1>7, <1>8, <1>9, <1>10 DEF CameToBase
<1>11. CASE p # Base
  <2>1. p % Base = p
    BY <1>1, <1>8, <1>11
  <2>2. l[2] < n[2]
    BY <2>1, <1>4, <1>6, <1>8
  <2>3. ~(vers[l].mtime < vers[n].mtime)
    BY <1>1, <1>5
  <2> QED
    BY <2>2, <2>3, <1>7, <1>9 DEF OrderInv
<1> QED
  BY <1>10, <1>11

(* What is left is listed before what is removed.                          *)
LEMMA LeftIsBefore ==
  ASSUME Typed, RemoveVersion
  PROVE  \E x \in DOMAIN vers :
           /\ DOMAIN vers' = DOMAIN vers \ {x}
           /\ \A n \in DOMAIN vers' : vers'[n] = vers[n] /\ Before(n, x)
<1>1. PICK x \in DOMAIN vers :
        /\ x = Head(todo) /\ x \in From(DOMAIN vers, target)
        /\ DOMAIN vers' = DOMAIN vers \ {x}
        /\ \A n \in DOMAIN vers' : vers'[n] = vers[n]
        /\ \A n \in From(DOMAIN vers', target) : Before(n, x)
  BY Removed DEF From
<1>2. target \in Name /\ DOMAIN vers \subseteq Name
  BY DEF Typed, TypeOK, RemoveVersion
<1>3. ASSUME NEW m \in DOMAIN vers'
      PROVE  Before(m, x)
  <2>1. CASE ~Before(m, target)
    BY <2>1, <1>1 DEF From
  <2>2. CASE Before(m, target)
    <3>1. m \in Name /\ x \in Name
      BY <1>1, <1>2
    <3>2. x = target \/ Before(target, x)
      BY <3>1, <1>1, <1>2, NamesAreOrdered DEF From
    <3> QED
      BY <2>2, <3>1, <3>2, <1>2, NamesAreOrdered
  <2> QED
    BY <2>1, <2>2
<1> QED
  BY <1>1, <1>3

(* Once Base is removed, "0" and "1" are all that is left of its minute.   *)
LEMMA OrderRemoveVersion == Typed /\ OrderInv /\ RemoveVersion => OrderInv'
<1> SUFFICES ASSUME Typed, OrderInv, RemoveVersion
             PROVE  OrderInv'
  OBVIOUS
<1>1. PICK x \in DOMAIN vers :
        /\ DOMAIN vers' = DOMAIN vers \ {x}
        /\ \A n \in DOMAIN vers' : vers'[n] = vers[n] /\ Before(n, x)
  BY LeftIsBefore
<1>2. /\ now' = now /\ DOMAIN vers \subseteq Name /\ Base \in Nat \ {0}
  BY ControllerAssumption DEF RemoveVersion, Typed, TypeOK
<1>3. ASSUME NEW m \in DOMAIN vers', NEW n \in DOMAIN vers',
             m[1] = n[1], m[2] < n[2], ~CameToBase(n)' \/ m[2] = 0
      PROVE  vers'[m].mtime < vers'[n].mtime
  <2>1. /\ m \in DOMAIN vers /\ n \in DOMAIN vers
        /\ vers'[m] = vers[m] /\ vers'[n] = vers[n] /\ Before(n, x)
    BY <1>1
  <2>2. ~CameToBase(n) \/ m[2] = 0
    <3>1. SUFFICES ASSUME CameToBase(n), ~CameToBase(n)'
                   PROVE  m[2] = 0
      BY <1>3
    <3>2. x = <<n[1], Base>>
      BY <3>1, <1>1 DEF CameToBase
    <3>3. m[2] \in Nat /\ n[2] \in Nat /\ n[1] \in Nat
      BY <2>1, <1>2, Names
    <3>4. Rank(n[2]) < 3
      BY <2>1, <3>2, <3>3 DEF Before, Rank
    <3>5. n[2] < 2
      BY <3>3, <3>4 DEF Rank
    <3> QED
      BY <3>3, <3>5, <1>3
  <2> QED
    BY <2>1, <2>2, <1>3 DEF OrderInv
<1> QED
  BY <1>1, <1>2, <1>3 DEF OrderInv

LEMMA OrderUpdateDiff ==
  ASSUME Typed, OrderInv, UpdateDiff, "hurry" \notin Disturbances
  PROVE  OrderInv'
<1>1. PICK x \in Name :
        /\ x = NewName /\ x[1] = now \div MinuteLength
        /\ \A n \in DOMAIN vers : vers[n].mtime < now
        /\ \A n \in DOMAIN vers :
             n[1] = x[1] /\ x[2] <= n[2] => CameToBase(n) /\ x[2] # 0
  BY NewNameIsLast
<1>2. /\ DOMAIN vers' = DOMAIN vers \cup {x} /\ now' = now
      /\ \A n \in DOMAIN vers : n # x => vers'[n] = vers[n]
      /\ vers'[x].mtime = now
  <2>1. vers' = Put(vers, x,
                  [data |-> Multiply(Text(main.data), Text(copy.data)),
                   mtime |-> now])
    BY <1>1 DEF UpdateDiff
  <2> QED
    BY <2>1 DEF Put, UpdateDiff
<1>3. /\ now \in Nat /\ DOMAIN vers' \subseteq Name
      /\ \A n \in Name : n[2] \in Nat
  BY <1>2, Names, ControllerAssumption DEF Typed, TypeOK, Time
<1>4. ASSUME NEW n \in DOMAIN vers'
      PROVE  vers'[n].mtime <= now' /\ n[1] = vers'[n].mtime \div MinuteLength
  <2>1. CASE n = x
    BY <2>1, <1>1, <1>2, <1>3
  <2>2. CASE n # x
    BY <2>2, <1>2 DEF OrderInv
  <2> QED
    BY <2>1, <2>2
<1>5. ASSUME NEW m \in DOMAIN vers', NEW n \in DOMAIN vers',
             m[1] = n[1], m[2] < n[2], ~CameToBase(n)' \/ m[2] = 0
      PROVE  vers'[m].mtime < vers'[n].mtime
  <2>1. m[2] \in Nat /\ n[2] \in Nat /\ m # n
    BY <1>3, <1>5
  <2>2. ~CameToBase(n) \/ m[2] = 0
    BY <1>2, <1>5 DEF CameToBase
  <2>3. CASE n = x
    BY <2>1, <2>3, <1>1, <1>2
  <2>4. CASE m = x
    BY <2>1, <2>2, <2>4, <1>1, <1>2, <1>5
  <2>5. CASE m # x /\ n # x
    BY <2>2, <2>5, <1>2, <1>5 DEF OrderInv
  <2> QED
    BY <2>3, <2>4, <2>5
<1> QED
  BY <1>4, <1>5 DEF OrderInv

LEMMA OrderStep ==
  ASSUME Typed, OrderInv, [Next]_vars, "hurry" \notin Disturbances
  PROVE  OrderInv'
<1>1. CASE Tick
  <2>1. \A n \in DOMAIN vers : vers[n].mtime \in Int
    BY ControllerAssumption DEF Typed, TypeOK, Stored, Time
  <2>2. vers' = vers /\ now' = now + 1 /\ now \in Int
    BY <1>1, ControllerAssumption DEF Tick, Typed, TypeOK, Time
  <2> QED
    BY <2>1, <2>2 DEF OrderInv, CameToBase
<1>2. CASE UNCHANGED <<vers, now>>
  BY <1>2 DEF OrderInv, CameToBase
<1>3. \/ UpdateDiff \/ RemoveVersion \/ Tick \/ UNCHANGED <<vers, now>>
  BY DEF Next, vars, Edit, Add, UpdateCopy, SendFiles, Restore, Undo, CopyBack,
         AllUndone, TellServer, RestoreUnknown, Observe, Crash, ServerHandles
<1> QED
  BY <1>1, <1>2, <1>3, OrderUpdateDiff, OrderRemoveVersion

(* As long as versions are made in different seconds, an update writes     *)
(* over the file of a version only if the postfix has come to Base in that *)
(* minute, however many versions there are and whatever disturbs.          *)
THEOREM NoVersionIsOverwritten ==
  ASSUME "hurry" \notin Disturbances
  PROVE  Spec => NoVersionLost
<1>1. ASSUME Typed, OrderInv, [Next]_vars
      PROVE  [\A n \in DOMAIN vers :
                n \in DOMAIN vers' => vers'[n] = vers[n] \/ CameToBase(n)]_vars
  <2>1. CASE UpdateDiff
    <3>1. PICK x \in Name :
            /\ x = NewName
            /\ \A n \in DOMAIN vers :
                 n[1] = x[1] /\ x[2] <= n[2] => CameToBase(n) /\ x[2] # 0
      BY <1>1, <2>1, NewNameIsLast
    <3>2. x[2] \in Nat
      BY Names, ControllerAssumption
    <3>3. x \in DOMAIN vers => CameToBase(x)
      BY <3>1, <3>2
    <3>4. \A n \in DOMAIN vers : n # x => vers'[n] = vers[n]
      BY <2>1, <3>1 DEF UpdateDiff, Put
    <3> QED
      BY <3>3, <3>4
  <2>2. CASE RemoveVersion
    BY <1>1, <2>2, Removed
  <2>3. CASE UNCHANGED vers
    BY <2>3
  <2>4. UpdateDiff \/ RemoveVersion \/ UNCHANGED vers
    BY <1>1 DEF Next, vars, Edit, Tick, Add, UpdateCopy, SendFiles, Restore, Undo,
           CopyBack, AllUndone, TellServer, RestoreUnknown, Observe, Crash,
           ServerHandles
  <2> QED
    BY <2>1, <2>2, <2>3, <2>4
<1>2. Typed /\ [Next]_vars => Typed'
  BY TypedStep
<1>3. Typed /\ OrderInv /\ [Next]_vars => OrderInv'
  BY OrderStep
<1> QED
  BY <1>1, <1>2, <1>3, TypedInit, OrderInit, PTL DEF Spec, NoVersionLost

(* Then restore takes away the newest version first, but for those of a    *)
(* minute in which the postfix has come to Base; and when it may end, all  *)
(* that is left is older.                                                  *)
THEOREM NewestGoFirst ==
  ASSUME "hurry" \notin Disturbances
  PROVE  Spec => RemovesNewest
<1>1. ASSUME Typed, OrderInv, [Next]_vars
      PROVE  [\A n \in DOMAIN vers \ DOMAIN vers' : \A m \in DOMAIN vers' :
                \/ vers'[m].mtime < vers[n].mtime
                \/ m[1] = n[1] /\ CameToBase(n)]_vars
  <2>1. CASE UpdateDiff
    BY <2>1 DEF UpdateDiff, Put
  <2>2. CASE RemoveVersion
    <3>1. PICK x \in DOMAIN vers :
            /\ DOMAIN vers' = DOMAIN vers \ {x}
            /\ \A n \in DOMAIN vers' : vers'[n] = vers[n] /\ Before(n, x)
      BY <1>1, <2>2, LeftIsBefore
    <3>2. ASSUME NEW m \in DOMAIN vers'
          PROVE  \/ vers'[m].mtime < vers[x].mtime
                 \/ m[1] = x[1] /\ CameToBase(x)
      <4>1. /\ m \in DOMAIN vers /\ m \in Name /\ x \in Name
            /\ vers'[m] = vers[m] /\ Before(m, x)
        BY <1>1, <3>1 DEF Typed, TypeOK
      <4>2. PICK s \in Nat, t \in Nat : s = vers[m].mtime /\ t = vers[x].mtime
        BY <1>1, <4>1, ControllerAssumption DEF Typed, TypeOK, Stored, Time
      <4>3. /\ m[1] = s \div MinuteLength /\ x[1] = t \div MinuteLength
            /\ MinuteLength \in Nat \ {0}
        BY <1>1, <4>1, <4>2, ControllerAssumption DEF OrderInv
      <4>4. CASE m[1] < x[1]
        <5>1. ~(t <= s)
          <6>1. t <= s => t \div MinuteLength <= s \div MinuteLength
            BY <4>2, <4>3, QuotientsGrow
          <6>2. s \div MinuteLength \in Nat /\ t \div MinuteLength \in Nat
            BY <4>2, <4>3, Quotients
          <6> QED
            BY <6>1, <6>2, <4>3, <4>4
        <5> QED
          BY <5>1, <4>1, <4>2
      <4>5. CASE m[1] = x[1] /\ Rank(m[2]) < Rank(x[2])
        <5>1. SUFFICES ASSUME ~CameToBase(x)
                       PROVE  vers[m].mtime < vers[x].mtime
          BY <4>1, <4>5
        <5>2. /\ m[2] \in 0..Base /\ x[2] \in 0..Base /\ Base \in Nat
              /\ m = <<m[1], m[2]>> /\ x = <<x[1], x[2]>>
          BY <4>1, Names, ControllerAssumption DEF Name
        <5>3. m[2] # Base /\ x[2] # Base
          BY <4>1, <4>5, <5>1, <5>2 DEF CameToBase
        <5>4. m[2] < x[2]
          BY <4>5, <5>2, <5>3 DEF Rank
        <5> QED
          BY <5>1, <5>4, <1>1, <4>1, <4>5 DEF OrderInv
      <4> QED
        BY <4>1, <4>4, <4>5 DEF Before
    <3> QED
      BY <3>1, <3>2
  <2>3. CASE UNCHANGED vers
    BY <2>3
  <2>4. UpdateDiff \/ RemoveVersion \/ UNCHANGED vers
    BY <1>1 DEF Next, vars, Edit, Tick, Add, UpdateCopy, SendFiles, Restore, Undo,
           CopyBack, AllUndone, TellServer, RestoreUnknown, Observe, Crash,
           ServerHandles
  <2> QED
    BY <2>1, <2>2, <2>3, <2>4
<1>2. Typed /\ [Next]_vars => Typed'
  BY TypedStep
<1>3. Typed /\ OrderInv /\ [Next]_vars => OrderInv'
  BY OrderStep
<1> QED
  BY <1>1, <1>2, <1>3, TypedInit, OrderInit, PTL DEF Spec, RemovesNewest

------------------------------------------------------------------------------
(* What restore brings back *)

LEMMA SameLinks ==
  ASSUME NEW f, NEW g, NEW r, NEW s, NEW S, NEW d, Links(f, r, S, d),
         \A n \in S : g[n] = f[n] /\ s[n] = r[n]
  PROVE  Links(g, s, S, d)
  BY DEF Links

LEMMA NoLinks == \A f, r, d : Links(f, r, {}, d)
  BY DEF Links

(* An update puts one link behind the last: what the copy was is recorded. *)
LEMMA OneMoreLink ==
  ASSUME NEW f, NEW g, NEW r, NEW s, NEW S \in SUBSET Name, NEW d, NEW e,
         NEW x \in Name, \A n \in S : Before(n, x), Links(f, r, S, d),
         \A n \in S : g[n] = f[n] /\ s[n] = r[n],
         Multiply(Text(e), Text(g[x].data)) = d, s[x] = d
  PROVE  Links(g, s, S \cup {x}, e)
<1>1. \A n \in S : Before(n, x) /\ ~Before(x, n) /\ n # x
  BY NamesAreOrdered
<1>2. ~Before(x, x)
  BY NamesAreOrdered
<1>3. ASSUME NEW n \in S \cup {x}, \A m \in S \cup {x} : ~Before(n, m)
      PROVE  Multiply(Text(e), Text(g[n].data)) = s[n]
  <2>1. n = x
    BY <1>1, <1>3
  <2> QED
    BY <2>1
<1>4. ASSUME NEW m \in S \cup {x}, NEW n \in S \cup {x}, Before(m, n),
             \A k \in S \cup {x} : ~(Before(m, k) /\ Before(k, n))
      PROVE  Multiply(Text(s[n]), Text(g[m].data)) = s[m]
  <2>1. m \in S
    BY <1>1, <1>2, <1>4
  <2>2. CASE n = x
    <3>1. \A k \in S : ~Before(m, k)
      BY <1>1, <1>4, <2>2
    <3>2. Multiply(Text(d), Text(f[m].data)) = r[m]
      BY <2>1, <3>1 DEF Links
    <3> QED
      BY <2>1, <2>2, <3>2
  <2>3. CASE n \in S
    <3>1. Multiply(Text(r[n]), Text(f[m].data)) = r[m]
      BY <2>1, <2>3, <1>4 DEF Links
    <3> QED
      BY <2>1, <2>3, <3>1
  <2> QED
    BY <2>2, <2>3
<1> QED
  BY <1>3, <1>4 DEF Links

(* One round of restore takes the last link off.                           *)
LEMMA OneLinkLess ==
  ASSUME NEW f, NEW r, NEW S \in SUBSET Name, NEW d, Links(f, r, S, d),
         NEW x \in S, \A n \in S \ {x} : Before(n, x)
  PROVE  /\ Multiply(Text(d), Text(f[x].data)) = r[x]
         /\ Links(f, r, S \ {x}, r[x])
<1>1. \A n \in S : ~Before(x, n)
  <2>1. ~Before(x, x)
    BY NamesAreOrdered
  <2>2. \A n \in S \ {x} : ~Before(x, n)
    BY NamesAreOrdered
  <2> QED
    BY <2>1, <2>2
<1>2. Multiply(Text(d), Text(f[x].data)) = r[x]
  BY <1>1 DEF Links
<1>3. ASSUME NEW n \in S \ {x}, \A m \in S \ {x} : ~Before(n, m)
      PROVE  Multiply(Text(r[x]), Text(f[n].data)) = r[n]
  <2>1. Before(n, x) /\ \A k \in S : ~(Before(n, k) /\ Before(k, x))
    BY <1>1, <1>3
  <2> QED
    BY <2>1 DEF Links
<1>4. ASSUME NEW m \in S \ {x}, NEW n \in S \ {x}, Before(m, n),
             \A k \in S \ {x} : ~(Before(m, k) /\ Before(k, n))
      PROVE  Multiply(Text(r[n]), Text(f[m].data)) = r[m]
  <2>1. \A k \in S : ~(Before(m, k) /\ Before(k, n))
    BY <1>1, <1>4
  <2> QED
    BY <2>1, <1>4 DEF Links
<1> QED
  BY <1>2, <1>3, <1>4 DEF Links

LEMMA ChainInit == Init => ChainInv
<1> SUFFICES ASSUME Init
             PROVE  ChainInv
  OBVIOUS
<1>1. vers = <<>> /\ at = "idle" /\ broken = {}
  BY DEF Init
<1>2. DOMAIN <<>> = {} /\ Good = {}
  BY <1>1 DEF Good
<1> QED
  BY <1>1, <1>2, NoLinks DEF ChainInv

(* What cuts all versions off leaves nothing to show of them.              *)
LEMMA ChainBroken ==
  ASSUME Typed, ChainInv, UNCHANGED vers, broken' = DOMAIN vers,
         \/ at' = "idle"
         \/ /\ UNCHANGED <<at, target, todo>>
            /\ \/ "edit" \in Disturbances
               \/ at # "remove" /\ main' = main /\ copy' = main
  PROVE  ChainInv'
<1>1. Good' = {}
  BY DEF Good
<1>2. CASE at' = "idle"
  BY <1>1, <1>2, NoLinks DEF ChainInv
<1>3. CASE UNCHANGED <<at, target, todo>> /\ at \in {"undo", "back"}
  <2>1. PICK U \in SUBSET DOMAIN vers : Undoing(U, target)
    BY <1>3 DEF ChainInv
  <2>2. (U \cap Good)' = {} /\ ((U \cap Good) \ {Head(todo)})' = {}
    BY <1>1
  <2>3. target \in broken'
    BY <1>3 DEF Typed
  <2>4. "edit" \notin Disturbances => Brought(target)'
    BY <1>2, <1>3, <2>3 DEF Brought
  <2>5. Undoing(U, target)'
    BY <1>3, <2>1, <2>2, <2>3, <2>4, NoLinks DEF Undoing
  <2> QED
    BY <1>1, <1>3, <2>5 DEF ChainInv
<1>4. CASE UNCHANGED <<at, target, todo>> /\ at \notin {"undo", "back"}
  <2>1. {n \in Good : Before(n, target)}' = {}
    BY <1>1
  <2>2. at' = "remove" => "edit" \in Disturbances
    BY <1>4
  <2> QED
    BY <1>1, <1>4, <2>1, <2>2, NoLinks DEF ChainInv
<1> QED
  BY <1>2, <1>3, <1>4

(* A version file within its limits leads back from the new content to the *)
(* one before.                                                             *)
LEMMA WithinLimits ==
  ASSUME NEW a \in File, NEW b \in File, Reversible(Text(a), b)
  PROVE  Multiply(Text(a), Text(Multiply(Text(a), Text(b)))) = b
<1>1. PICK c \in File : c = Text(a)
  BY Texts
<1>2. PICK q : q = Len(c) \div BlockSize
  OBVIOUS
<1>3. q \in Nat
  <2>1. Len(c) \in Nat /\ BlockSize \in Nat \ {0}
    BY BlockAssumption DEF File
  <2> QED
    BY <2>1, <1>2, Quotients
<1>4. Text(b) = b /\ Text(Multiply(c, b)) = Multiply(c, b)
  BY <1>1 DEF Reversible
<1>5. Fits(c, q) /\ Fits(b, q)
  BY <1>1, <1>2 DEF Reversible, Fits
<1>6. Multiply(c, Multiply(c, b)) = b
  BY <1>3, <1>5, FittingUndone
<1> QED
  BY <1>1, <1>4, <1>6

LEMMA ChainUpdateDiff ==
  ASSUME Typed, ChainInv, UpdateDiff
  PROVE  ChainInv'
<1>1. PICK x \in Name : x = NewName
  BY NewNameIsName
<1>2. PICK a \in File, b \in File : a = main.data /\ b = copy.data
  BY DEF Typed, TypeOK, Stored, UpdateDiff
<1>3. /\ at = "idle" /\ at' = "copy" /\ main' = main
      /\ vers' = Put(vers, x, [data |-> Multiply(Text(a), Text(b)), mtime |-> now])
      /\ recorded' = Put(recorded, x, b)
      /\ broken' = IF /\ Reversible(Text(a), b)
                      /\ \A n \in DOMAIN vers : Before(n, x)
                   THEN broken ELSE DOMAIN vers'
  BY <1>1, <1>2 DEF UpdateDiff
<1>4. CASE /\ Reversible(Text(a), b)
           /\ \A n \in DOMAIN vers : Before(n, x)
  <2>1. /\ broken' = broken /\ broken \subseteq DOMAIN vers
        /\ DOMAIN vers \subseteq Name /\ x \notin DOMAIN vers
    BY <1>3, <1>4, NamesAreOrdered DEF ChainInv, Typed, TypeOK
  <2>2. PICK S \in SUBSET Name : S = Good
    BY <2>1 DEF Good
  <2>3. /\ DOMAIN vers' = DOMAIN vers \cup {x} /\ Good' = S \cup {x}
        /\ vers'[x].data = Multiply(Text(a), Text(b))
        /\ recorded'[x] = b /\ Good' \subseteq DOMAIN recorded'
        /\ \A n \in S : vers'[n] = vers[n] /\ recorded'[n] = recorded[n]
    <3>1. DOMAIN vers' = DOMAIN vers \cup {x}
      BY <1>3 DEF Put
    <3>2. DOMAIN recorded' = DOMAIN recorded \cup {x}
      BY <1>3 DEF Put
    <3>3. Good' = S \cup {x} /\ S \subseteq DOMAIN vers /\ x \notin S
      BY <2>1, <2>2, <3>1 DEF Good
    <3>4. S \subseteq DOMAIN recorded
      BY <2>2 DEF ChainInv
    <3> QED
      BY <3>1, <3>2, <3>3, <3>4, <1>3 DEF Put
  <2>4. Links(vers', recorded', S \cup {x}, a)
    <3>1. PICK f, g, r, s : /\ f = vers /\ g = vers'
                            /\ r = recorded /\ s = recorded'
      OBVIOUS
    <3>2. Links(f, r, S, b)
      BY <1>2, <1>3, <2>2, <3>1 DEF ChainInv
    <3>3. \A n \in S : g[n] = f[n] /\ s[n] = r[n]
      BY <2>3, <3>1
    <3>4. Multiply(Text(a), Text(g[x].data)) = b /\ s[x] = b
      BY <1>4, <2>3, <3>1, WithinLimits
    <3>5. \A n \in S : Before(n, x)
      BY <1>4, <2>2 DEF Good
    <3>6. Links(g, s, S \cup {x}, a)
      BY <3>2, <3>3, <3>4, <3>5, OneMoreLink
    <3> QED
      BY <3>1, <3>6
  <2>5. \A m \in broken', n \in Good' : Before(m, n)
    <3>1. \A m \in broken, n \in S : Before(m, n)
      BY <2>2 DEF ChainInv
    <3> QED
      BY <3>1, <1>4, <2>1, <2>3
  <2> QED
    BY <1>2, <1>3, <2>1, <2>3, <2>4, <2>5 DEF ChainInv
<1>5. CASE ~(/\ Reversible(Text(a), b)
             /\ \A n \in DOMAIN vers : Before(n, x))
  <2>1. broken' = DOMAIN vers' /\ Good' = {}
    BY <1>3, <1>5 DEF Good
  <2> QED
    BY <2>1, <1>3, NoLinks DEF ChainInv
<1> QED
  BY <1>4, <1>5

LEMMA ChainRestore ==
  ASSUME Typed, ChainInv, Restore
  PROVE  ChainInv'
<1>1. PICK v \in DOMAIN vers : /\ target' = v
                               /\ todo' = NewestFirst(From(DOMAIN vers, v))
  BY DEF Restore
<1>2. /\ at = "idle" /\ at' = "undo"
      /\ UNCHANGED <<main, copy, vers, recorded, broken>>
  BY DEF Restore
<1>3. PICK U \in SUBSET Name : U = DOMAIN vers
  BY DEF Typed, TypeOK
<1>4. From(U, v) \in SUBSET Name
  BY <1>3 DEF From
<1>5. Lists(todo', From(U, v))
  BY <1>1, <1>3, <1>4, NewestFirstLists
<1>6. Good' = Good /\ U \cap Good = Good
  BY <1>2, <1>3 DEF Good
<1>7. Links(vers, recorded, Good, copy.data)
  BY <1>2 DEF ChainInv
<1>8. Links(vers', recorded', (U \cap Good)', copy'.data)
  BY <1>2, <1>6, <1>7
<1>9. Undoing(U, v)'
  BY <1>1, <1>2, <1>3, <1>5, <1>8 DEF Undoing
<1> QED
  BY <1>1, <1>2, <1>3, <1>6, <1>9 DEF ChainInv

(* The version that a round takes back is the last that there is yet.      *)
LEMMA LastToUndo ==
  ASSUME Typed, at \in {"undo", "back"}, NEW U \in SUBSET DOMAIN vers,
         Undoing(U, target), todo # <<>>
  PROVE  \E x \in U : /\ x = Head(todo)
                      /\ \A n \in U \ {x} : Before(n, x)
                      /\ ~Before(x, target)
                      /\ Lists(Tail(todo), From(U \ {x}, target))
<1>1. target \in Name /\ U \in SUBSET Name
  BY DEF Typed, TypeOK
<1>2. PICK v \in Name : v = target
  BY <1>1
<1>3. PICK S \in SUBSET Name : S = From(U, v)
  BY <1>1 DEF From
<1>4. PICK s : s = todo /\ Lists(s, S) /\ s # <<>>
  BY <1>2, <1>3 DEF Undoing
<1>5. /\ Head(s) \in S /\ Lists(Tail(s), S \ {Head(s)})
      /\ \A n \in S \ {Head(s)} : Before(n, Head(s))
  BY <1>4, ListTail
<1>6. PICK x \in S : x = Head(s)
  BY <1>5
<1>7. x \in U /\ x \in Name /\ ~Before(x, v)
  BY <1>3, <1>1 DEF From
<1>8. ASSUME NEW n \in U \ {x}
      PROVE  Before(n, x)
  <2>1. CASE n \in S
    BY <2>1, <1>5, <1>6, <1>8
  <2>2. CASE n \notin S
    <3>1. Before(n, v) /\ n \in Name
      BY <2>2, <1>1, <1>3 DEF From
    <3>2. x = v \/ Before(v, x)
      BY <1>7, NamesAreOrdered
    <3> QED
      BY <3>1, <3>2, <1>7, NamesAreOrdered
  <2> QED
    BY <2>1, <2>2
<1>9. From(U \ {x}, v) = S \ {x}
  BY <1>3 DEF From
<1> QED
  BY <1>2, <1>4, <1>5, <1>6, <1>7, <1>8, <1>9

LEMMA ChainUndo ==
  ASSUME Typed, ChainInv, Undo
  PROVE  ChainInv'
<1>1. /\ at = "undo" /\ at' = "back" /\ todo # <<>>
      /\ UNCHANGED <<copy, vers, recorded, broken, todo, target>>
      /\ main'.data = Multiply(Text(copy.data), Text(vers[Head(todo)].data))
  BY DEF Undo
<1>2. PICK U \in SUBSET DOMAIN vers : Undoing(U, target)
  BY <1>1 DEF ChainInv
<1>3. PICK x \in U : /\ x = Head(todo) /\ \A n \in U \ {x} : Before(n, x)
                     /\ ~Before(x, target)
  BY <1>1, <1>2, LastToUndo
<1>4. PICK S \in SUBSET Name : S = U \cap Good
  BY DEF Typed, TypeOK
<1>5. Links(vers, recorded, S, copy.data)
  BY <1>1, <1>2, <1>4 DEF Undoing
<1>6. /\ Links(vers, recorded, S \ {x}, main'.data)
      /\ target \in broken \/ main'.data = recorded[x]
  <2>1. CASE x \in Good
    <3>1. PICK f, r, d : f = vers /\ r = recorded /\ d = copy.data
      OBVIOUS
    <3>2. Links(f, r, S, d)
      BY <1>5, <3>1
    <3>3. x \in S /\ \A n \in S \ {x} : Before(n, x)
      BY <1>3, <1>4, <2>1
    <3>4. Multiply(Text(d), Text(f[x].data)) = r[x] /\ Links(f, r, S \ {x}, r[x])
      BY <3>2, <3>3, OneLinkLess
    <3>5. main'.data = recorded[x]
      BY <3>1, <3>4, <1>1, <1>3
    <3> QED
      BY <3>1, <3>4, <3>5
  <2>2. CASE x \notin Good
    <3>1. x \in broken /\ x \in Name /\ DOMAIN vers \subseteq Name
      BY <1>3, <2>2 DEF Good, Typed, TypeOK
    <3>2. ASSUME NEW n \in S
          PROVE  FALSE
      <4>1. n \in Good /\ n \in U \ {x} /\ n \in Name
        BY <1>4, <2>2, <3>2
      <4>2. Before(n, x) /\ Before(x, n)
        BY <4>1, <3>1, <1>3 DEF ChainInv
      <4> QED
        BY <4>1, <4>2, <3>1, NamesAreOrdered
    <3>3. S \ {x} = {}
      BY <3>2
    <3>4. target \in broken
      <4>1. target \in DOMAIN vers
        BY <1>1 DEF Typed
      <4>2. target \in Good => Before(x, target)
        BY <3>1 DEF ChainInv
      <4> QED
        BY <4>1, <4>2, <1>3 DEF Good
    <3> QED
      BY <3>3, <3>4, NoLinks
  <2> QED
    BY <2>1, <2>2
<1>7. Good' = Good
  BY <1>1 DEF Good
<1>8. Undoing(U, target)'
  <2>1. /\ Lists(todo, From(U, target))
        /\ \A n \in DOMAIN vers \ U : ~Before(n, target)
        /\ "edit" \notin Disturbances => target \in U
    BY <1>1, <1>2 DEF Undoing
  <2>2. Links(vers', recorded', ((U \cap Good) \ {Head(todo)})', main'.data)
    BY <1>1, <1>3, <1>4, <1>6, <1>7
  <2> QED
    BY <2>1, <2>2, <1>1, <1>3, <1>6 DEF Undoing
<1> QED
  BY <1>1, <1>2, <1>7, <1>8 DEF ChainInv

LEMMA ChainCopyBack ==
  ASSUME Typed, ChainInv, CopyBack
  PROVE  ChainInv'
<1>1. /\ at = "back" /\ at' = "undo" /\ todo # <<>> /\ copy' = main
      /\ todo' = Tail(todo)
      /\ UNCHANGED <<main, vers, recorded, broken, target>>
  BY DEF CopyBack, Copied, Typed
<1>2. PICK U \in SUBSET DOMAIN vers : Undoing(U, target)
  BY <1>1 DEF ChainInv
<1>3. PICK x \in U : /\ x = Head(todo) /\ \A n \in U \ {x} : Before(n, x)
                     /\ ~Before(x, target)
                     /\ Lists(Tail(todo), From(U \ {x}, target))
  BY <1>1, <1>2, LastToUndo
<1>4. /\ Links(vers, recorded, (U \cap Good) \ {x}, main.data)
      /\ \A n \in DOMAIN vers \ U : ~Before(n, target)
      /\ "edit" \notin Disturbances =>
           target \in U /\ (target \in broken \/ main.data = recorded[x])
  BY <1>1, <1>2, <1>3 DEF Undoing
<1>5. Good' = Good /\ (U \ {x}) \cap Good = (U \cap Good) \ {x}
  BY <1>1 DEF Good
<1>6. ASSUME "edit" \notin Disturbances
      PROVE  target \in U \ {x} \/ (Tail(todo) = <<>> /\ Brought(target)')
  <2>1. CASE target = x
    <3>1. From(U \ {x}, target) = {}
      BY <2>1, <1>3 DEF From
    <3>2. Tail(todo) \in Seq({})
      BY <1>3, <3>1 DEF Lists
    <3>3. Tail(todo) = <<>>
      BY <3>2
    <3>4. Brought(target)'
      BY <2>1, <1>1, <1>4, <1>6 DEF Brought
    <3> QED
      BY <3>3, <3>4
  <2>2. CASE target # x
    BY <2>2, <1>4, <1>6
  <2> QED
    BY <2>1, <2>2
<1>7. Undoing(U \ {x}, target)'
  <2>1. Links(vers', recorded', ((U \ {x}) \cap Good)', copy'.data)
    BY <1>1, <1>4, <1>5
  <2>2. \A n \in DOMAIN vers \ (U \ {x}) : ~Before(n, target)
    BY <1>3, <1>4
  <2> QED
    BY <1>1, <1>3, <1>6, <2>1, <2>2 DEF Undoing
<1> QED
  BY <1>1, <1>5, <1>7 DEF ChainInv

(* Once the vector is gone through, all the versions left are before.      *)
LEMMA NothingToUndo ==
  ASSUME NEW U, NEW v, Lists(<<>>, From(U, v))
  PROVE  \A n \in U : Before(n, v)
<1>1. 1..Len(<<>>) = {}
  OBVIOUS
<1>2. \A n \in From(U, v) : FALSE
  BY <1>1 DEF Lists
<1> QED
  BY <1>2 DEF From

LEMMA ChainAllUndone ==
  ASSUME Typed, ChainInv, AllUndone
  PROVE  ChainInv'
<1>1. /\ at = "undo" /\ at' = "remove" /\ todo = <<>>
      /\ UNCHANGED <<main, copy, vers, recorded, broken, target>>
  BY DEF AllUndone
<1>2. PICK U \in SUBSET DOMAIN vers : Undoing(U, target)
  BY <1>1 DEF ChainInv
<1>3. PICK v \in Name : v = target
  BY <1>1 DEF Typed, TypeOK
<1>4. \A n \in U : Before(n, v)
  <2>1. Lists(<<>>, From(U, v))
    BY <1>1, <1>2, <1>3 DEF Undoing
  <2> QED
    BY <2>1, NothingToUndo
<1>5. v \notin U
  BY <1>3, <1>4, NamesAreOrdered
<1>6. Good' = Good /\ U \cap Good = {n \in Good : Before(n, target)}
  BY <1>1, <1>2, <1>3, <1>4 DEF Undoing, Good
<1>7. /\ Links(vers, recorded, U \cap Good, copy.data)
      /\ "edit" \notin Disturbances => Brought(target)
  BY <1>1, <1>2, <1>3, <1>5 DEF Undoing
<1>8. Links(vers', recorded', {n \in Good : Before(n, target)}', copy'.data)
  BY <1>1, <1>6, <1>7
<1>9. Brought(target) => Brought(target)'
  BY <1>1 DEF Brought
<1> QED
  BY <1>1, <1>6, <1>7, <1>8, <1>9 DEF ChainInv

LEMMA ChainRemoveVersion ==
  ASSUME Typed, ChainInv, RemoveVersion
  PROVE  ChainInv'
<1>1. at = "remove" /\ UNCHANGED <<main, copy, recorded, at, target, broken>>
  BY DEF RemoveVersion
<1>2. PICK x : /\ x = Head(todo) /\ ~Before(x, target)
               /\ DOMAIN vers' = DOMAIN vers \ {x}
               /\ \A n \in DOMAIN vers' : vers'[n] = vers[n]
  BY Removed DEF From
<1>3. Good' = Good \ {x} /\ Good' \subseteq DOMAIN vers'
  BY <1>1, <1>2 DEF Good
<1>4. PICK S : S = {n \in Good : Before(n, target)}
  OBVIOUS
<1>5. S = {n \in Good : Before(n, target)}' /\ S \subseteq DOMAIN vers'
  BY <1>1, <1>2, <1>3, <1>4
<1>6. Links(vers, recorded, S, copy.data)
  BY <1>1, <1>4 DEF ChainInv
<1>7. Links(vers', recorded', S, copy'.data)
  <2>1. \A n \in S : vers'[n] = vers[n] /\ recorded'[n] = recorded[n]
    BY <1>1, <1>2, <1>5
  <2>2. Links(vers', recorded', S, copy.data)
    BY <2>1, <1>6, SameLinks
  <2> QED
    BY <2>2, <1>1
<1>8. "edit" \notin Disturbances => Brought(target)'
  BY <1>1 DEF ChainInv, Brought
<1>9. Good' \subseteq DOMAIN recorded' /\ \A m \in broken', n \in Good' : Before(m, n)
  BY <1>1, <1>3 DEF ChainInv
<1> QED
  BY <1>1, <1>5, <1>7, <1>8, <1>9 DEF ChainInv

LEMMA ChainTellServer ==
  ASSUME Typed, ChainInv, TellServer
  PROVE  ChainInv'
<1>1. /\ at = "remove" /\ at' = "idle" /\ todo = <<>>
      /\ UNCHANGED <<main, copy, vers>>
      /\ recorded' = Without(recorded, DOMAIN recorded \ DOMAIN vers)
      /\ broken' = broken \cap DOMAIN vers
  BY DEF TellServer
<1>2. \A n \in DOMAIN vers : Before(n, target)
  <2>1. Lists(<<>>, From(DOMAIN vers, target))
    BY <1>1 DEF Typed
  <2> QED
    BY <2>1, NothingToUndo
<1>3. PICK S : S = Good /\ S = {n \in Good : Before(n, target)}
  BY <1>2 DEF Good
<1>4. Good' = S
  BY <1>1, <1>3 DEF Good
<1>5. Links(vers, recorded, S, copy.data)
  BY <1>1, <1>3 DEF ChainInv
<1>6. \A n \in S : n \in DOMAIN recorded' /\ recorded'[n] = recorded[n]
  <2>1. \A n \in S : n \in DOMAIN recorded /\ n \in DOMAIN vers
    BY <1>3 DEF ChainInv, Good
  <2> QED
    BY <2>1, <1>1 DEF Without
<1>7. Links(vers', recorded', S, copy'.data)
  <2>1. \A n \in S : vers'[n] = vers[n] /\ recorded'[n] = recorded[n]
    BY <1>1, <1>6
  <2>2. Links(vers', recorded', S, copy.data)
    BY <2>1, <1>5, SameLinks
  <2> QED
    BY <2>2, <1>1
<1>8. \A m \in broken', n \in Good' : Before(m, n)
  BY <1>1, <1>3, <1>4 DEF ChainInv
<1> QED
  BY <1>1, <1>4, <1>6, <1>7, <1>8 DEF ChainInv

(* The user, a file that is added again, and the observer: the copy stays  *)
(* what the chain ends with, or all that came before is cut off.           *)
LEMMA ChainEdit ==
  ASSUME Typed, ChainInv, Edit
  PROVE  ChainInv'
<1>1. /\ at = "idle" \/ "edit" \in Disturbances
      /\ UNCHANGED <<copy, vers, at, target, todo, recorded>>
      /\ broken' = IF at \in {"copy", "back"} THEN DOMAIN vers ELSE broken
  BY DEF Edit, cli
<1>2. CASE at \in {"copy", "back"}
  BY <1>1, <1>2, ChainBroken
<1>3. CASE at \notin {"copy", "back"}
  <2>1. UNCHANGED <<broken, Good>>
    BY <1>1, <1>3 DEF Good
  <2>2. CASE at = "undo"
    <3>1. PICK U \in SUBSET DOMAIN vers : Undoing(U, target)
      BY <2>2 DEF ChainInv
    <3>2. Undoing(U, target)'
      BY <3>1, <2>1, <2>2, <1>1 DEF Undoing
    <3> QED
      BY <3>2, <2>1, <2>2, <1>1 DEF ChainInv
  <2>3. CASE at # "undo"
    BY <2>1, <2>3, <1>1, <1>3 DEF ChainInv
  <2> QED
    BY <2>2, <2>3
<1> QED
  BY <1>2, <1>3

LEMMA ChainAdd ==
  ASSUME Typed, ChainInv, Add
  PROVE  ChainInv'
<1>1. /\ at = "idle" /\ at' = "send" /\ copy' = main /\ UNCHANGED <<vers, recorded>>
      /\ broken' = IF copy # None /\ copy.data # main.data
                   THEN DOMAIN vers ELSE broken
  BY DEF Add, Copied
<1>2. Links(vers, recorded, Good, copy.data)
  BY <1>1 DEF ChainInv
<1>3. CASE DOMAIN vers = {} \/ (copy # None /\ copy.data # main.data)
  <2>1. Good' = {} /\ broken' \subseteq DOMAIN vers
    BY <1>1, <1>3 DEF Good, ChainInv
  <2> QED
    BY <2>1, <1>1, NoLinks DEF ChainInv
<1>4. CASE DOMAIN vers # {} /\ (copy = None \/ copy.data = main.data)
  <2>1. copy.data = main.data /\ UNCHANGED <<broken, Good>>
    BY <1>1, <1>4 DEF Good, Typed
  <2> QED
    BY <2>1, <1>1, <1>2 DEF ChainInv
<1> QED
  BY <1>3, <1>4

LEMMA ChainObserve ==
  ASSUME Typed, ChainInv, Observe
  PROVE  ChainInv'
<1>1. /\ copy' = main /\ UNCHANGED <<main, vers, at, target, todo, recorded>>
      /\ broken' = IF at \notin {"copy", "back"} /\ main.data # copy.data
                   THEN DOMAIN vers ELSE broken
  BY DEF Observe, Copied, cli
<1>2. CASE at \notin {"copy", "back"} /\ main.data # copy.data
  <2>1. at = "remove" => "edit" \in Disturbances
    BY <1>2 DEF ChainInv, Brought
  <2> QED
    BY <2>1, <1>1, <1>2, ChainBroken
<1>3. CASE at \in {"copy", "back"} \/ main.data = copy.data
  <2>1. UNCHANGED <<broken, Good>>
    BY <1>1, <1>3 DEF Good
  <2>2. \A v : Brought(v) => Brought(v)'
    BY <2>1, <1>1 DEF Brought
  <2>3. CASE at \in {"undo", "back"}
    <3>1. PICK U \in SUBSET DOMAIN vers : Undoing(U, target)
      BY <2>3 DEF ChainInv
    <3>2. Undoing(U, target)'
      BY <3>1, <2>1, <2>2, <1>1, <1>3 DEF Undoing
    <3> QED
      BY <3>2, <2>1, <2>3, <1>1 DEF ChainInv
  <2>4. CASE at \notin {"undo", "back"}
    BY <2>1, <2>2, <2>4, <1>1, <1>3 DEF ChainInv
  <2> QED
    BY <2>3, <2>4
<1> QED
  BY <1>2, <1>3

LEMMA ChainCrash ==
  ASSUME Typed, ChainInv, Crash
  PROVE  ChainInv'
<1>1. /\ at' = "idle" /\ UNCHANGED <<main, copy, vers, recorded>>
      /\ broken' = IF at = "send" THEN broken ELSE DOMAIN vers
  BY DEF Crash
<1>2. CASE at = "send"
  <2>1. UNCHANGED <<broken, Good>>
    BY <1>1, <1>2 DEF Good
  <2> QED
    BY <2>1, <1>1, <1>2 DEF ChainInv
<1>3. CASE at # "send"
  BY <1>1, <1>3, ChainBroken
<1> QED
  BY <1>2, <1>3

LEMMA ChainStep ==
  ASSUME Typed, ChainInv, [Next]_vars
  PROVE  ChainInv'
<1>1. CASE UpdateCopy
  <2>1. /\ at = "copy" /\ at' = "send" /\ main' = main /\ copy' = main
        /\ UNCHANGED <<vers, recorded, broken, Good>>
    BY <1>1 DEF UpdateCopy, Copied, Good
  <2> QED
    BY <2>1 DEF ChainInv
<1>2. CASE SendFiles
  <2>1. /\ at = "send" /\ at' = "idle"
        /\ UNCHANGED <<main, copy, vers, recorded, broken, Good>>
    BY <1>2 DEF SendFiles, Good
  <2> QED
    BY <2>1 DEF ChainInv
<1>3. CASE Tick \/ ServerHandles \/ RestoreUnknown \/ UNCHANGED vars
  <2>1. UNCHANGED <<main, copy, vers, recorded, broken, Good, at, target, todo>>
    BY <1>3 DEF Tick, ServerHandles, RestoreUnknown, vars, cli, Good
  <2>2. \A v : Brought(v) => Brought(v)'
    BY <2>1 DEF Brought
  <2>3. \A U : Undoing(U, target) => Undoing(U, target)'
    BY <2>1, <2>2 DEF Undoing
  <2> QED
    BY <2>1, <2>2, <2>3 DEF ChainInv
<1> QED
  BY <1>1, <1>2, <1>3, ChainEdit, ChainAdd, ChainUpdateDiff, ChainRestore,
     ChainUndo, ChainCopyBack, ChainAllUndone, ChainRemoveVersion,
     ChainTellServer, ChainObserve, ChainCrash DEF Next

------------------------------------------------------------------------------
(* What a version leads back to *)

(* What taking the versions back comes to, if w is such a way.             *)
LEMMA TakenBackIs ==
  ASSUME NEW f, NEW s, Len(s) \in Nat, NEW c, NEW w,
         w = [i \in 0..Len(s) |-> w[i]], w[0] = c,
         \A i \in 1..Len(s) :
           w[i] = Multiply(Text(w[i - 1]), Text(f[s[i]].data))
  PROVE  TakenBack(f, s, c) = w[Len(s)]
<1> DEFINE Step(u) == [i \in 0..Len(s) |->
                         IF i = 0 THEN c
                         ELSE Multiply(Text(u[i - 1]), Text(f[s[i]].data))]
           undone == CHOOSE u : u = Step(u)
           Bad == {i \in 0..Len(s) : undone[i] # w[i]}
<1>1. TakenBack(f, s, c) = undone[Len(s)]
  BY DEF TakenBack
<1>2. PICK l \in Nat : l = Len(s)
  OBVIOUS
<1>3. w = Step(w)
  <2>1. \A i \in 0..Len(s) : i = 0 \/ i \in 1..Len(s)
    OBVIOUS
  <2>2. \A i \in 0..Len(s) :
          w[i] = IF i = 0 THEN c
                 ELSE Multiply(Text(w[i - 1]), Text(f[s[i]].data))
    BY <2>1
  <2> QED
    BY <2>2
<1>4. undone = Step(undone)
  <2> HIDE DEF Step
  <2> QED
    BY <1>3
<1>5. /\ undone[0] = c
      /\ \A i \in 1..l :
           undone[i] = Multiply(Text(undone[i - 1]), Text(f[s[i]].data))
  <2> HIDE DEF undone
  <2> QED
    BY <1>2, <1>4
<1> HIDE DEF undone
<1>6. SUFFICES ASSUME undone[l] # w[l]
               PROVE  FALSE
  BY <1>1, <1>2
<1>7. PICK i \in Bad : \A j \in Bad : i <= j
  <2>1. Bad \in SUBSET Nat /\ Bad # {}
    BY <1>2, <1>6
  <2> HIDE DEF Bad
  <2> QED
    BY <2>1, LeastOne
<1>8. i \in 1..l
  BY <1>2, <1>5
<1>9. i - 1 \in 0..l /\ ~(i <= i - 1)
  BY <1>8
<1>10. undone[i - 1] = w[i - 1]
  BY <1>2, <1>7, <1>9
<1> QED
  BY <1>2, <1>5, <1>8, <1>10

(* A chain leads from d back to what any version of it recorded.           *)
LEMMA LinksLeadBack ==
  ASSUME NEW f, NEW r, NEW S \in SUBSET Name, NEW d, Links(f, r, S, d),
         NEW v \in S, NEW s, Lists(s, From(S, v))
  PROVE  TakenBack(f, s, d) = r[v]
<1>1. PICK l \in Nat :
        /\ l = Len(s)
        /\ \A i \in 1..l : s[i] \in S /\ ~Before(s[i], v) /\ s[i] \in Name
        /\ \A n \in S : ~Before(n, v) => \E i \in 1..l : s[i] = n
        /\ \A i, j \in 1..l : i < j => Before(s[j], s[i])
  <2>1. s \in Seq(From(S, v))
    BY DEF Lists
  <2>2. Len(s) \in Nat /\ \A i \in 1..Len(s) : s[i] \in From(S, v)
    BY <2>1
  <2>3. \A i \in 1..Len(s) : s[i] \in S /\ ~Before(s[i], v) /\ s[i] \in Name
    BY <2>2 DEF From
  <2>4. \A n \in S : ~Before(n, v) => \E i \in 1..Len(s) : s[i] = n
    BY DEF Lists, From
  <2>5. \A i, j \in 1..Len(s) : i < j => Before(s[j], s[i])
    BY DEF Lists
  <2>6. PICK l \in Nat : l = Len(s)
    BY <2>2
  <2> QED
    BY <2>3, <2>4, <2>5, <2>6
<1>2. l \in 1..l /\ s[l] = v
  <2>1. ~Before(v, v)
    BY NamesAreOrdered
  <2>2. PICK k \in 1..l : s[k] = v
    BY <1>1, <2>1
  <2>3. ~(k < l)
    BY <1>1, <2>2
  <2> QED
    BY <2>2, <2>3
<1> DEFINE W(i) == IF i = 0 THEN d ELSE r[s[i]]
<1>3. PICK w : w = [i \in 0..l |-> W(i)]
  OBVIOUS
<1>4. w[0] = d /\ \A i \in 1..l : w[i] = r[s[i]]
  <2>1. 0 \in 0..l /\ \A i \in 1..l : i \in 0..l /\ i # 0
    OBVIOUS
  <2> QED
    BY <2>1, <1>3
<1>5. w = [i \in 0..l |-> w[i]]
  BY <1>3
<1>6. ASSUME NEW i \in 1..l
      PROVE  w[i] = Multiply(Text(w[i - 1]), Text(f[s[i]].data))
  <2>1. ASSUME NEW n \in S, Before(s[i], n)
        PROVE  \E j \in 1..l : j < i /\ s[j] = n
    <3>1. ~Before(n, v)
      BY <1>1, <2>1, NamesAreOrdered
    <3>2. PICK j \in 1..l : s[j] = n
      BY <1>1, <3>1
    <3>3. ~Before(s[i], s[i]) /\ ~(Before(n, s[i]))
      BY <1>1, <2>1, NamesAreOrdered
    <3>4. j < i
      BY <1>1, <2>1, <3>2, <3>3
    <3> QED
      BY <3>2, <3>4
  <2>2. CASE i = 1
    <3>1. \A n \in S : ~Before(s[i], n)
      BY <2>1, <2>2
    <3>2. Multiply(Text(d), Text(f[s[i]].data)) = r[s[i]]
      BY <1>1, <3>1 DEF Links
    <3> QED
      BY <2>2, <3>2, <1>4
  <2>3. CASE i # 1
    <3>1. i - 1 \in 1..l /\ i - 1 < i
      BY <2>3
    <3>2. Before(s[i], s[i - 1]) /\ s[i] \in S /\ s[i - 1] \in S
      BY <1>1, <3>1
    <3>3. ASSUME NEW k \in S, Before(s[i], k), Before(k, s[i - 1])
          PROVE  FALSE
      <4>1. PICK j \in 1..l : j < i /\ s[j] = k
        BY <2>1, <3>3
      <4>2. s[i - 1] \in Name /\ k \in Name
        BY <1>1, <3>1
      <4>3. j = i - 1 \/ j < i - 1
        BY <4>1
      <4>4. k = s[i - 1] \/ Before(s[i - 1], k)
        BY <1>1, <3>1, <4>1, <4>3
      <4> QED
        BY <3>3, <4>2, <4>4, NamesAreOrdered
    <3>4. Multiply(Text(r[s[i - 1]]), Text(f[s[i]].data)) = r[s[i]]
      BY <3>2, <3>3 DEF Links
    <3> QED
      BY <3>1, <3>4, <1>4
  <2> QED
    BY <2>2, <2>3
<1>7. TakenBack(f, s, d) = w[l]
  BY <1>1, <1>4, <1>5, <1>6, TakenBackIs
<1> QED
  BY <1>2, <1>4, <1>7

LEMMA ChainRestores ==
  ASSUME Typed, ChainInv
  PROVE  VersionsRestorable
<1>1. SUFFICES ASSUME at = "idle", NEW v \in DOMAIN vers \ broken
               PROVE  Restored(v) = recorded[v]
  BY DEF VersionsRestorable
<1>2. PICK S \in SUBSET Name : S = Good
  BY DEF Good, Typed, TypeOK
<1>3. PICK f, r, d : f = vers /\ r = recorded /\ d = copy.data
  OBVIOUS
<1>4. Links(f, r, S, d) /\ v \in S
  BY <1>1, <1>2, <1>3 DEF ChainInv, Good
<1>5. From(DOMAIN vers, v) = From(S, v)
  <2>1. ASSUME NEW n \in broken
        PROVE  Before(n, v)
    BY <1>2, <1>4 DEF ChainInv
  <2> QED
    BY <2>1, <1>2 DEF From, Good
<1>6. PICK s : s = NewestFirst(From(S, v)) /\ Lists(s, From(S, v))
  <2>1. From(S, v) \in SUBSET Name
    BY DEF From
  <2> QED
    BY <2>1, NewestFirstLists
<1>7. TakenBack(f, s, d) = r[v]
  BY <1>4, <1>6, LinksLeadBack
<1> QED
  BY <1>3, <1>5, <1>6, <1>7 DEF Restored

(* Whatever updates and restores there are, and whatever comes between:    *)
(* the version files that are not cut off are a chain of products, read as *)
(* texts, that ends with the copy.                                         *)
THEOREM HistoryIsChained == Spec => [](Typed /\ ChainInv)
<1>1. Typed /\ [Next]_vars => Typed'
  BY TypedStep
<1>2. Typed /\ ChainInv /\ [Next]_vars => ChainInv'
  BY ChainStep
<1> QED
  BY <1>1, <1>2, TypedInit, ChainInit, PTL DEF Spec

(* So between two commands, restoring a version would bring back what it   *)
(* recorded: no update, no restore of another version, no edit of the file *)
(* spoils it, and what cuts versions off spoils none that is made later.   *)
THEOREM VersionsStayRestorable == Spec => []HistoryInv
<1>1. Typed /\ ChainInv => HistoryInv
  BY ChainRestores DEF Typed, HistoryInv
<1> QED
  BY <1>1, HistoryIsChained, PTL

(* "Restore file in storage folder to corresponding version": unless the   *)
(* user writes the file while the command runs, it is what the copy was    *)
(* when the update made that version, before any version is removed.       *)
THEOREM RestoreBringsBack ==
  ASSUME "edit" \notin Disturbances
  PROVE  Spec => []RestoresAsPromised
<1>1. ChainInv => RestoresAsPromised
  BY DEF ChainInv, Brought, RestoresAsPromised
<1> QED
  BY <1>1, HistoryIsChained, PTL
==============================================================================
