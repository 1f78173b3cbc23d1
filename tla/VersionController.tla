-------------------------- MODULE VersionController --------------------------
(***************************************************************************)
(* The history of one file: vcs::VersionController's add, update, restore  *)
(* and observer on the client's disk, and the copy of it all that the      *)
(* server keeps (net::Server::_msgHandler, RestoreVersion).                *)
(*                                                                         *)
(* A version file holds the product of the new content and the one before, *)
(* so a version means nothing without all the later ones and the copy.     *)
(* Each file operation of a command is a step: others come in between, and *)
(* none stops half-way.  A look of the observer, with the copy it makes,   *)
(* is one step too.  A copy is made as the bytes are, but a product is     *)
(* made, and a file sent, from a text-mode stream: on Windows a byte 0x1A  *)
(* ends it.  What is posted reaches the server whole and in order:         *)
(* Transport and FileTransfer say when that is so.  No integrity check     *)
(* runs, so that _blocked is false throughout.                             *)
(***************************************************************************)
EXTENDS Product, FiniteSets

CONSTANTS Contents,     \* what the user may write into the file
          TextEnds,     \* 0x1A on Windows, elsewhere none
          Base,         \* 10: the version postfix is written in base 10
          MinuteLength, \* seconds in a minute: 60
          MaxTime,      \* bound: the clock stops there
          MaxNet,       \* bound: the client waits while as many are under way
          Disturbances, \* what may come between, see Disturbance
          ServerUp,     \* the client has found the server when it started
          None          \* no file; no version

(* "observer": the observer thread watches the file.  "readd": the user    *)
(* adds a file that has versions.  "edit": the user writes the file while  *)
(* a command runs.  "crash": the client ends in the middle of a command.   *)
(* "hurry": two versions may be made in one second.  "unknown": the user   *)
(* restores a version that is not there.                                   *)
Disturbance == {"observer", "readd", "edit", "crash", "hurry", "unknown"}

(* The name of a version: "(%Y-%m-%d)(%H-%M)#" as its minute, and postfix. *)
Name == (0..MaxTime \div MinuteLength) \X (0..Base)
Time == 0..MaxTime
Stored == [data : File, mtime : Time]

ASSUME ControllerAssumption ==
  /\ Contents \subseteq File /\ TextEnds \subseteq Byte
  /\ Base \in Nat \ {0} /\ MinuteLength \in Nat \ {0} /\ MaxTime \in Nat
  /\ MaxNet \in Nat \ {0}
  /\ Disturbances \subseteq Disturbance /\ ServerUp \in BOOLEAN
  /\ None \notin Name /\ None \notin Stored

VARIABLES
  main,     \* the file in the storage folder
  copy,     \* its copy in the versions folder, or None
  vers,     \* the version files of the versions folder, by name
  now,      \* the clock, in seconds
  at,       \* where the command line's thread is
  made,     \* the version that the running update makes; None in an add
  target,   \* pathToVersion of the running restore
  todo,     \* the vector versions: what is left of it in either loop
  linked,   \* the connection to the server is up
  net,      \* what is under way to the server
  srvCopy,  \* the server's copy of the file, or None
  srvVers,  \* the server's version files
  recorded, \* ghost: by version, the content that restoring it promises
  broken,   \* ghost: the versions that have been cut off
  behind    \* ghost: the copy has changed without the server being told

cli == <<at, made, target, todo>>
server == <<srvCopy, srvVers>>
vars == <<main, copy, vers, now, at, made, target, todo, linked, net, srvCopy,
          srvVers, recorded, broken, behind>>

Init ==
  /\ \E c \in Contents : main = [data |-> c, mtime |-> 0]
  /\ copy = None /\ vers = <<>>
  /\ now = 0
  /\ at = "idle" /\ made = None /\ target = None /\ todo = <<>>
  /\ linked = ServerUp /\ net = <<>>
  /\ srvCopy = None /\ srvVers = <<>>
  /\ recorded = <<>> /\ broken = {} /\ behind = FALSE

------------------------------------------------------------------------------
(* Names *)

(* NTFS lists a folder by name: by minute, then by the postfix as text, so *)
(* that "10" is between "1" and "2".                                       *)
Rank(p) == IF p = Base THEN 3 ELSE 2 * p
Before(m, n) ==
  m[1] < n[1] \/ (m[1] = n[1] /\ Rank(m[2]) < Rank(n[2]))

(* _getLastVersionFile: the latest mtime; of two equal ones the first.     *)
LastVersion ==
  CHOOSE n \in DOMAIN vers : \A m \in DOMAIN vers \ {n} :
    \/ vers[m].mtime < vers[n].mtime
    \/ vers[m].mtime = vers[n].mtime /\ Before(n, m)

SamePostfix(p) == p                          \* a slip: not incremented

(* The last digit of the postfix, plus one. *)
NextPostfix(p) == (p % Base) + 1

(* _createFilename with the postfix that update computes.                  *)
NewName ==
  << now \div MinuteLength,
     IF vers = <<>> THEN 0 ELSE NextPostfix(LastVersion[2]) >>

(* A slip: push_back.                                                      *)
OldestFirst(S) ==
  CHOOSE s \in [1..Cardinality(S) -> S] :
    \A i, j \in DOMAIN s : i < j => Before(s[i], s[j])

(* insert at versions.begin(). *)
NewestFirst(S) ==
  CHOOSE s \in [1..Cardinality(S) -> S] :
    \A i, j \in DOMAIN s : i < j => Before(s[j], s[i])

(* The names that the iteration comes to from v on: found stays true.      *)
From(S, v) == {n \in S : ~Before(n, v)}

------------------------------------------------------------------------------
(* Files *)

(* A slip: a copy that exists is kept (copy_options::skip_existing).       *)
CopiedOnce(from, to) == IF to = None THEN from ELSE to

(* _copy, where CopyFile keeps the mtime (the assert after it says so).    *)
Copied(from, to) == from

(* What a text-mode stream gives of a file.                                *)
Text(f) == TextUpTo(f, TextEnds)

Put(f, n, x) == [m \in DOMAIN f \cup {n} |-> IF m = n THEN x ELSE f[m]]
Without(f, S) == [m \in DOMAIN f \ S |-> f[m]]

Post(ms) == net' = IF linked THEN net \o ms ELSE net

(* The user writes the file: between commands, or "edit" at any time.      *)
Edit ==
  /\ at = "idle" \/ "edit" \in Disturbances
  /\ \E c \in Contents \ {main.data} : main' = [data |-> c, mtime |-> now]
  /\ broken' = IF at \in {"copy", "back"} THEN DOMAIN vers ELSE broken
  /\ UNCHANGED <<copy, vers, now, cli, linked, net, server, recorded, behind>>

Tick ==
  /\ now < MaxTime
  /\ now' = now + 1
  /\ UNCHANGED <<main, copy, vers, cli, linked, net, server, recorded,
                 broken, behind>>

------------------------------------------------------------------------------
(* add and update *)

(* add: also what update does when the versions folder is empty.           *)
Add ==
  /\ at = "idle"
  /\ vers = <<>> \/ "readd" \in Disturbances
  /\ copy' = Copied(main, copy)
  /\ broken' = IF copy # None /\ copy.data # main.data
               THEN DOMAIN vers ELSE broken
  /\ at' = "send" /\ made' = None
  /\ UNCHANGED <<main, vers, now, target, todo, linked, net, server, recorded,
                 behind>>

(* The limits of a version file, which holds the product of new and old:   *)
(* no byte of old or of the product ends a text, both contents have as     *)
(* many whole blocks, and neither ends in a NUL behind them.  (Undoing a   *)
(* product that is beyond them: UndoPads and UndoStops of FileMultiplier.) *)
Reversible(new, old) ==
  LET blocks == Len(new) \div BlockSize IN
  /\ Text(old) = old /\ Text(Multiply(new, old)) = Multiply(new, old)
  /\ Len(old) \div BlockSize = blocks
  /\ \A f \in {new, old} : Len(f) > blocks * BlockSize => f[Len(f)] # NUL

(* update: the version file is written, over an earlier one of that name.  *)
(* It cuts off itself and the versions before it if it is beyond its       *)
(* limits, or if its name is not listed behind theirs.                     *)
UpdateDiff ==
  /\ at = "idle" /\ copy # None
  /\ \/ "hurry" \in Disturbances
     \/ \A n \in DOMAIN vers : vers[n].mtime < now
  /\ made' = NewName
  /\ vers' = Put(vers, NewName,
               [data |-> Multiply(Text(main.data), Text(copy.data)),
                mtime |-> now])
  /\ recorded' = Put(recorded, NewName, copy.data)
  /\ broken' = IF /\ Reversible(Text(main.data), copy.data)
                  /\ \A n \in DOMAIN vers : Before(n, NewName)
               THEN broken ELSE DOMAIN vers'
  /\ at' = "copy"
  /\ UNCHANGED <<main, copy, now, target, todo, linked, net, server, behind>>

UpdateCopy ==
  /\ at = "copy"
  /\ copy' = Copied(main, copy)
  /\ at' = "send"
  /\ UNCHANGED <<main, vers, now, made, target, todo, linked, net, server,
                 recorded, broken, behind>>

(* The sendFile calls at the end of add and of update.                     *)
SendFiles ==
  /\ at = "send" /\ Len(net) < MaxNet
  /\ Post(<<[type |-> "copy", name |-> None, data |-> Text(copy.data)]>>
            \o IF made = None THEN <<>>
               ELSE <<[type |-> "version", name |-> made,
                       data |-> Text(vers[made].data)]>>)
  /\ at' = "idle" /\ made' = None
  /\ behind' = FALSE
  /\ UNCHANGED <<main, copy, vers, now, target, todo, linked, server,
                 recorded, broken>>

------------------------------------------------------------------------------
(* restore *)

(* The versions are collected, the newest first. *)
Restore ==
  /\ at = "idle"
  /\ \E v \in DOMAIN vers :
       /\ target' = v
       /\ todo' = NewestFirst(From(DOMAIN vers, v))
  /\ at' = "undo"
  /\ UNCHANGED <<main, copy, vers, now, made, linked, net, server, recorded,
                 broken, behind>>

(* One round of the first loop: the product of copy and version to main... *)
Undo ==
  /\ at = "undo" /\ todo # <<>>
  /\ main' = [data |-> Multiply(Text(copy.data), Text(vers[Head(todo)].data)),
              mtime |-> now]
  /\ at' = "back"
  /\ UNCHANGED <<copy, vers, now, made, target, todo, linked, net, server,
                 recorded, broken, behind>>

(* ...and main to copy. *)
CopyBack ==
  /\ at = "back"
  /\ copy' = Copied(main, copy)
  /\ todo' = Tail(todo)
  /\ at' = "undo"
  /\ UNCHANGED <<main, vers, now, made, target, linked, net, server, recorded,
                 broken, behind>>

(* The second loop goes through the same vector. *)
AllUndone ==
  /\ at = "undo" /\ todo = <<>>
  /\ todo' = NewestFirst(From(DOMAIN vers, target))
  /\ at' = "remove"
  /\ UNCHANGED <<main, copy, vers, now, made, target, linked, net, server,
                 recorded, broken, behind>>

RemoveVersion ==
  /\ at = "remove" /\ todo # <<>>
  /\ vers' = Without(vers, {Head(todo)})
  /\ todo' = Tail(todo)
  /\ UNCHANGED <<main, copy, now, at, made, target, linked, net, server,
                 recorded, broken, behind>>

(* The RestoreVersion message: the copy that is left does not go along.    *)
TellServer ==
  /\ at = "remove" /\ todo = <<>> /\ Len(net) < MaxNet
  /\ Post(<<[type |-> "restore", name |-> target, data |-> <<>>]>>)
  /\ at' = "idle" /\ target' = None
  /\ recorded' = Without(recorded, DOMAIN recorded \ DOMAIN vers)
  /\ broken' = broken \cap DOMAIN vers
  /\ behind' = TRUE
  /\ UNCHANGED <<main, copy, vers, now, made, todo, linked, server>>

(* No version is found: where the assert is left out (NDEBUG), both loops  *)
(* do nothing and the message is posted all the same.                      *)
RestoreUnknown ==
  /\ "unknown" \in Disturbances
  /\ at = "idle" /\ copy # None /\ Len(net) < MaxNet
  /\ \E v \in Name \ DOMAIN vers :
       Post(<<[type |-> "restore", name |-> v, data |-> <<>>]>>)
  /\ UNCHANGED <<main, copy, vers, now, cli, linked, server, recorded, broken,
                 behind>>

------------------------------------------------------------------------------
(* The observer thread, the end of the process *)

(* One look of _observe at the file: it copies a changed file, and makes   *)
(* no version.                                                             *)
Observe ==
  /\ "observer" \in Disturbances
  /\ copy # None /\ main.mtime # copy.mtime
  /\ copy' = Copied(main, copy)
  /\ broken' = IF at \notin {"copy", "back"} /\ main.data # copy.data
               THEN DOMAIN vers ELSE broken
  /\ behind' = TRUE
  /\ UNCHANGED <<main, vers, now, cli, linked, net, server, recorded>>

(* The client ends between two file operations, with what it had posted,   *)
(* and is started again.  The server then hangs (Transport), so the new    *)
(* client gets nothing across.                                             *)
Crash ==
  /\ "crash" \in Disturbances
  /\ at # "idle"
  /\ at' = "idle" /\ made' = None /\ target' = None /\ todo' = <<>>
  /\ linked' = FALSE
  /\ \E n \in 0..Len(net) : net' = SubSeq(net, 1, n)
  /\ broken' = IF at = "send" THEN broken ELSE DOMAIN vers
  /\ UNCHANGED <<main, copy, vers, now, server, recorded, behind>>

------------------------------------------------------------------------------
(* The server *)

OnlyTarget(f, v) == Without(f, {v})          \* a slip: later ones stay

(* Server::_msgHandler on RestoreVersion: nothing if v does not exist.     *)
AfterRestore(f, v) ==
  IF v \in DOMAIN f THEN Without(f, From(DOMAIN f, v)) ELSE f

(* The server handles what comes next: a whole file, or RestoreVersion.    *)
ServerHandles ==
  LET m == Head(net) IN
  /\ net # <<>>
  /\ net' = Tail(net)
  /\ srvCopy' = IF m.type = "copy" THEN m.data ELSE srvCopy
  /\ srvVers' = CASE m.type = "version" -> Put(srvVers, m.name, m.data)
                  [] m.type = "restore" -> AfterRestore(srvVers, m.name)
                  [] OTHER -> srvVers
  /\ UNCHANGED <<main, copy, vers, now, cli, linked, recorded, broken, behind>>

------------------------------------------------------------------------------
Next ==
  \/ Edit \/ Tick
  \/ Add \/ UpdateDiff \/ UpdateCopy \/ SendFiles
  \/ Restore \/ Undo \/ CopyBack \/ AllUndone \/ RemoveVersion \/ TellServer
  \/ RestoreUnknown
  \/ Observe \/ Crash
  \/ ServerHandles

Spec == Init /\ [][Next]_vars

------------------------------------------------------------------------------
(* Properties *)

TypeOK ==
  /\ main \in Stored /\ copy \in Stored \cup {None}
  /\ DOMAIN vers \subseteq Name /\ \A n \in DOMAIN vers : vers[n] \in Stored
  /\ now \in Time
  /\ at \in {"idle", "copy", "send", "undo", "back", "remove"}
  /\ made \in Name \cup {None} /\ target \in Name \cup {None}
  /\ todo \in Seq(Name)
  /\ linked \in BOOLEAN
  /\ net \in Seq([type : {"copy", "version", "restore"},
                  name : Name \cup {None}, data : File])
  /\ srvCopy \in File \cup {None}
  /\ DOMAIN srvVers \subseteq Name
  /\ \A n \in DOMAIN srvVers : srvVers[n] \in File
  /\ DOMAIN recorded \subseteq Name
  /\ \A n \in DOMAIN recorded : recorded[n] \in File
  /\ broken \subseteq Name /\ behind \in BOOLEAN

(* The content data with the versions s of f taken back one after the      *)
(* other, as restore's first loop does.                                    *)
TakenBack(f, s, data) ==
  LET undone[i \in 0..Len(s)] ==
        IF i = 0 THEN data
        ELSE Multiply(Text(undone[i - 1]), Text(f[s[i]].data))
  IN undone[Len(s)]

(* What restoring version v would give: the copy, with the versions from   *)
(* the newest to v taken back.                                             *)
Restored(v) ==
  TakenBack(vers, NewestFirst(From(DOMAIN vers, v)), copy.data)

(* Between commands every version leads back to the content it recorded,   *)
(* unless it has been cut off: by a disturbance, or by an update whose     *)
(* version file is beyond its limits or out of order.  So neither updates  *)
(* nor restores of other versions ever spoil a version, and nothing spoils *)
(* a version that is made after it.                                        *)
VersionsRestorable ==
  at = "idle" =>
    \A v \in DOMAIN vers \ broken : Restored(v) = recorded[v]

(* Every version file that is not cut off keeps its promise, through any   *)
(* sequence of edits, updates and restores; with the types.                *)
HistoryInv == TypeOK /\ VersionsRestorable

(* "Restore file in storage folder to corresponding version": once all is  *)
(* undone and while the versions are removed, the file in the storage      *)
(* folder is what it was before that version was made.                     *)
RestoreIsCorrect == at = "remove" => main.data = recorded[target]

(* So it is for a version that has not been cut off, whatever restores and *)
(* updates there were before.                                              *)
RestoresAsPromised ==
  at = "remove" /\ target \notin broken => main.data = recorded[target]

(* The postfix has come to "10" in the minute of n.                        *)
CameToBase(n) == <<n[1], Base>> \in DOMAIN vers

(* Each update "saves as version file": the file of an earlier version is  *)
(* written over only after the postfix has come to "10" in its minute, and *)
(* begins again at "1".                                                    *)
NoVersionLost ==
  [][\A n \in DOMAIN vers :
       n \in DOMAIN vers' => vers'[n] = vers[n] \/ CameToBase(n)]_vars

(* What restore removes is the newest version there is, but for those of a *)
(* minute in which the postfix has come to "10": at whatever step it may   *)
(* end, the versions before that are all there.                            *)
RemovesNewest ==
  [][\A n \in DOMAIN vers \ DOMAIN vers' : \A m \in DOMAIN vers' :
       \/ vers'[m].mtime < vers[n].mtime
       \/ m[1] = n[1] /\ CameToBase(n)]_vars

(* When nothing is under way, the server has exactly the client's version  *)
(* files, as texts: both sides number, order and cut the history alike.    *)
(* It has the copy as well, which they mean nothing without, except from a *)
(* restore to the next update.                                             *)
ServerMirrors ==
  at = "idle" /\ net = <<>> /\ linked =>
    /\ DOMAIN srvVers = DOMAIN vers
    /\ \A n \in DOMAIN vers : srvVers[n] = Text(vers[n].data)
    /\ ~behind => srvCopy = (IF copy = None THEN None ELSE Text(copy.data))
==============================================================================
