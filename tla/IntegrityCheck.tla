---------------------------- MODULE IntegrityCheck ----------------------------
(***************************************************************************)
(* The integrity check: a client asks for the server's list of files       *)
(* (VersionController::checkIntegrity), requests those that it misses, and *)
(* puts them in its versions folder, while _blocked keeps the command line *)
(* from touching it.  Several clients share one server (net/Server.hpp),   *)
(* with a processing thread for each connection.                           *)
(*                                                                         *)
(* Every message is one step of the processing thread that handles it, and *)
(* a file is two: a FileHeader, and its chunks with the EndOfFile, posted  *)
(* together (FileTransfer has the chunks, and what comes of posts that     *)
(* mix).  Connections are up and keep the order (Transport).               *)
(***************************************************************************)
EXTENDS Naturals, Sequences, FiniteSets, SequencesExt

CONSTANTS Clients,
          Server,
          Files,       \* paths below the versions folders
          Later,       \* the later ones in the folder of each, by their names
          Missing,     \* no such file
          Partial,     \* a file that is being received
          MaxSaves,    \* bound: how many commands change files
          MaxChecks    \* bound: how many checks there are

(* A file's content is the number of the command that wrote it.            *)
Content == 0..MaxSaves

ASSUME IntegrityAssumption ==
  /\ Server \notin Clients
  /\ IsFiniteSet(Files) /\ Later \in [Files -> SUBSET Files]
  /\ Missing # Partial /\ {Missing, Partial} \cap Content = {}
  /\ MaxSaves \in Nat /\ MaxChecks \in Nat

Node == Clients \cup {Server}
Side == {"client", "server"}

Msg == [type : {"CheckIntegrity"}]
         \cup [type : {"List", "RequestFiles"}, paths : SUBSET Files]
         \cup [type : {"FileHeader", "RestoreVersion"}, path : Files]
         \cup [type : {"EndOfFile"}, path : Files,
               data : Content \cup {Partial}]

VARIABLES
  disk,      \* what each node's versions folder has of each file
  conns,     \* the server's _connections
  toServer,  \* the messages on their way from each client
  toClient,  \* the messages on their way to each client
  open,      \* _files_in_process of either end of each connection
  serving,   \* what is left of each server thread's RequestFiles loop
  blocked,   \* _blocked of each client
  handler,   \* the client's _onMessageHandler is VersionController's
  saves,     \* how many commands have changed files
  checks,    \* how many checks there have been
  saved,     \* ghost: what the user has put there, as long as it is safe
  promised,  \* ghost: the listed files that a client is to have in the end
  spoilt,    \* ghost: the files refused by a client, or not sent whole to it
  served,    \* ghost: the files sent to each client since its last check
  early      \* ghost: the clients that may be unblocked before the end

state == <<disk, open, serving, blocked, handler>>
ghosts == <<saved, promised, spoilt, served, early>>
vars == <<disk, conns, toServer, toClient, open, serving, blocked, handler,
          saves, checks, saved, promised, spoilt, served, early>>

(* The server has files; the clients may have lost theirs.                 *)
Init ==
  /\ disk \in [Node -> [Files -> {0, Missing}]]
  /\ \E p \in Files : disk[Server][p] = 0
  /\ conns = <<>>
  /\ toServer = [c \in Clients |-> <<>>]
  /\ toClient = [c \in Clients |-> <<>>]
  /\ open = [c \in Clients |-> [s \in Side |-> {}]]
  /\ serving = [c \in Clients |-> {}]
  /\ blocked = [c \in Clients |-> FALSE]
  /\ handler = [c \in Clients |-> FALSE]
  /\ saves = 0 /\ checks = 0
  /\ saved = [c \in Clients |-> [p \in Files |-> Missing]]
  /\ promised = [c \in Clients |-> {}]
  /\ spoilt = [c \in Clients |-> {}]
  /\ served = [c \in Clients |-> {}]
  /\ early = {}

------------------------------------------------------------------------------
(* Who gets what *)

(* _connections.back(): where the server sends every reply.                *)
Replied == Last(conns)

(* What sendFile posts. *)
AsMessages(path, data) ==
  << [type |-> "FileHeader", path |-> path],
     [type |-> "EndOfFile", path |-> path, data |-> data] >>

(* The files that are still to come to client c: posted, or asked for (or  *)
(* in the loop of a server thread) while it is the one replied to.         *)
Asked(d) ==
  serving[d] \cup UNION {m.paths : m \in {n \in ToSet(toServer[d]) :
                                            n.type = "RequestFiles"}}
Posted(c) == {m.path : m \in {n \in ToSet(toClient[c]) :
                                n.type \in {"FileHeader", "EndOfFile"}}}
ComingFrom(c, askers) ==
  Posted(c) \cup (IF conns # <<>> /\ c = Replied
                  THEN UNION {Asked(d) : d \in askers} ELSE {})
ToCome(c) == ComingFrom(c, Clients)

------------------------------------------------------------------------------
(* The client's command line *)

(* The server accepts c.  What the others were to get goes to c from now   *)
(* on.                                                                     *)
Connect(c) ==
  /\ c \notin ToSet(conns)
  /\ conns' = Append(conns, c)
  /\ promised' = [d \in Clients |-> {}]
  /\ UNCHANGED <<toServer, toClient, state, saves, checks, saved, spoilt,
                 served, early>>

(* add or update: a file is written and sent (of those of a command, one;  *)
(* VersionController has them all).  It is not safe there if an older one  *)
(* is on its way.                                                          *)
Save(c) ==
  /\ ~blocked[c] /\ c \in ToSet(conns) /\ saves < MaxSaves
  /\ saves' = saves + 1
  /\ \E p \in Files :
       /\ disk' = [disk EXCEPT ![c][p] = saves']
       /\ toServer' = [toServer EXCEPT ![c] = @ \o AsMessages(p, saves')]
       /\ saved' = [saved EXCEPT
            ![c][p] = IF p \in ToCome(c) THEN Missing ELSE saves']
  /\ UNCHANGED <<conns, toClient, open, serving, blocked, handler, checks,
                 promised, spoilt, served, early>>

(* What restoring version p leaves of the files there: it is removed, with *)
(* all later ones.                                                         *)
Without(files, p) ==
  [q \in Files |-> IF q \in Later[p] \cup {p} THEN Missing ELSE files[q]]

(* restore: a version is removed here, with the later ones, and then on    *)
(* the server (for the copy, which it rewrites, see VersionController).    *)
Restore(c) ==
  /\ ~blocked[c] /\ c \in ToSet(conns) /\ saves < MaxSaves
  /\ saves' = saves + 1
  /\ \E p \in Files :
       /\ disk[c][p] # Missing
       /\ disk' = [disk EXCEPT ![c] = Without(@, p)]
       /\ toServer' = [toServer EXCEPT ![c] =
            Append(@, [type |-> "RestoreVersion", path |-> p])]
       /\ saved' = [saved EXCEPT ![c] = Without(@, p)]
       /\ promised' = [promised EXCEPT ![c] = @ \ (Later[p] \cup {p})]
  /\ UNCHANGED <<conns, toClient, open, serving, blocked, handler, checks,
                 spoilt, served, early>>

(* checkIntegrity, which does not look at _blocked itself: it may be given *)
(* again before the last check has ended.                                  *)
Check(c) ==
  /\ c \in ToSet(conns) /\ checks < MaxChecks
  /\ checks' = checks + 1
  /\ blocked' = [blocked EXCEPT ![c] = TRUE]
  /\ handler' = [handler EXCEPT ![c] = TRUE]
  /\ toServer' = [toServer EXCEPT ![c] =
                    Append(@, [type |-> "CheckIntegrity"])]
  /\ served' = [served EXCEPT ![c] = {}]
  /\ UNCHANGED <<conns, toClient, disk, open, serving, saves, saved,
                 promised, spoilt, early>>

------------------------------------------------------------------------------
(* Connection::_msgHandler, at the side of either process: m is the message *)
(* at hand, node whose disk it is about.                                    *)

HeaderOpens(c, side, node, m) ==
  /\ open' = [open EXCEPT ![c][side] = @ \cup {m.path}]
  /\ disk' = [disk EXCEPT ![node][m.path] = Partial]

(* A file that has no entry, as its header was refused, is dropped.        *)
EndCloses(c, side, node, m) ==
  /\ open' = [open EXCEPT ![c][side] = @ \ {m.path}]
  /\ disk' = IF m.path \in open[c][side]
             THEN [disk EXCEPT ![node][m.path] = m.data] ELSE disk

------------------------------------------------------------------------------
(* Server::_msgHandler, in the processing thread of c's connection *)

NextFrom(c, type) ==
  /\ serving[c] = {}
  /\ toServer[c] # <<>> /\ Head(toServer[c]).type = type
  /\ toServer' = [toServer EXCEPT ![c] = Tail(@)]

ServerReceives(c) ==
  LET m == Head(toServer[c]) IN
  /\ \/ NextFrom(c, "FileHeader") /\ HeaderOpens(c, "server", Server, m)
     \/ NextFrom(c, "FileHeader") /\ UNCHANGED <<open, disk>>
     \/ NextFrom(c, "EndOfFile") /\ EndCloses(c, "server", Server, m)
  /\ UNCHANGED <<conns, toClient, serving, blocked, handler, saves, checks,
                 ghosts>>

(* Nothing is removed if there is no such version. *)
ServerRestores(c) ==
  /\ NextFrom(c, "RestoreVersion")
  /\ LET p == Head(toServer[c]).path IN
     disk' = IF disk[Server][p] = Missing THEN disk
             ELSE [disk EXCEPT ![Server] = Without(@, p)]
  /\ UNCHANGED <<conns, toClient, open, serving, blocked, handler, saves,
                 checks, ghosts>>

(* The list goes to the client that has connected last.                    *)
ServerLists(c) ==
  /\ NextFrom(c, "CheckIntegrity")
  /\ toClient' = [toClient EXCEPT ![Replied] =
       Append(@, [type |-> "List",
                  paths |-> {p \in Files : disk[Server][p] # Missing}])]
  /\ UNCHANGED <<conns, state, saves, checks, ghosts>>

ServerStartsServing(c) ==
  /\ NextFrom(c, "RequestFiles")
  /\ serving' = [serving EXCEPT ![c] = Head(toServer[c]).paths]
  /\ UNCHANGED <<conns, toClient, disk, open, blocked, handler, saves, checks,
                 ghosts>>

(* One round of the loop: a file that is no longer there is left out, one  *)
(* that is just being received goes as far as it is there.  It goes to the *)
(* client that has connected last, whoever asked.                          *)
ServeFile(c) ==
  \E p \in serving[c] :
    LET data == disk[Server][p]
        to == Replied
    IN
    /\ serving' = [serving EXCEPT ![c] = @ \ {p}]
    /\ IF data = Missing THEN UNCHANGED <<toClient, served>>
       ELSE /\ toClient' = [toClient EXCEPT ![to] = @ \o AsMessages(p, data)]
            /\ served' = [served EXCEPT ![to] = @ \cup {p}]
    /\ spoilt' = IF data \in Content THEN spoilt
                 ELSE [spoilt EXCEPT ![to] = @ \cup {p}]
    /\ saved' = IF to = c THEN saved ELSE [saved EXCEPT ![to][p] = Missing]
    /\ early' = IF to = c THEN early ELSE early \cup {to}
    /\ UNCHANGED <<conns, toServer, disk, open, blocked, handler, saves,
                   checks, promised>>

------------------------------------------------------------------------------
(* The client's processing thread *)

NextTo(c, type) ==
  /\ toClient[c] # <<>> /\ Head(toClient[c]).type = type
  /\ toClient' = [toClient EXCEPT ![c] = Tail(@)]

AllListed(c, paths) == paths                 \* a slip: exists() forgotten
Existing(c, paths) ==                        \* a slip: the branches swapped
  {p \in paths : disk[c][p] # Missing}

(* What VersionController::_msgHandler finds missing.                      *)
NotFound(c, paths) == {p \in paths : disk[c][p] = Missing}

(* The list: files that are missing are requested; if none is, that is all *)
(* that happens ("All are here!").  Until VersionController's handler is   *)
(* set, the message is dropped.  The check may end too early for the       *)
(* command line if more than one file is to come, or if files of an        *)
(* earlier one are.                                                        *)
ClientCompares(c) ==
  LET m == Head(toClient[c])
      lacking == NotFound(c, m.paths)
  IN
  /\ NextTo(c, "List")
  /\ IF handler[c] /\ lacking # {}
     THEN toServer' = [toServer EXCEPT ![c] =
                      Append(@, [type |-> "RequestFiles", paths |-> lacking])]
     ELSE UNCHANGED toServer
  /\ promised' = IF handler[c] /\ c = Replied
                 THEN [promised EXCEPT ![c] = @ \cup m.paths] ELSE promised
  /\ early' = IF \/ Cardinality(lacking) > 1
                 \/ ~blocked[c] \/ ComingFrom(c, {c}) # {}
              THEN early \cup {c} ELSE early
  /\ UNCHANGED <<conns, disk, open, serving, blocked, handler, saves, checks,
                 saved, spoilt, served>>

AnyFile(files) == TRUE                       \* a slip: files not looked at
NoFile(files) == FALSE                       \* a slip: _blocked never reset

(* "Check if checking integrity process is completed".                     *)
Completed(files) == files = {}

(* The default branch of the handler, after the other one is done.         *)
Unblock(c) ==
  blocked' = IF handler[c] /\ Completed(open'[c]["client"])
             THEN [blocked EXCEPT ![c] = FALSE] ELSE blocked

ClientReceives(c) ==
  LET m == Head(toClient[c]) IN
  /\ \/ NextTo(c, "FileHeader") /\ HeaderOpens(c, "client", c, m)
     \/ NextTo(c, "EndOfFile") /\ EndCloses(c, "client", c, m)
  /\ Unblock(c)
  /\ UNCHANGED <<conns, toServer, serving, handler, saves, checks, ghosts>>

(* A header that leads to no open file; the handlers end there and then.   *)
ClientRefuses(c) ==
  /\ NextTo(c, "FileHeader")
  /\ spoilt' = [spoilt EXCEPT ![c] = @ \cup {Head(toClient[c]).path}]
  /\ UNCHANGED <<conns, toServer, state, saves, checks, saved, promised,
                 served, early>>

------------------------------------------------------------------------------
CommandLine(c) == Save(c) \/ Restore(c) \/ Check(c)
ServerThread(c) ==
  \/ ServerReceives(c) \/ ServerRestores(c) \/ ServerLists(c)
  \/ ServerStartsServing(c) \/ ServeFile(c)
ClientThread(c) == ClientCompares(c) \/ ClientReceives(c) \/ ClientRefuses(c)

Next == \E c \in Clients :
  Connect(c) \/ CommandLine(c) \/ ServerThread(c) \/ ClientThread(c)

Spec == Init /\ [][Next]_vars

------------------------------------------------------------------------------
(* Properties *)

TypeOK ==
  /\ disk \in [Node -> [Files -> Content \cup {Missing, Partial}]]
  /\ conns \in Seq(Clients)
  /\ toServer \in [Clients -> Seq(Msg)] /\ toClient \in [Clients -> Seq(Msg)]
  /\ open \in [Clients -> [Side -> SUBSET Files]]
  /\ serving \in [Clients -> SUBSET Files]
  /\ blocked \in [Clients -> BOOLEAN] /\ handler \in [Clients -> BOOLEAN]
  /\ saves \in 0..MaxSaves /\ checks \in 0..MaxChecks
  /\ saved \in [Clients -> [Files -> Content \cup {Missing}]]
  /\ promised \in [Clients -> SUBSET Files]
  /\ spoilt \in [Clients -> SUBSET Files]
  /\ served \in [Clients -> SUBSET Files]
  /\ early \subseteq Clients

(* All that was posted has been handled. *)
Quiescent == \A c \in Clients :
  toServer[c] = <<>> /\ toClient[c] = <<>> /\ serving[c] = {}

(* An integrity check only adds what is missing: what the user has saved   *)
(* stays as it is, unless it was saved while an older one was on its way.  *)
(* (That the command line is blocked until then is what _blocked is for.)  *)
SavedIsKept ==
  \A c \in Clients : \A p \in Files :
    saved[c][p] # Missing => disk[c][p] = saved[c][p]

IntegrityInv == TypeOK /\ SavedIsKept

(* A check brings what it is for: once all is handled, a client that the   *)
(* server replied to has every listed file, and has it whole, unless it    *)
(* was refused, or was not whole on the server when it was sent.           *)
ListedIsThere ==
  Quiescent => \A c \in Clients : \A p \in promised[c] \ spoilt[c] :
                  disk[c][p] \in Content

(* A client stays blocked for good only if it was sent no file since its   *)
(* last check: when it had them all, or when another client got the reply. *)
BlockedWasServedNothing ==
  Quiescent => \A c \in Clients : blocked[c] => served[c] = {}

(* _blocked is false with files still to come only if the list named more  *)
(* than one of them, came on top of another one, or was not asked for.     *)
UnblockedAtTheEnd ==
  \A c \in Clients \ early :
    handler[c] /\ ~blocked[c] => ComingFrom(c, {c}) = {}
==============================================================================
