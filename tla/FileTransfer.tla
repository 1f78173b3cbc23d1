----------------------------- MODULE FileTransfer ----------------------------
(***************************************************************************)
(* How a file gets across a connection: Connection::sendFile cuts it into  *)
(* a FileHeader, FileTransfer chunks and an EndOfFile, and _msgHandler of  *)
(* the peer puts it together in _files_in_process (net/Connection.hpp).    *)
(*                                                                         *)
(* In between, messages keep their order (Transport, TsDeque); what two    *)
(* threads send on one connection mixes at any message: the server's       *)
(* processing threads all send to the client that has connected last.      *)
(***************************************************************************)
EXTENDS Naturals, Sequences

CONSTANTS Paths,      \* the files
          Senders,    \* the threads that call sendFile on the connection
          Idle,       \* no file is being sent
          Chunks,     \* how many chunks a file has
          MaxSends,   \* bound: how many files are sent
          MaxNet,     \* bound: how many messages are on their way
          MaxRev,     \* bound: how often a file is written anew
          Unreadable, \* the files whose opening may fail: removed since, or
                      \* kept by a writer that does not share them
          NotUtf8,    \* the files with bytes that are no UTF-8 once cut into
                      \* chunks: a product, or a character across a border
          Cut         \* those with a byte 0x1A, which ends a text-mode read

ASSUME TransferAssumption ==
  /\ Chunks \in Nat \ {0} /\ MaxSends \in Nat /\ MaxNet \in Nat
  /\ MaxRev \in Nat
  /\ Unreadable \subseteq Paths /\ NotUtf8 \subseteq Paths /\ Cut \subseteq Paths
  /\ Idle \notin [path : Paths, next : 0..(Chunks + 1), torn : BOOLEAN]

(* A file's mtime is its revision; a chunk is known by path, revision and  *)
(* number.  Ghost, torn: the file has been written since its mtime was     *)
(* read for the header, or was being written then.                         *)
Rev == 0..MaxRev
Chunk == Paths \X Rev \X (1..Chunks)
Msg == [type : {"FileHeader"}, path : Paths, torn : BOOLEAN, mtime : Rev]
         \cup [type : {"FileTransfer"}, path : Paths, torn : BOOLEAN,
               data : Chunk, parses : BOOLEAN]
         \cup [type : {"EndOfFile"}, path : Paths, torn : BOOLEAN]

VARIABLES
  rev,         \* the revision of each file on the sender's disk
  writing,     \* the files of which a revision is being written
  sending,     \* for each sender the file it sends and the next chunk: 0
               \* before the file is open
  sends,       \* how many sendFile calls there were
  net,         \* the messages on their way, in order
  entries,     \* _files_in_process: path, mtime, what its _ofs was given
  transferred, \* what was logged as "Whole file transferred"
  mixed        \* ghost: the files that two threads have sent at one time

vars == <<rev, writing, sending, sends, net, entries, transferred, mixed>>

Entry == [path : Paths, mtime : Rev, data : Seq(Chunk)]
LoggedEntry ==
  [path : Paths, mtime : Rev, data : Seq(Chunk), torn : BOOLEAN]
File == [path : Paths, next : 0..(Chunks + 1), torn : BOOLEAN]

TypeOK ==
  /\ rev \in [Paths -> Rev] /\ writing \subseteq Paths
  /\ sending \in [Senders -> File \cup {Idle}]
  /\ sends \in 0..MaxSends
  /\ net \in Seq(Msg)
  /\ entries \in Seq(Entry)
  /\ transferred \subseteq LoggedEntry
  /\ mixed \subseteq Paths

Init ==
  /\ rev = [p \in Paths |-> 0] /\ writing = {}
  /\ sending = [s \in Senders |-> Idle]
  /\ sends = 0
  /\ net = <<>> /\ entries = <<>> /\ transferred = {} /\ mixed = {}

Sends(s, p) == sending[s] # Idle /\ sending[s].path = p

(* A file is written anew: received over another connection, where the     *)
(* FileHeader truncates it and the EndOfFile closes it, or by a command on *)
(* this machine (_copy, multiplyFiles_8).  Nothing keeps the writers off a *)
(* file that is being sent.                                                *)
BeginRewrite(p) ==
  /\ p \notin writing /\ rev[p] < MaxRev
  /\ rev' = [rev EXCEPT ![p] = @ + 1]
  /\ writing' = writing \cup {p}
  /\ sending' = [s \in Senders |->
                   IF Sends(s, p) THEN [sending[s] EXCEPT !.torn = TRUE]
                   ELSE sending[s]]
  /\ UNCHANGED <<sends, net, entries, transferred, mixed>>

EndRewrite(p) ==
  /\ p \in writing /\ writing' = writing \ {p}
  /\ UNCHANGED <<rev, sending, sends, net, entries, transferred, mixed>>

(* The revisions that a look at file p may find.  One that is written      *)
(* meanwhile may show any it has had: what is read at once is of one.      *)
Seen(p, torn) == IF torn THEN 0..rev[p] ELSE {rev[p]}

------------------------------------------------------------------------------
(* sendFile *)

(* writeFileHeader, up to the call of writeFileBody. *)
SendHeader(s) ==
  /\ sending[s] = Idle /\ sends < MaxSends /\ Len(net) < MaxNet
  /\ sends' = sends + 1
  /\ \E p \in Paths :
       /\ \E r \in Seen(p, p \in writing) :
            net' = Append(net, [type |-> "FileHeader", path |-> p,
                                torn |-> p \in writing, mtime |-> r])
       /\ sending' = [sending EXCEPT ![s] = [path |-> p, next |-> 0,
                                             torn |-> p \in writing]]
       /\ mixed' = IF \E t \in Senders : Sends(t, p)
                   THEN mixed \cup {p} ELSE mixed
  /\ UNCHANGED <<rev, writing, entries, transferred>>

(* In writeFileBody, when the header has gone. *)
OpenFile(s) ==
  /\ sending[s] # Idle /\ sending[s].next = 0
  /\ \/ sending' = [sending EXCEPT ![s].next = 1]
     \/ /\ sending[s].path \in Unreadable
        /\ sending' = [sending EXCEPT ![s] = Idle]
  /\ UNCHANGED <<rev, writing, sends, net, entries, transferred, mixed>>

SkipsOne(k) == k + 2                         \* a slip: a chunk is left out

ChunkAfter(k) == k + 1

(* One round of the loop.  A chunk that is no UTF-8 is text that the       *)
(* peer's bj::parse refuses.  The file may end here in the midst: at a     *)
(* byte 0x1A, or as a writer has it so far.                                *)
SendChunk(s) ==
  LET p == sending[s].path
      k == sending[s].next
      torn == sending[s].torn
  IN
  /\ sending[s] # Idle /\ k \in 1..Chunks /\ Len(net) < MaxNet
  /\ \E r \in Seen(p, torn), parses \in BOOLEAN :
       /\ parses \/ p \in NotUtf8
       /\ net' = Append(net, [type |-> "FileTransfer", path |-> p,
                              torn |-> torn, data |-> <<p, r, k>>,
                              parses |-> parses])
  /\ \/ sending' = [sending EXCEPT ![s].next = ChunkAfter(k)]
     \/ /\ p \in Cut \/ torn
        /\ sending' = [sending EXCEPT ![s].next = Chunks + 1]
  /\ UNCHANGED <<rev, writing, sends, entries, transferred, mixed>>

SendEndOfFile(s) ==
  /\ sending[s] # Idle /\ sending[s].next > Chunks /\ Len(net) < MaxNet
  /\ net' = Append(net, [type |-> "EndOfFile", path |-> sending[s].path,
                         torn |-> sending[s].torn])
  /\ sending' = [sending EXCEPT ![s] = Idle]
  /\ UNCHANGED <<rev, writing, sends, entries, transferred, mixed>>

------------------------------------------------------------------------------
(* _msgHandler *)

AnyEntry(path) == 1..Len(entries)            \* a slip: paths not compared

(* The indices of the entries for a path; the search stops at the first.   *)
EntriesFor(path) == {i \in 1..Len(entries) : entries[i].path = path}
First(S) == CHOOSE i \in S : \A j \in S : i <= j

NotErased(q, i) == q                         \* a slip: the entry stays

Erased(q, i) == SubSeq(q, 1, i - 1) \o SubSeq(q, i + 1, Len(q))

Receive(type) == net # <<>> /\ Head(net).type = type /\ net' = Tail(net)

(* A new entry with its _ofs opened, or nothing: when the header does not  *)
(* parse (its path is no UTF-8), when the folder cannot be made, or when   *)
(* the file cannot be opened.                                              *)
ReceiveHeader ==
  /\ Receive("FileHeader")
  /\ \/ entries' = Append(entries, [path |-> Head(net).path,
                                    mtime |-> Head(net).mtime,
                                    data |-> <<>>])
     \/ UNCHANGED entries
  /\ UNCHANGED <<rev, writing, sending, sends, transferred, mixed>>

(* A chunk that does not parse has no path, and so no entry. *)
ReceiveChunk ==
  LET m == Head(net)
      found == EntriesFor(m.path)
  IN
  /\ Receive("FileTransfer")
  /\ entries' = IF m.parses /\ found # {}
                THEN [entries EXCEPT ![First(found)].data = Append(@, m.data)]
                ELSE entries
  /\ UNCHANGED <<rev, writing, sending, sends, transferred, mixed>>

(* What is logged as transferred: the entry, and of the send whether the   *)
(* file was written meanwhile.                                             *)
Logged(e, torn) ==
  [path |-> e.path, mtime |-> e.mtime, data |-> e.data, torn |-> torn]

(* "Whole file transferred": the mtime is set, the entry is erased.        *)
ReceiveEndOfFile ==
  LET found == EntriesFor(Head(net).path) IN
  /\ Receive("EndOfFile")
  /\ IF found # {}
     THEN /\ transferred' =
               transferred \cup {Logged(entries[First(found)], Head(net).torn)}
          /\ entries' = Erased(entries, First(found))
     ELSE UNCHANGED <<entries, transferred>>
  /\ UNCHANGED <<rev, writing, sending, sends, mixed>>

------------------------------------------------------------------------------
Send(s) ==
  SendHeader(s) \/ OpenFile(s) \/ SendChunk(s) \/ SendEndOfFile(s)
ReceiveNext == ReceiveHeader \/ ReceiveChunk \/ ReceiveEndOfFile

Next ==
  \/ \E p \in Paths : BeginRewrite(p) \/ EndRewrite(p)
  \/ \E s \in Senders : Send(s)
  \/ ReceiveNext

Spec == Init /\ [][Next]_vars

------------------------------------------------------------------------------
(* Properties *)

Whole(p, r) == [k \in 1..Chunks |-> <<p, r, k>>]

(* "Whole file transferred", whatever its text: what is logged so has all  *)
(* the chunks of one revision, in order, and that revision's mtime, if the *)
(* file opens whenever it is sent, one thread at a time sends it, nothing  *)
(* writes it meanwhile and it has no byte 0x1A.                            *)
LoggedIsWhole ==
  \A t \in transferred :
    t.path \notin Unreadable \cup mixed \cup Cut /\ ~ t.torn =>
      t.data = Whole(t.path, t.mtime)

(* The same for the files whose every chunk is UTF-8. *)
FilesAreWhole ==
  \A t \in transferred :
    t.path \notin Unreadable \cup mixed \cup NotUtf8 \cup Cut /\ ~ t.torn =>
      t.data = Whole(t.path, t.mtime)

(* No transfer of a readable file ends with chunks missing, doubled or of  *)
(* another file or revision, whatever headers the receiver refuses, what   *)
(* two threads mix and when other files are written; with the types.       *)
TransferInv == TypeOK /\ FilesAreWhole

(* What holds of every file that one thread at a time sends.  It gets its  *)
(* own chunks only, each once and in order; a file of UTF-8 gets the first *)
(* ones without a gap, however the send is cut off.  If nothing has        *)
(* written the file while it was sent, all are of one revision, not older  *)
(* than the mtime they come with: after a file that could not be opened an *)
(* entry stays for good, and the next transfer of that path goes to it.    *)
DataIsWhole ==
  \A t \in transferred : t.path \notin mixed =>
    /\ \A i \in 1..Len(t.data) :
         /\ t.data[i][1] = t.path
         /\ \A j \in 1..(i - 1) : t.data[j][3] < t.data[i][3]
         /\ t.path \notin NotUtf8 => t.data[i][3] = i
    /\ ~ t.torn =>
         \E r \in t.mtime..MaxRev :
           /\ \A i \in 1..Len(t.data) : t.data[i][2] = r
           /\ t.path \notin NotUtf8 \cup Cut => t.data = Whole(t.path, r)

(* When all that was sent has been handled, no entry of a file that can be *)
(* read is left in _files_in_process, not even of one that two threads     *)
(* have sent: the client takes an empty _files_in_process for the end of   *)
(* an integrity check.                                                     *)
NothingLeftOpen ==
  net = <<>> /\ (\A s \in Senders : sending[s] = Idle) =>
    \A i \in 1..Len(entries) : entries[i].path \in Unreadable
==============================================================================
