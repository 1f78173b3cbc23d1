------------------------------ MODULE Transport ------------------------------
(***************************************************************************)
(* net::Connection as a message transport (net/Connection.hpp), with the   *)
(* connect of net::Client and the accept of net::Server: how a message     *)
(* goes from sendMsg through the io_context, _msg_queue_out, the two       *)
(* async_writes, the stream, and the two async_reads into _msg_queue_in.   *)
(*                                                                         *)
(* Each client owns one io_context and one thread that runs it; all the    *)
(* server's ends share one.  Every completion handler is one step of the   *)
(* thread that runs it.  What the operating system does to a socket in     *)
(* between (it takes or loses bytes, fails an operation) is a step of its  *)
(* own.  What becomes of _msg_queue_in is in TsDeque and FileTransfer.     *)
(***************************************************************************)
EXTENDS Naturals, Sequences, FiniteSets

CONSTANTS Clients,     \* the client processes that ever connect
          Server,      \* the server process
          ClientMsgs,  \* bound: how many messages a client sends
          ServerMsgs   \* bound: how many messages the server sends to each

ASSUME TransportAssumption ==
  /\ Server \notin Clients
  /\ ClientMsgs \in Nat /\ ServerMsgs \in Nat

(* The two Connection objects of each TCP connection, and the process (and *)
(* so the io_context and its thread) that each of them lives in.           *)
End == Clients \X {"client", "server"}
Client(c) == <<c, "client">>
Remote(c) == <<c, "server">>
Peer(e) == <<e[1], IF e[2] = "client" THEN "server" ELSE "client">>
Process(e) == IF e[2] = "client" THEN e[1] ELSE Server
MaxMsgs(e) == IF e[2] = "client" THEN ClientMsgs ELSE ServerMsgs

(* A message is its number and whether its header announces a body; on the *)
(* stream it is a header frame and, if announced, a body frame.            *)
MsgId == 0..(ClientMsgs + ServerMsgs)
Msg == [id : MsgId, body : BOOLEAN]
Frame == [part : {"header", "body"}, msg : Msg]
NoMsg == [id |-> 0, body |-> FALSE]
Part == {"header", "body"}

VARIABLES
  sock,     \* the state of _socket
  posted,   \* the lambdas of sendMsg in the io_context, as their messages
  outq,     \* _msg_queue_out
  writes,   \* the async_writes the system has not yet carried out
  acks,     \* the async_writes carried out whose handler has not run
  wire,     \* the frames under way from this end to its peer
  reading,  \* the outstanding async_read: a part, or "off"
  tmpHead,  \* the header in _tempMsgIn
  tmpBody,  \* the id of the message whose body is in _tempMsgIn
  inq,      \* what was pushed to _msg_queue_in, as <<header, body>>
  stuck,    \* the ends whose read handler waits in _thr.join()
  halted,   \* the processes that have ended
  sent      \* every message given to sendMsg, in order

vars == <<sock, posted, outq, writes, acks, wire, reading, tmpHead, tmpBody,
          inq, stuck, halted, sent>>

outgoing == <<posted, outq, writes, acks, sent>>
incoming == <<reading, tmpHead, tmpBody, inq>>

TypeOK ==
  /\ sock \in [End -> {"none", "connecting", "open", "refused", "closed"}]
  /\ posted \in [End -> Seq(Msg)]
  /\ outq \in [End -> Seq(Msg)]
  /\ writes \in [End -> Seq(Part)]
  /\ acks \in [End -> Seq(Part)]
  /\ wire \in [End -> Seq(Frame)]
  /\ reading \in [End -> Part \cup {"off"}]
  /\ tmpHead \in [End -> Msg]
  /\ tmpBody \in [End -> MsgId]
  /\ inq \in [End -> Seq(Msg \X MsgId)]
  /\ stuck \subseteq End
  /\ halted \subseteq Clients \cup {Server}
  /\ sent \in [End -> Seq(Msg)]

(* connectToServer has been called: async_connect is under way.            *)
Init ==
  /\ sock = [e \in End |-> IF e[2] = "client" THEN "connecting" ELSE "none"]
  /\ posted = [e \in End |-> <<>>]
  /\ outq = [e \in End |-> <<>>]
  /\ writes = [e \in End |-> <<>>]
  /\ acks = [e \in End |-> <<>>]
  /\ wire = [e \in End |-> <<>>]
  /\ reading = [e \in End |-> "off"]
  /\ tmpHead = [e \in End |-> NoMsg]
  /\ tmpBody = [e \in End |-> 0]
  /\ inq = [e \in End |-> <<>>]
  /\ stuck = {}
  /\ halted = {}
  /\ sent = [e \in End |-> <<>>]

(* The state of a socket after _socket.close(): one whose connect failed   *)
(* has no peer to see it close.                                            *)
AfterClose(s) == IF s = "refused" THEN "refused" ELSE "closed"

(* The io_context thread of e's process can run a handler: the process is  *)
(* there, and the thread is not inside a join that does not return.        *)
IoFree(e) ==
  /\ Process(e) \notin halted
  /\ \A d \in stuck : Process(d) # Process(e)

------------------------------------------------------------------------------
(* Connecting *)

(* Client::connectToServer's handler without an error, where the           *)
(* processing thread starts too.                                           *)
ConnectOk(c) ==
  LET e == Client(c) IN
  /\ IoFree(e) /\ sock[e] = "connecting"
  /\ Server \notin halted
  /\ sock' = [sock EXCEPT ![e] = "open"]
  /\ reading' = [reading EXCEPT ![e] = "header"]
  /\ UNCHANGED <<outgoing, wire, tmpHead, tmpBody, inq, stuck, halted>>

(* Its handler with an error: nothing but a line in the log.               *)
ConnectFail(c) ==
  LET e == Client(c) IN
  /\ IoFree(e) /\ sock[e] = "connecting"
  /\ sock[Remote(c)] \in {"none", "closed"}
  /\ sock' = [sock EXCEPT ![e] = "refused"]
  /\ UNCHANGED <<outgoing, wire, incoming, stuck, halted>>

(* Server::_waitForClients's handler: the Connection is made, reads its    *)
(* first header, and its processing thread starts.  The handler waits for  *)
(* the next client in the end, so it can run for every client.             *)
Accept(c) ==
  LET e == Remote(c) IN
  /\ IoFree(e) /\ sock[e] = "none"
  /\ sock[Client(c)] # "refused"
  /\ sock' = [sock EXCEPT ![e] = "open"]
  /\ reading' = [reading EXCEPT ![e] = "header"]
  /\ UNCHANGED <<outgoing, wire, tmpHead, tmpBody, inq, stuck, halted>>

------------------------------------------------------------------------------
(* Sending *)

(* sendMsg posts its lambda, whether or not the socket is connected (after *)
(* three seconds at most, Client::sendMsg goes on all the same).  A server *)
(* end can be asked to send once it is among the server's connections.     *)
SendMsg(e) ==
  /\ Process(e) \notin halted
  /\ sock[e] # "none"
  /\ Len(sent[e]) < MaxMsgs(e)
  /\ \E b \in BOOLEAN :
       LET m == [id |-> Len(sent[e]) + 1, body |-> b] IN
       /\ posted' = [posted EXCEPT ![e] = Append(@, m)]
       /\ sent' = [sent EXCEPT ![e] = Append(@, m)]
  /\ UNCHANGED <<sock, outq, writes, acks, wire, incoming, stuck, halted>>

AlwaysStartsWriting(q) == TRUE               \* a slip: no writeInProcess

(* Whether the lambda of sendMsg starts a write, from _msg_queue_out as it *)
(* was before the push: not while a write is in process.                   *)
StartsWriting(q) == q = <<>>

(* The lambda of sendMsg. *)
RunPosted(e) ==
  /\ IoFree(e) /\ posted[e] # <<>>
  /\ posted' = [posted EXCEPT ![e] = Tail(@)]
  /\ outq' = [outq EXCEPT ![e] = Append(@, Head(posted[e]))]
  /\ writes' = IF StartsWriting(outq[e])
               THEN [writes EXCEPT ![e] = Append(@, "header")] ELSE writes
  /\ UNCHANGED <<sock, acks, wire, incoming, stuck, halted, sent>>

(* The system carries out an async_write.  Its buffer is in the front of   *)
(* _msg_queue_out.                                                         *)
Transmit(e) ==
  /\ writes[e] # <<>> /\ outq[e] # <<>> /\ sock[e] = "open"
  /\ writes' = [writes EXCEPT ![e] = Tail(@)]
  /\ acks' = [acks EXCEPT ![e] = Append(@, Head(writes[e]))]
  /\ wire' = [wire EXCEPT
       ![e] = Append(@, [part |-> Head(writes[e]), msg |-> Head(outq[e])])]
  /\ UNCHANGED <<sock, posted, outq, incoming, stuck, halted, sent>>

StopsAfterPop(q) == <<>>                     \* a slip: the rest is forgotten

(* The write that is started when the front of q has been popped.          *)
WriteAfterPop(q) == IF Tail(q) # <<>> THEN <<"header">> ELSE <<>>

(* The part that the message at the front is done with: pop_front, and the *)
(* next message's header.                                                  *)
PopAndGoOn(e) ==
  /\ outq' = [outq EXCEPT ![e] = Tail(@)]
  /\ writes' = [writes EXCEPT ![e] = @ \o WriteAfterPop(outq[e])]

(* writeHeader's handler. *)
WroteHeader(e) ==
  /\ IoFree(e) /\ outq[e] # <<>>
  /\ acks[e] # <<>> /\ Head(acks[e]) = "header"
  /\ acks' = [acks EXCEPT ![e] = Tail(@)]
  /\ \/ /\ Head(outq[e]).body
        /\ writes' = [writes EXCEPT ![e] = Append(@, "body")]
        /\ UNCHANGED outq
     \/ /\ ~Head(outq[e]).body
        /\ PopAndGoOn(e)
  /\ UNCHANGED <<sock, posted, wire, incoming, stuck, halted, sent>>

(* writeBody's handler. *)
WroteBody(e) ==
  /\ IoFree(e) /\ outq[e] # <<>>
  /\ acks[e] # <<>> /\ Head(acks[e]) = "body"
  /\ acks' = [acks EXCEPT ![e] = Tail(@)]
  /\ PopAndGoOn(e)
  /\ UNCHANGED <<sock, posted, wire, incoming, stuck, halted, sent>>

(* Either handler with an error: the socket is not (or not yet) connected, *)
(* or the peer is gone.  It closes the socket and leaves the queue alone.  *)
WriteFailed(e) ==
  /\ IoFree(e) /\ writes[e] # <<>>
  /\ sock[e] # "open" \/ sock[Peer(e)] = "closed"
  /\ sock' = [sock EXCEPT ![e] = AfterClose(@)]
  /\ writes' = [writes EXCEPT ![e] = Tail(@)]
  /\ UNCHANGED <<posted, outq, acks, wire, incoming, stuck, halted, sent>>

------------------------------------------------------------------------------
(* Receiving *)

(* The stream into e holds another frame, and e's socket can read it.      *)
Readable(e) == sock[e] = "open" /\ wire[Peer(e)] # <<>>
Incoming(e) == Head(wire[Peer(e)])

PartAfterHeaderOnly(m) == "header"           \* a slip: bodies are not read

(* What is read after a header: the body it announces, if any.             *)
PartAfter(m) == IF m.body THEN "body" ELSE "header"

(* readHeader's handler.  A message without a body is pushed as it stands  *)
(* in _tempMsgIn, where the body is the one of an earlier message.         *)
ReadHeader(e) ==
  /\ IoFree(e) /\ reading[e] = "header" /\ Readable(e)
  /\ wire' = [wire EXCEPT ![Peer(e)] = Tail(@)]
  /\ tmpHead' = [tmpHead EXCEPT ![e] = Incoming(e).msg]
  /\ reading' = [reading EXCEPT ![e] = PartAfter(Incoming(e).msg)]
  /\ inq' = IF PartAfter(Incoming(e).msg) = "body" THEN inq
            ELSE [inq EXCEPT ![e] = Append(@, <<Incoming(e).msg, tmpBody[e]>>)]
  /\ UNCHANGED <<sock, outgoing, tmpBody, stuck, halted>>

(* readBody's handler. *)
ReadBody(e) ==
  /\ IoFree(e) /\ reading[e] = "body" /\ Readable(e)
  /\ wire' = [wire EXCEPT ![Peer(e)] = Tail(@)]
  /\ tmpBody' = [tmpBody EXCEPT ![e] = Incoming(e).msg.id]
  /\ inq' = [inq EXCEPT ![e] = Append(@, <<tmpHead[e], Incoming(e).msg.id>>)]
  /\ reading' = [reading EXCEPT ![e] = "header"]
  /\ UNCHANGED <<sock, outgoing, tmpHead, stuck, halted>>

(* An async_read ends with an error: this end has closed its socket, or    *)
(* the stream of a closed peer has run dry.                                *)
ReadFails(e) ==
  \/ sock[e] = "closed"
  \/ sock[Peer(e)] = "closed" /\ wire[Peer(e)] = <<>>

(* readHeader's handler with an error: it joins the processing thread,     *)
(* whose function is [[noreturn]], and so is never done.                   *)
ReadHeaderFailed(e) ==
  /\ IoFree(e) /\ reading[e] = "header" /\ ReadFails(e)
  /\ sock' = [sock EXCEPT ![e] = AfterClose(@)]
  /\ reading' = [reading EXCEPT ![e] = "off"]
  /\ stuck' = stuck \cup {e}
  /\ UNCHANGED <<outgoing, wire, tmpHead, tmpBody, inq, halted>>

(* readBody's handler with an error. *)
ReadBodyFailed(e) ==
  /\ IoFree(e) /\ reading[e] = "body" /\ ReadFails(e)
  /\ sock' = [sock EXCEPT ![e] = AfterClose(@)]
  /\ reading' = [reading EXCEPT ![e] = "off"]
  /\ UNCHANGED <<outgoing, wire, tmpHead, tmpBody, inq, stuck, halted>>

------------------------------------------------------------------------------
(* What the outside does *)

(* A process ends: the exit command, a crash, or an exception that nobody  *)
(* catches, such as remote_endpoint's in the accept handler for a client   *)
(* that is already gone.  Its sockets are closed.                          *)
Halt(p) ==
  /\ p \notin halted
  /\ halted' = halted \cup {p}
  /\ sock' = [e \in End |->
                IF Process(e) = p THEN AfterClose(sock[e]) ELSE sock[e]]
  /\ UNCHANGED <<outgoing, wire, incoming, stuck>>

(* What a closed socket had not yet got across can be lost from its end.   *)
LoseTail(e) ==
  /\ sock[e] = "closed" /\ wire[e] # <<>>
  /\ wire' = [wire EXCEPT ![e] = SubSeq(@, 1, Len(@) - 1)]
  /\ UNCHANGED <<sock, outgoing, incoming, stuck, halted>>

------------------------------------------------------------------------------
Connecting == \E c \in Clients : ConnectOk(c) \/ ConnectFail(c) \/ Accept(c)

Handler(e) ==
  \/ RunPosted(e) \/ WroteHeader(e) \/ WroteBody(e) \/ WriteFailed(e)
  \/ ReadHeader(e) \/ ReadBody(e) \/ ReadHeaderFailed(e) \/ ReadBodyFailed(e)

Next ==
  \/ Connecting
  \/ \E e \in End : SendMsg(e) \/ Handler(e) \/ Transmit(e) \/ LoseTail(e)
  \/ \E p \in Clients \cup {Server} : Halt(p)

Spec == Init /\ [][Next]_vars

(* The thread in io_context::run executes the handlers that are ready, the *)
(* kernel sends what was written on a connected socket, and a connection   *)
(* attempt is answered one way or the other.                               *)
FairSpec ==
  /\ Spec
  /\ \A e \in End : WF_vars(Handler(e)) /\ WF_vars(Transmit(e))
  /\ \A c \in Clients : /\ WF_vars(ConnectOk(c) \/ ConnectFail(c))
                        /\ WF_vars(Accept(c))

------------------------------------------------------------------------------
(* Properties *)

(* Two async_writes on one socket at a time would mix their bytes, and a   *)
(* queue without a write would never move again.  So of a queue that holds *)
(* messages exactly one write is under way, and of an empty one none,      *)
(* until a write has failed: from then on the queue is never written.      *)
OneWrite ==
  \A e \in End :
    IF outq[e] = <<>>
    THEN writes[e] = <<>> /\ acks[e] = <<>>
    ELSE \/ Len(writes[e]) + Len(acks[e]) = 1
         \/ /\ writes[e] = <<>> /\ acks[e] = <<>>
            /\ sock[e] \in {"closed", "refused"}

(* Whatever threads post messages and whenever sockets fail, no Connection *)
(* ever has two writes under way or forgets to start one; with the types.  *)
SendInv == TypeOK /\ OneWrite

(* Nothing on the stream says where a frame begins: the reader's position  *)
(* must agree with what the writer put there, through lost tails and       *)
(* closed sockets, or lengths would be read out of bodies.                 *)
FramesAligned ==
  \A e \in End : Readable(e) /\ reading[e] # "off" =>
    /\ Incoming(e).part = reading[e]
    /\ reading[e] = "body" => Incoming(e).msg = tmpHead[e]

(* What a Connection promises its user: the messages pushed to the peer's  *)
(* _msg_queue_in are a growing prefix of those given to sendMsg, each with *)
(* its own body.  (One that has no body comes with a stale one, which no   *)
(* handler reads.)                                                         *)
Arrived(x) == IF x[1].body /\ x[2] # x[1].id THEN NoMsg ELSE x[1]
Channel == INSTANCE MessageChannel WITH
  delivered <- [e \in End |-> [i \in 1..Len(inq[e]) |-> Arrived(inq[e][i])]]
ImplementsChannel == Channel!Spec

(* The connection of e and its peer is of no more use: it was refused or   *)
(* closed, or the thread that would serve it is gone or in a join.         *)
Down(e) == \/ sock[e] \in {"refused", "closed"}
           \/ sock[Peer(e)] \in {"refused", "closed"}
           \/ ~IoFree(e) \/ ~IoFree(Peer(e))

(* As long as the connection is up, every message gets to the peer's       *)
(* _msg_queue_in: no hand-over between sendMsg, the queue, the two writes  *)
(* and the two reads forgets to start the next one.                        *)
EveryMessageArrives ==
  \A e \in End : \A n \in 1..MaxMsgs(e) :
    (Len(sent[e]) >= n) ~> (Len(inq[Peer(e)]) >= n \/ Down(e))

(* "Asynchronous function", readHeader's comment says: it and its handler  *)
(* leave the io_context to the other connections.  So a running server     *)
(* accepts every client that has connected.                                *)
EveryClientIsAccepted ==
  \A c \in Clients :
    (sock[Client(c)] = "open") ~>
      (sock[Remote(c)] # "none" \/ {c, Server} \cap halted # {})
==============================================================================
