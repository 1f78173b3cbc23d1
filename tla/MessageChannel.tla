--------------------------- MODULE MessageChannel ----------------------------
(***************************************************************************)
(* What a pair of net::Connection objects promises the code above it: each *)
(* direction delivers the messages in the order in which they were sent,   *)
(* none twice and none changed.  It may stop at any point, for good.       *)
(***************************************************************************)
EXTENDS Naturals, Sequences

CONSTANTS End, Msg, Peer(_)

VARIABLES sent, delivered

vars == <<sent, delivered>>

Init == /\ sent = [e \in End |-> <<>>]
        /\ delivered = [e \in End |-> <<>>]

Send(e, m) == /\ sent' = [sent EXCEPT ![e] = Append(@, m)]
              /\ UNCHANGED delivered

(* The next message of e's peer reaches e.                                 *)
Deliver(e) ==
  LET next == Len(delivered[e]) + 1 IN
  /\ next <= Len(sent[Peer(e)])
  /\ delivered' = [delivered EXCEPT ![e] = Append(@, sent[Peer(e)][next])]
  /\ UNCHANGED sent

Next == \E e \in End : Deliver(e) \/ \E m \in Msg : Send(e, m)

Spec == Init /\ [][Next]_vars
==============================================================================
