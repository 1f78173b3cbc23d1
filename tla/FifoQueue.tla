------------------------------ MODULE FifoQueue ------------------------------
(***************************************************************************)
(* What a queue between threads promises: every item put in comes out      *)
(* once, and in the order in which it was put in.  TsDeque implements it.  *)
(***************************************************************************)
EXTENDS Sequences

CONSTANT Item

VARIABLES queue,   \* the items waiting
          taken    \* the items handed to the consumer, oldest first

vars == <<queue, taken>>

Init == queue = <<>> /\ taken = <<>>

Put(x) == /\ queue' = Append(queue, x)
          /\ UNCHANGED taken

Take == /\ queue # <<>>
        /\ taken' = Append(taken, Head(queue))
        /\ queue' = Tail(queue)

Next == Take \/ \E x \in Item : Put(x)

Spec == Init /\ [][Next]_vars
==============================================================================
