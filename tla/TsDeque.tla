------------------------------- MODULE TsDeque -------------------------------
(***************************************************************************)
(* net::ts_deque (net/ts_deque.hpp) as the threads of a Connection use it: *)
(* the threads in Producers call push_back, one consumer thread runs       *)
(* _processIncoming, which loops over wait() and pop_front().              *)
(*                                                                         *)
(* Every acquisition of one of the two mutexes, the condition variable and *)
(* the check of empty() are steps of their own; what a thread does while   *)
(* it holds a mutex and before it asks for the next one is one step.  The  *)
(* condition variable may wake its waiter without a notification.          *)
(***************************************************************************)
EXTENDS Naturals, Sequences

CONSTANTS Producers,  \* the threads that call push_back
          MaxPushes,  \* bound: how many items each of them pushes
          Consumer,   \* the thread that runs _processIncoming
          NoThread    \* the owner of a free mutex

ASSUME ConstantsAssumption ==
  /\ MaxPushes \in Nat
  /\ Consumer \notin Producers
  /\ NoThread \notin Producers \cup {Consumer}

Thread == Producers \cup {Consumer}
Item == Producers \X (1..MaxPushes)

VARIABLES deque,          \* _deque
          dequeMutex,     \* the owner of _deque_mutex
          blockingMutex,  \* the owner of _blocking_mutex
          push,           \* where each producer is in push_back
          loop,           \* where the consumer is in _processIncoming
          pushed,         \* how many items each producer has pushed
          received        \* the items given to _msgHandler, oldest first

vars == <<deque, dequeMutex, blockingMutex, push, loop, pushed, received>>

TypeOK ==
  /\ deque \in Seq(Item)
  /\ dequeMutex \in Producers \cup {NoThread}
  /\ blockingMutex \in Thread \cup {NoThread}
  /\ push \in [Producers -> {"out", "emplaced", "notifying"}]
  /\ loop \in {"check", "found empty", "blocking", "waiting", "woken", "pop"}
  /\ pushed \in [Producers -> 0..MaxPushes]
  /\ received \in Seq(Item)

Init ==
  /\ deque = <<>>
  /\ dequeMutex = NoThread
  /\ blockingMutex = NoThread
  /\ push = [p \in Producers |-> "out"]
  /\ loop = "check"
  /\ pushed = [p \in Producers |-> 0]
  /\ received = <<>>

------------------------------------------------------------------------------
(* push_back *)

EmplaceFront(d, x) == <<x>> \o d             \* a slip: the wrong end

EmplaceBack(d, x) == Append(d, x)

NotifyNone(l) == l                           \* a slip: no notification

(* What notify_one does to a consumer at l: nothing unless it sleeps.      *)
NotifyOne(l) == IF l = "waiting" THEN "woken" ELSE l

(* scoped_lock on _deque_mutex, then emplace_back. *)
Emplace(p) ==
  /\ push[p] = "out" /\ pushed[p] < MaxPushes
  /\ dequeMutex = NoThread
  /\ dequeMutex' = p
  /\ deque' = EmplaceBack(deque, <<p, pushed[p] + 1>>)
  /\ pushed' = [pushed EXCEPT ![p] = @ + 1]
  /\ push' = [push EXCEPT ![p] = "emplaced"]
  /\ UNCHANGED <<blockingMutex, loop, received>>

(* unique_lock on _blocking_mutex, with _deque_mutex still held. *)
LockToNotify(p) ==
  /\ push[p] = "emplaced"
  /\ blockingMutex = NoThread
  /\ blockingMutex' = p
  /\ push' = [push EXCEPT ![p] = "notifying"]
  /\ UNCHANGED <<deque, dequeMutex, loop, pushed, received>>

(* notify_one, then both locks go as push_back returns. *)
Notify(p) ==
  /\ push[p] = "notifying"
  /\ loop' = NotifyOne(loop)
  /\ blockingMutex' = NoThread
  /\ dequeMutex' = NoThread
  /\ push' = [push EXCEPT ![p] = "out"]
  /\ UNCHANGED <<deque, pushed, received>>

------------------------------------------------------------------------------
(* wait and pop_front, called in turn by _processIncoming *)

(* The loop condition of wait(): empty() takes and frees _deque_mutex. *)
CheckEmpty ==
  /\ loop = "check"
  /\ dequeMutex = NoThread
  /\ loop' = IF deque = <<>> THEN "found empty" ELSE "pop"
  /\ UNCHANGED <<deque, dequeMutex, blockingMutex, push, pushed, received>>

(* unique_lock on _blocking_mutex. *)
LockToWait ==
  /\ loop = "found empty"
  /\ blockingMutex = NoThread
  /\ blockingMutex' = Consumer
  /\ loop' = "blocking"
  /\ UNCHANGED <<deque, dequeMutex, push, pushed, received>>

SleeperKeepsMutex == Consumer                \* a slip: sleeps with the lock

(* Who owns _blocking_mutex while the consumer sleeps in _cv_blocking.wait. *)
MutexOfSleeper == NoThread

(* _cv_blocking.wait: frees the mutex and sleeps, in one step. *)
Wait ==
  /\ loop = "blocking"
  /\ blockingMutex' = MutexOfSleeper
  /\ loop' = "waiting"
  /\ UNCHANGED <<deque, dequeMutex, push, pushed, received>>

(* The condition variable is allowed to return without a notification. *)
WakeSpuriously ==
  /\ loop = "waiting"
  /\ loop' = "woken"
  /\ UNCHANGED <<deque, dequeMutex, blockingMutex, push, pushed, received>>

AwakeThenPop == "pop"                        \* a slip: if instead of while

(* Where an awake consumer goes on: at the condition of the while loop. *)
AwakeThen == "check"

(* The mutex is taken back, and freed again at the end of the loop body. *)
Reacquire ==
  /\ loop = "woken"
  /\ blockingMutex = NoThread
  /\ loop' = AwakeThen
  /\ UNCHANGED <<deque, dequeMutex, blockingMutex, push, pushed, received>>

(* pop_front under _deque_mutex; the item goes to _msgHandler.  On an      *)
(* empty deque the behaviour of pop_front is undefined: the model has no   *)
(* step there, and NoPopOnEmpty says that it is never reached.             *)
PopFront ==
  /\ loop = "pop"
  /\ dequeMutex = NoThread
  /\ deque # <<>>
  /\ received' = Append(received, Head(deque))
  /\ deque' = Tail(deque)
  /\ loop' = "check"
  /\ UNCHANGED <<dequeMutex, blockingMutex, push, pushed>>

------------------------------------------------------------------------------
PushBack(p) == Emplace(p) \/ LockToNotify(p) \/ Notify(p)

ProcessIncoming == CheckEmpty \/ LockToWait \/ Wait \/ Reacquire \/ PopFront

Next == \/ \E p \in Producers : PushBack(p)
        \/ ProcessIncoming
        \/ WakeSpuriously

Spec == Init /\ [][Next]_vars

(* A thread that can move does so: the scheduler runs every runnable       *)
(* thread, a producer that has entered push_back goes through it, and the  *)
(* consumer never leaves its loop.  Whether another push is called, and    *)
(* whether a wake-up comes for free, is nobody's duty.                     *)
FairSpec ==
  /\ Spec
  /\ WF_vars(ProcessIncoming)
  /\ \A p \in Producers : WF_vars(LockToNotify(p) \/ Notify(p))

------------------------------------------------------------------------------
(* Properties *)

(* wait() and pop_front() are two critical sections, and the deque may     *)
(* change between them: still, the consumer that goes on to pop_front      *)
(* always finds an item there.                                             *)
NoPopOnEmpty == loop = "pop" => deque # <<>>

(* The threads' positions say who owns each mutex, so that no two of them  *)
(* are ever inside the same critical section.                              *)
MutexOwners ==
  /\ \A p \in Producers : /\ dequeMutex = p <=> push[p] # "out"
                          /\ blockingMutex = p <=> push[p] = "notifying"
  /\ blockingMutex = Consumer <=> loop = "blocking"

(* The inductive invariant behind the two, with the types: deque::front on *)
(* an empty deque and a mutex with two owners are both out of reach.       *)
DequeInv == TypeOK /\ MutexOwners /\ NoPopOnEmpty

(* Whatever the interleaving of the producers with wait() and pop_front(), *)
(* items are handed over once each and in the order of the push_backs.     *)
Fifo == INSTANCE FifoQueue WITH queue <- deque, taken <- received
ImplementsFifo == Fifo!Spec

(* push_back holds one mutex while it asks for the other, and wait() comes *)
(* to the second one from its own side: neither keeps a push from ending.  *)
PushReturns == \A p \in Producers : (push[p] # "out") ~> (push[p] = "out")

(* A push that finds the consumer asleep brings it to pop_front, even when *)
(* items of earlier pushes were left behind by a lost notification.        *)
PushWakesSleeper ==
  (loop = "waiting" /\ \E p \in Producers : push[p] # "out") ~> (loop = "pop")

(* What a reader expects of the class's comment "Thread-safe deque": an    *)
(* item put in is consumed without waiting for the next push.              *)
ItemsAreConsumed == deque # <<>> ~> deque = <<>>
==============================================================================
