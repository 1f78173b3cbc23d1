---------------------------- MODULE TsDequeProofs ----------------------------
(***************************************************************************)
(* For any set of producers and any number of pushes: ts_deque never pops  *)
(* an empty deque, never has two threads in one critical section, and is a *)
(* FIFO queue.  (That an item is consumed at all is a liveness question    *)
(* and stays with TLC.)                                                    *)
(***************************************************************************)
EXTENDS TsDeque, SequenceTheorems, TLAPS

(* A push within its bound yields an item of the deque.                    *)
LEMMA PushedItem ==
  ASSUME NEW p \in Producers, NEW n \in 0..MaxPushes, n < MaxPushes
  PROVE  <<p, n + 1>> \in Item /\ n + 1 \in 0..MaxPushes
<1>1. n + 1 \in 1..MaxPushes /\ n + 1 \in 0..MaxPushes
  BY ConstantsAssumption
<1> QED
  BY <1>1 DEF Item

(* Appending keeps a sequence one, and makes it non-empty.                 *)
LEMMA AppendNonEmpty ==
  ASSUME NEW S, NEW s \in Seq(S), NEW x \in S
  PROVE  Append(s, x) \in Seq(S) /\ Append(s, x) # <<>>
BY AppendProperties

(* The position of a thread in the deque's two critical sections, the      *)
(* types, and the non-empty deque at pop_front are kept by every step.     *)
LEMMA InductiveDeque == DequeInv /\ [Next]_vars => DequeInv'
<1> SUFFICES ASSUME DequeInv, [Next]_vars
             PROVE  DequeInv'
  OBVIOUS
<1> USE ConstantsAssumption DEF DequeInv, TypeOK, MutexOwners, NoPopOnEmpty,
                                Thread
<1>1. ASSUME NEW p \in Producers, Emplace(p)
      PROVE  DequeInv'
  <2>1. <<p, pushed[p] + 1>> \in Item /\ pushed[p] + 1 \in 0..MaxPushes
    <3>1. pushed[p] \in 0..MaxPushes /\ pushed[p] < MaxPushes
      BY <1>1 DEF Emplace
    <3> QED
      BY <3>1, PushedItem
  <2>2. deque' \in Seq(Item) /\ deque' # <<>>
    <3>1. deque \in Seq(Item)
      OBVIOUS
    <3>2. deque' = Append(deque, <<p, pushed[p] + 1>>)
      BY <1>1 DEF Emplace, EmplaceBack
    <3> QED
      BY <2>1, <3>1, <3>2, AppendNonEmpty
  <2>3. TypeOK'
    BY <1>1, <2>1, <2>2 DEF Emplace
  <2>4. MutexOwners'
    BY <1>1 DEF Emplace
  <2> QED
    BY <1>1, <2>2, <2>3, <2>4 DEF Emplace
<1>2. ASSUME NEW p \in Producers, LockToNotify(p)
      PROVE  DequeInv'
  BY <1>2 DEF LockToNotify
<1>3. ASSUME NEW p \in Producers, Notify(p)
      PROVE  DequeInv'
  <2>1. TypeOK'
    BY <1>3 DEF Notify, NotifyOne
  <2>2. MutexOwners'
    BY <1>3 DEF Notify, NotifyOne
  <2>3. NoPopOnEmpty'
    BY <1>3 DEF Notify, NotifyOne
  <2> QED
    BY <2>1, <2>2, <2>3
<1>4. CASE CheckEmpty
  BY <1>4 DEF CheckEmpty
<1>5. CASE LockToWait
  BY <1>5 DEF LockToWait
<1>6. CASE Wait
  BY <1>6 DEF Wait, MutexOfSleeper
<1>7. CASE Reacquire
  BY <1>7 DEF Reacquire, AwakeThen
<1>8. CASE PopFront
  <2>1. Head(deque) \in Item /\ Tail(deque) \in Seq(Item)
    BY <1>8, HeadTailProperties DEF PopFront
  <2>2. received' \in Seq(Item)
    BY <1>8, <2>1, AppendProperties DEF PopFront
  <2> QED
    BY <1>8, <2>1, <2>2 DEF PopFront
<1>9. CASE WakeSpuriously
  BY <1>9 DEF WakeSpuriously
<1>10. CASE UNCHANGED vars
  BY <1>10 DEF vars
<1> QED
  BY <1>1, <1>2, <1>3, <1>4, <1>5, <1>6, <1>7, <1>8, <1>9, <1>10
     DEF Next, PushBack, ProcessIncoming

LEMMA InitialDeque == Init => DequeInv
BY ConstantsAssumption DEF Init, DequeInv, TypeOK, MutexOwners, NoPopOnEmpty,
                           Thread

(* In every reachable state of push_back, wait and pop_front the mutexes   *)
(* have the owners the threads' positions say, and pop_front has an item.  *)
THEOREM DequeIsSafe == Spec => []DequeInv
<1> QED
  BY InitialDeque, InductiveDeque, PTL DEF Spec

(* The variables of ts_deque keep their types.                             *)
THEOREM TypeCorrect == Spec => []TypeOK
<1>1. DequeInv => TypeOK
  BY DEF DequeInv
<1> QED
  BY <1>1, DequeIsSafe, PTL

(* The consumer that leaves wait() finds an item, though it has let go of  *)
(* the mutex under which it looked.                                        *)
THEOREM PopsAreSafe == Spec => []NoPopOnEmpty
<1>1. DequeInv => NoPopOnEmpty
  BY DEF DequeInv
<1> QED
  BY <1>1, DequeIsSafe, PTL

(* push_back and pop_front are the Put and the Take of a FIFO queue, and   *)
(* no other step of any thread changes what is in it.                      *)
THEOREM DequeIsFifo == Spec => ImplementsFifo
<1>1. Init => Fifo!Init
  BY DEF Init, Fifo!Init
<1>2. DequeInv /\ [Next]_vars => [Fifo!Next]_Fifo!vars
  <2> SUFFICES ASSUME DequeInv, [Next]_vars
               PROVE  [Fifo!Next]_Fifo!vars
    OBVIOUS
  <2> USE DEF DequeInv, TypeOK
  <2>1. ASSUME NEW p \in Producers, Emplace(p)
        PROVE  Fifo!Next
    <3>1. <<p, pushed[p] + 1>> \in Item
      <4>1. pushed[p] \in 0..MaxPushes /\ pushed[p] < MaxPushes
        BY <2>1 DEF Emplace
      <4> QED
        BY <4>1, PushedItem
    <3>2. Fifo!Put(<<p, pushed[p] + 1>>)
      BY <2>1 DEF Emplace, EmplaceBack, Fifo!Put
    <3> QED
      BY <3>1, <3>2 DEF Fifo!Next
  <2>2. CASE PopFront
    BY <2>2 DEF PopFront, Fifo!Take, Fifo!Next
  <2>3. CASE \/ \E p \in Producers : LockToNotify(p) \/ Notify(p)
             \/ CheckEmpty \/ LockToWait \/ Wait \/ Reacquire
             \/ WakeSpuriously \/ UNCHANGED vars
    <3>1. UNCHANGED <<deque, received>>
      BY <2>3 DEF LockToNotify, Notify, CheckEmpty, LockToWait, Wait,
                  Reacquire, WakeSpuriously, vars
    <3> QED
      BY <3>1 DEF Fifo!vars
  <2> QED
    BY <2>1, <2>2, <2>3 DEF Next, PushBack, ProcessIncoming
<1> QED
  BY <1>1, <1>2, DequeIsSafe, PTL DEF Spec, ImplementsFifo, Fifo!Spec
==============================================================================
