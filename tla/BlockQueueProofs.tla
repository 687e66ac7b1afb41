-------------------------- MODULE BlockQueueProofs --------------------------
(***************************************************************************)
(* Proofs about BlockQueue, for any finite sets of threads, any tasks and  *)
(* any capacity.  The argument rests on one fact: the counter of a         *)
(* condition is never zero while a thread is in its wait set.  Therefore   *)
(* the test "if(num > 0)" never skips a broadcast that is needed, and a    *)
(* queue that has just got an item, or room, has no sleeper that should    *)
(* have noticed it.                                                        *)
(***************************************************************************)
EXTENDS BlockQueue, FiniteSetTheorems, TLAPS

(* The inductive invariant: it is the conjunction of what the runs check.  *)
(* NoLostWakeup alone is not inductive, the counters are needed for it.    *)
IInv == TypeOK /\ WaitersCounted /\ NoLostWakeup
-----------------------------------------------------------------------------
(* A broadcast moves sleepers of its condition out of the wait set and     *)
(* touches nobody else; with a non-zero counter it moves all of them.      *)
LEMMA BroadcastWakes ==
  ASSUME NEW pcs \in [Threads -> States], NEW W, NEW num \in Nat
  PROVE  /\ Broadcast(pcs, W, num) \in [Threads -> States]
         /\ \A t \in Threads \ W : Broadcast(pcs, W, num)[t] = pcs[t]
         /\ \A t \in Threads :
              /\ Broadcast(pcs, W, num)[t] \in {"asleep", "woken"}
                   <=> pcs[t] \in {"asleep", "woken"}
              /\ Broadcast(pcs, W, num)[t] = "outside" <=> pcs[t] = "outside"
              /\ Broadcast(pcs, W, num)[t] = "asleep" => pcs[t] = "asleep"
         /\ num > 0 => \A t \in Threads \cap W : Broadcast(pcs, W, num)[t] # "asleep"
BY DEF Broadcast, States

(* The wait sets are finite, so that their sizes are numbers.              *)
LEMMA WaitersFinite ==
  /\ IsFiniteSet(InWait(Pushers)) /\ Cardinality(InWait(Pushers)) \in Nat
  /\ IsFiniteSet(InWait(Poppers)) /\ Cardinality(InWait(Poppers)) \in Nat
<1>1. InWait(Pushers) \in SUBSET Pushers /\ InWait(Poppers) \in SUBSET Poppers
  BY DEF InWait
<1> QED  BY <1>1, ThreadsAssumption, FS_Subset, FS_CardinalityType

(* What a thread with the mutex finds in its counter, whether it comes     *)
(* from pthread_mutex_lock or from pthread_cond_wait: the others.          *)
LEMMA ReturnedCountsOthers ==
  ASSUME WaitersCounted
  PROVE  /\ \A t \in Pushers : pc[t] \in {"locking", "woken"} =>
              /\ Returned(con_wait_num, t) = Cardinality(InWait(Pushers) \ {t})
              /\ Returned(con_wait_num, t) \in Nat
         /\ \A t \in Poppers : pc[t] \in {"locking", "woken"} =>
              /\ Returned(pro_wait_num, t) = Cardinality(InWait(Poppers) \ {t})
              /\ Returned(pro_wait_num, t) \in Nat
<1>1. ASSUME NEW S, IsFiniteSet(InWait(S)), NEW t \in S, pc[t] \in {"locking", "woken"}
      PROVE  /\ Returned(Cardinality(InWait(S)), t) = Cardinality(InWait(S) \ {t})
             /\ Cardinality(InWait(S) \ {t}) \in Nat
  <2>1. t \in InWait(S) <=> pc[t] = "woken"
    BY <1>1 DEF InWait
  <2>2. /\ IsFiniteSet(InWait(S) \ {t})
        /\ Cardinality(InWait(S) \ {t}) =
              IF t \in InWait(S) THEN Cardinality(InWait(S)) - 1 ELSE Cardinality(InWait(S))
    BY <1>1, FS_RemoveElement
  <2>3. Cardinality(InWait(S) \ {t}) \in Nat
    BY <2>2, FS_CardinalityType
  <2> QED  BY <2>1, <2>2, <2>3 DEF Returned
<1> QED  BY <1>1, WaitersFinite DEF WaitersCounted

(* A non-empty wait set has a positive counter.                            *)
LEMMA SleepersCounted ==
  ASSUME WaitersCounted
  PROVE  /\ Asleep(Poppers) # {} => pro_wait_num > 0
         /\ Asleep(Pushers) # {} => con_wait_num > 0
<1>1. Asleep(Poppers) \subseteq InWait(Poppers) /\ Asleep(Pushers) \subseteq InWait(Pushers)
  BY DEF Asleep, InWait
<1>2. ASSUME NEW S, IsFiniteSet(S), S # {} PROVE Cardinality(S) > 0
  BY <1>2, FS_EmptySet, FS_CardinalityType
<1> QED  BY <1>1, <1>2, WaitersFinite DEF WaitersCounted
-----------------------------------------------------------------------------
(* The constructor establishes the invariant.                              *)
LEMMA InitIInv == Init => IInv
<1> SUFFICES ASSUME Init PROVE IInv
  OBVIOUS
<1>1. TypeOK
  BY CapAssumption, TasksAssumption, ThreadsAssumption DEF Init, TypeOK, States, Threads
<1>2. InWait(Pushers) = {} /\ InWait(Poppers) = {} /\ Asleep(Pushers) = {} /\ Asleep(Poppers) = {}
  BY DEF Init, InWait, Asleep, Threads
<1> QED  BY <1>1, <1>2, FS_EmptySet DEF Init, IInv, WaitersCounted, NoLostWakeup

(* Every step keeps the types.                                             *)
LEMMA TypeStep ==
  ASSUME IInv, Next
  PROVE  TypeOK'
<1> USE TasksAssumption, ThreadsAssumption DEF IInv, TypeOK, Threads
<1>1. ASSUME NEW t \in Pushers, CallPush(t) PROVE TypeOK'
  BY <1>1 DEF CallPush, States
<1>2. ASSUME NEW t \in Pushers, PushWait(t) PROVE TypeOK'
  <2>1. Returned(con_wait_num, t) \in Nat
    BY <1>2, ReturnedCountsOthers DEF PushWait
  <2> QED  BY <1>2, <2>1 DEF PushWait, States
<1>3. ASSUME NEW t \in Pushers, Push(t) PROVE TypeOK'
  <2>1. Returned(con_wait_num, t) \in Nat
    BY <1>3, ReturnedCountsOthers DEF Push
  <2>2. task[t] \in Tasks
    BY <1>3 DEF Push
  <2>3. q' \in Seq(Tasks) /\ Len(q') <= Cap
    BY <1>3, <2>2, CapAssumption DEF Push, Full
  <2> DEFINE woken == Broadcast(pc, Poppers, pro_wait_num)
  <2>4. /\ woken \in [Threads -> States]
        /\ \A u \in Threads : woken[u] = "outside" <=> pc[u] = "outside"
    BY BroadcastWakes
  <2>5. pc' = [woken EXCEPT ![t] = "outside"] /\ task' = [task EXCEPT ![t] = NoTask]
    BY <1>3 DEF Push
  <2> HIDE DEF woken
  <2>6. /\ pc' \in [Threads -> States] /\ pc'[t] = "outside"
        /\ \A u \in Threads \ {t} : pc'[u] = "outside" <=> pc[u] = "outside"
    BY <2>4, <2>5 DEF States
  <2>7. task'[t] = NoTask /\ \A u \in Threads \ {t} : task'[u] = task[u]
    BY <2>5
  <2> QED  BY <1>3, <2>1, <2>3, <2>5, <2>6, <2>7 DEF Push
<1>4. ASSUME NEW t \in Poppers, CallPop(t) PROVE TypeOK'
  BY <1>4 DEF CallPop, States
<1>5. ASSUME NEW t \in Poppers, PopWait(t) PROVE TypeOK'
  <2>1. Returned(pro_wait_num, t) \in Nat
    BY <1>5, ReturnedCountsOthers DEF PopWait
  <2> QED  BY <1>5, <2>1 DEF PopWait, States
<1>6. ASSUME NEW t \in Poppers, Pop(t) PROVE TypeOK'
  <2>1. Returned(pro_wait_num, t) \in Nat
    BY <1>6, ReturnedCountsOthers DEF Pop
  <2>2. Head(q) \in Tasks /\ q' \in Seq(Tasks) /\ Len(q') <= Cap
    BY <1>6, CapAssumption DEF Pop, Empty
  <2> DEFINE woken == Broadcast(pc, Pushers, con_wait_num)
  <2>4. /\ woken \in [Threads -> States]
        /\ \A u \in Threads : woken[u] = "outside" <=> pc[u] = "outside"
    BY BroadcastWakes
  <2>5. pc' = [woken EXCEPT ![t] = "outside"] /\ task' = [task EXCEPT ![t] = Head(q)]
    BY <1>6 DEF Pop
  <2> HIDE DEF woken
  <2>6. /\ pc' \in [Threads -> States] /\ pc'[t] = "outside"
        /\ \A u \in Threads \ {t} : pc'[u] = "outside" <=> pc[u] = "outside"
    BY <2>4, <2>5 DEF States
  <2>7. task'[t] = Head(q) /\ \A u \in Threads \ {t} : task'[u] = task[u]
    BY <2>5
  <2> QED  BY <1>6, <2>1, <2>2, <2>5, <2>6, <2>7 DEF Pop
<1>7. ASSUME NEW t \in Poppers, TaskStart(t) PROVE TypeOK'
  BY <1>7 DEF TaskStart
<1>8. ASSUME NEW t \in Threads, SpuriousWakeup(t) PROVE TypeOK'
  BY <1>8 DEF SpuriousWakeup, States
<1> QED
  BY <1>1, <1>2, <1>3, <1>4, <1>5, <1>6, <1>7, <1>8 DEF Next, CThread, PThread

(* How the wait sets change: one thread enters or leaves, and a broadcast  *)
(* leaves them alone, because a woken thread is still in its wait.         *)
LEMMA WaitersStep ==
  ASSUME IInv, Next
  PROVE  WaitersCounted'
<1> USE ThreadsAssumption DEF IInv, TypeOK, Threads
<1>1. ASSUME NEW t \in Pushers, CallPush(t) PROVE WaitersCounted'
  <2>1. InWait(Pushers)' = InWait(Pushers) /\ InWait(Poppers)' = InWait(Poppers)
    BY <1>1 DEF CallPush, InWait
  <2> QED  BY <1>1, <2>1 DEF CallPush, WaitersCounted
<1>2. ASSUME NEW t \in Pushers, PushWait(t) PROVE WaitersCounted'
  <2>1. /\ InWait(Pushers)' = (InWait(Pushers) \ {t}) \cup {t}
        /\ InWait(Poppers)' = InWait(Poppers)
    BY <1>2 DEF PushWait, InWait
  <2>2. con_wait_num' = Cardinality(InWait(Pushers) \ {t}) + 1
    BY <1>2, ReturnedCountsOthers DEF PushWait
  <2>3. Cardinality((InWait(Pushers) \ {t}) \cup {t}) = Cardinality(InWait(Pushers) \ {t}) + 1
    BY WaitersFinite, FS_RemoveElement, FS_AddElement
  <2> QED  BY <1>2, <2>1, <2>2, <2>3 DEF PushWait, WaitersCounted
<1>3. ASSUME NEW t \in Pushers, Push(t) PROVE WaitersCounted'
  <2> DEFINE woken == Broadcast(pc, Poppers, pro_wait_num)
  <2>1. /\ woken \in [Threads -> States]
        /\ \A u \in Threads : woken[u] \in {"asleep", "woken"} <=> pc[u] \in {"asleep", "woken"}
    BY BroadcastWakes
  <2>2. pc' = [woken EXCEPT ![t] = "outside"]
    BY <1>3 DEF Push
  <2> HIDE DEF woken
  <2>3. InWait(Pushers)' = InWait(Pushers) \ {t} /\ InWait(Poppers)' = InWait(Poppers)
    BY <2>1, <2>2 DEF InWait
  <2>4. con_wait_num' = Cardinality(InWait(Pushers) \ {t})
    BY <1>3, ReturnedCountsOthers DEF Push
  <2> QED  BY <1>3, <2>3, <2>4 DEF Push, WaitersCounted
<1>4. ASSUME NEW t \in Poppers, CallPop(t) PROVE WaitersCounted'
  <2>1. InWait(Pushers)' = InWait(Pushers) /\ InWait(Poppers)' = InWait(Poppers)
    BY <1>4 DEF CallPop, InWait
  <2> QED  BY <1>4, <2>1 DEF CallPop, WaitersCounted
<1>5. ASSUME NEW t \in Poppers, PopWait(t) PROVE WaitersCounted'
  <2>1. /\ InWait(Poppers)' = (InWait(Poppers) \ {t}) \cup {t}
        /\ InWait(Pushers)' = InWait(Pushers)
    BY <1>5 DEF PopWait, InWait
  <2>2. pro_wait_num' = Cardinality(InWait(Poppers) \ {t}) + 1
    BY <1>5, ReturnedCountsOthers DEF PopWait
  <2>3. Cardinality((InWait(Poppers) \ {t}) \cup {t}) = Cardinality(InWait(Poppers) \ {t}) + 1
    BY WaitersFinite, FS_RemoveElement, FS_AddElement
  <2> QED  BY <1>5, <2>1, <2>2, <2>3 DEF PopWait, WaitersCounted
<1>6. ASSUME NEW t \in Poppers, Pop(t) PROVE WaitersCounted'
  <2> DEFINE woken == Broadcast(pc, Pushers, con_wait_num)
  <2>1. /\ woken \in [Threads -> States]
        /\ \A u \in Threads : woken[u] \in {"asleep", "woken"} <=> pc[u] \in {"asleep", "woken"}
    BY BroadcastWakes
  <2>2. pc' = [woken EXCEPT ![t] = "outside"]
    BY <1>6 DEF Pop
  <2> HIDE DEF woken
  <2>3. InWait(Poppers)' = InWait(Poppers) \ {t} /\ InWait(Pushers)' = InWait(Pushers)
    BY <2>1, <2>2 DEF InWait
  <2>4. pro_wait_num' = Cardinality(InWait(Poppers) \ {t})
    BY <1>6, ReturnedCountsOthers DEF Pop
  <2> QED  BY <1>6, <2>3, <2>4 DEF Pop, WaitersCounted
<1>7. ASSUME NEW t \in Poppers, TaskStart(t) PROVE WaitersCounted'
  BY <1>7 DEF TaskStart, WaitersCounted, InWait
<1>8. ASSUME NEW t \in Threads, SpuriousWakeup(t) PROVE WaitersCounted'
  <2>1. InWait(Pushers)' = InWait(Pushers) /\ InWait(Poppers)' = InWait(Poppers)
    BY <1>8 DEF SpuriousWakeup, InWait
  <2> QED  BY <1>8, <2>1 DEF SpuriousWakeup, WaitersCounted
<1> QED
  BY <1>1, <1>2, <1>3, <1>4, <1>5, <1>6, <1>7, <1>8 DEF Next, CThread, PThread

(* A push finds no sleeping pusher, because it finds room, and leaves no   *)
(* sleeping popper, because it wakes all of them; a pop likewise.          *)
LEMMA NoLostWakeupStep ==
  ASSUME IInv, Next
  PROVE  NoLostWakeup'
<1> USE ThreadsAssumption DEF IInv, TypeOK, Threads
<1>1. ASSUME NEW t \in Pushers, CallPush(t) PROVE NoLostWakeup'
  BY <1>1 DEF CallPush, NoLostWakeup, Asleep, Empty, Full
<1>2. ASSUME NEW t \in Pushers, PushWait(t) PROVE NoLostWakeup'
  BY <1>2 DEF PushWait, NoLostWakeup, Asleep, Empty, Full
<1>3. ASSUME NEW t \in Pushers, Push(t) PROVE NoLostWakeup'
  <2> DEFINE woken == Broadcast(pc, Poppers, pro_wait_num)
  <2>1. /\ woken \in [Threads -> States]
        /\ \A u \in Threads : woken[u] = "asleep" => pc[u] = "asleep"
        /\ pro_wait_num > 0 => \A u \in Threads \cap Poppers : woken[u] # "asleep"
    BY BroadcastWakes
  <2>2. pc' = [woken EXCEPT ![t] = "outside"]
    BY <1>3 DEF Push
  <2> HIDE DEF woken
  <2>3. Asleep(Pushers) = {}
    BY <1>3 DEF Push, NoLostWakeup
  <2>4. Asleep(Pushers)' = {}
    BY <2>1, <2>2, <2>3 DEF Asleep
  <2>5. Asleep(Poppers)' = {}
    BY <2>1, <2>2, SleepersCounted DEF Asleep
  <2> QED  BY <2>4, <2>5 DEF NoLostWakeup
<1>4. ASSUME NEW t \in Poppers, CallPop(t) PROVE NoLostWakeup'
  BY <1>4 DEF CallPop, NoLostWakeup, Asleep, Empty, Full
<1>5. ASSUME NEW t \in Poppers, PopWait(t) PROVE NoLostWakeup'
  BY <1>5 DEF PopWait, NoLostWakeup, Asleep, Empty, Full
<1>6. ASSUME NEW t \in Poppers, Pop(t) PROVE NoLostWakeup'
  <2> DEFINE woken == Broadcast(pc, Pushers, con_wait_num)
  <2>1. /\ woken \in [Threads -> States]
        /\ \A u \in Threads : woken[u] = "asleep" => pc[u] = "asleep"
        /\ con_wait_num > 0 => \A u \in Threads \cap Pushers : woken[u] # "asleep"
    BY BroadcastWakes
  <2>2. pc' = [woken EXCEPT ![t] = "outside"]
    BY <1>6 DEF Pop
  <2> HIDE DEF woken
  <2>3. Asleep(Poppers) = {}
    BY <1>6 DEF Pop, NoLostWakeup
  <2>4. Asleep(Poppers)' = {}
    BY <2>1, <2>2, <2>3 DEF Asleep
  <2>5. Asleep(Pushers)' = {}
    BY <2>1, <2>2, SleepersCounted DEF Asleep
  <2> QED  BY <2>4, <2>5 DEF NoLostWakeup
<1>7. ASSUME NEW t \in Poppers, TaskStart(t) PROVE NoLostWakeup'
  BY <1>7 DEF TaskStart, NoLostWakeup, Asleep, Empty, Full
<1>8. ASSUME NEW t \in Threads, SpuriousWakeup(t) PROVE NoLostWakeup'
  BY <1>8 DEF SpuriousWakeup, NoLostWakeup, Asleep, Empty, Full
<1> QED
  BY <1>1, <1>2, <1>3, <1>4, <1>5, <1>6, <1>7, <1>8 DEF Next, CThread, PThread

(* A step that changes nothing breaks nothing.                             *)
LEMMA Stutter == IInv /\ UNCHANGED vars => IInv'
BY DEF IInv, TypeOK, WaitersCounted, NoLostWakeup, InWait, Asleep, Empty, Full, vars

(* The inductive invariant holds in every reachable state.                 *)
LEMMA Invariance == Spec => []IInv
<1>1. IInv /\ [Next]_vars => IInv'
  BY TypeStep, WaitersStep, NoLostWakeupStep, Stutter DEF IInv
<1> QED  BY InitIInv, <1>1, PTL DEF Spec
-----------------------------------------------------------------------------
(* The fields keep their types and the queue never exceeds _cap, although  *)
(* full() tests with ==.                                                   *)
THEOREM TypeCorrect == Spec => []TypeOK
<1>1. IInv => TypeOK
  BY DEF IInv
<1> QED  BY Invariance, <1>1, PTL

(* _con_wait_num and _pro_wait_num are exact: they are the numbers of      *)
(* threads inside pthread_cond_wait.                                       *)
THEOREM CountersExact == Spec => []WaitersCounted
<1>1. IInv => WaitersCounted
  BY DEF IInv
<1> QED  BY Invariance, <1>1, PTL

(* No popper sleeps on a queue with items, no pusher on one with room.     *)
THEOREM NoWakeupLost == Spec => []NoLostWakeup
<1>1. IInv => NoLostWakeup
  BY DEF IInv
<1> QED  BY Invariance, <1>1, PTL
-----------------------------------------------------------------------------
(* The refinement: CallPush and CallPop are invocations, Push and Pop take *)
(* effect and return at once, and waiting is invisible.                    *)
LEMMA InitRefines == Init => FIFO!Init
BY DEF Init, FIFO!Init, FIFO!Threads, Threads

(* A step of block_queue is a put, a get or a stutter of the FIFO.         *)
LEMMA StepRefines ==
  ASSUME IInv, [Next]_vars
  PROVE  [FIFO!Next]_FIFO!vars
<1> USE ThreadsAssumption, TasksAssumption DEF IInv, TypeOK, Threads, FIFO!Threads
<1> DEFINE calling == {t \in Threads : pc[t] # "outside"}
<1>1. ASSUME NEW t \in Pushers, CallPush(t) PROVE FIFO!Next
  <2>1. FIFO!Invoke(t)
    BY <1>1 DEF CallPush, FIFO!Invoke
  <2> QED  BY <2>1 DEF FIFO!Next
<1>2. ASSUME NEW t \in Pushers, PushWait(t) PROVE UNCHANGED FIFO!vars
  BY <1>2 DEF PushWait, FIFO!vars
<1>3. ASSUME NEW t \in Pushers, Push(t) PROVE FIFO!Next
  <2> DEFINE woken == Broadcast(pc, Poppers, pro_wait_num)
  <2>1. /\ woken \in [Threads -> States]
        /\ \A u \in Threads : woken[u] = "outside" <=> pc[u] = "outside"
    BY BroadcastWakes
  <2>2. pc' = [woken EXCEPT ![t] = "outside"]
    BY <1>3 DEF Push
  <2> HIDE DEF woken
  <2>3. calling' = calling \ {t} /\ t \in calling
    BY <1>3, <2>1, <2>2 DEF Push
  <2>4. Len(q) < Cap
    BY <1>3, CapAssumption DEF Push, Full
  <2>5. FIFO!Enqueue(t)
    BY <1>3, <2>3, <2>4 DEF Push, FIFO!Enqueue
  <2> QED  BY <2>5 DEF FIFO!Next
<1>4. ASSUME NEW t \in Poppers, CallPop(t) PROVE FIFO!Next
  <2>1. FIFO!Invoke(t)
    BY <1>4 DEF CallPop, FIFO!Invoke
  <2> QED  BY <2>1 DEF FIFO!Next
<1>5. ASSUME NEW t \in Poppers, PopWait(t) PROVE UNCHANGED FIFO!vars
  BY <1>5 DEF PopWait, FIFO!vars
<1>6. ASSUME NEW t \in Poppers, Pop(t) PROVE FIFO!Next
  <2> DEFINE woken == Broadcast(pc, Pushers, con_wait_num)
  <2>1. /\ woken \in [Threads -> States]
        /\ \A u \in Threads : woken[u] = "outside" <=> pc[u] = "outside"
    BY BroadcastWakes
  <2>2. pc' = [woken EXCEPT ![t] = "outside"]
    BY <1>6 DEF Pop
  <2> HIDE DEF woken
  <2>3. calling' = calling \ {t} /\ t \in calling
    BY <1>6, <2>1, <2>2 DEF Pop
  <2>4. q # <<>>
    BY <1>6 DEF Pop, Empty
  <2>5. FIFO!Dequeue(t)
    BY <1>6, <2>3, <2>4 DEF Pop, FIFO!Dequeue
  <2> QED  BY <2>5 DEF FIFO!Next
<1>7. ASSUME NEW t \in Poppers, TaskStart(t) PROVE FIFO!Next
  <2>1. FIFO!Consume(t)
    BY <1>7 DEF TaskStart, FIFO!Consume
  <2> QED  BY <2>1 DEF FIFO!Next
<1>8. ASSUME NEW t \in Threads, SpuriousWakeup(t) PROVE UNCHANGED FIFO!vars
  BY <1>8 DEF SpuriousWakeup, FIFO!vars
<1>9. CASE UNCHANGED vars
  BY <1>9 DEF vars, FIFO!vars
<1> QED
  BY <1>1, <1>2, <1>3, <1>4, <1>5, <1>6, <1>7, <1>8, <1>9 DEF Next, CThread, PThread

(* The queue of blockqueue.hpp implements the abstract bounded FIFO.       *)
THEOREM Implementation == Spec => ImplementsFIFO
<1> QED  BY InitRefines, StepRefines, Invariance, PTL DEF Spec, ImplementsFIFO, FIFO!Spec
=============================================================================
