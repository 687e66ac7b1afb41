----------------------------- MODULE BlockQueue -----------------------------
(***************************************************************************)
(* consumer_productor: the bounded queue of blockqueue.hpp and the loops   *)
(* of cp_thread.hpp that use it.  The source calls the threads that push   *)
(* "consumers" and the threads that pop "productors", and names the        *)
(* condition variables and counters after them; those names are kept.      *)
(*                                                                         *)
(* Every field is read and written under _mutex, so what a thread does     *)
(* between obtaining the mutex and giving it up (by unlock or by           *)
(* pthread_cond_wait) is one action.  Waiting is not part of it: a thread  *)
(* that finds the queue full or empty goes to sleep, is moved out of the   *)
(* condition's wait set by a broadcast or spuriously, and only later       *)
(* obtains the mutex again and re-evaluates the loop condition, with any   *)
(* number of steps of other threads in between.                            *)
(***************************************************************************)
EXTENDS Integers, Sequences, FiniteSets

CONSTANTS Pushers, Poppers,   \* threads running c_thread and p_thread
          Tasks, NoTask,      \* task objects, and the absence of one
          Cap                 \* _cap

ASSUME ThreadsAssumption == /\ IsFiniteSet(Pushers) /\ IsFiniteSet(Poppers)
                            /\ Pushers \cap Poppers = {}
ASSUME TasksAssumption == NoTask \notin Tasks
ASSUME CapAssumption == Cap \in Nat \ {0}

VARIABLES q,              \* _q
          con_wait_num,   \* _con_wait_num: pushers inside pthread_cond_wait
          pro_wait_num,   \* _pro_wait_num: poppers inside pthread_cond_wait
          pc,             \* per thread: where it is, see States
          task            \* per thread: the task it pushes, or has popped

vars == <<q, con_wait_num, pro_wait_num, pc, task>>

Threads == Pushers \cup Poppers

(* "outside" the queue; "locking": in pthread_mutex_lock; "asleep": in the *)
(* wait set of its condition; "woken": out of the wait set, still in       *)
(* pthread_cond_wait, which returns when it has the mutex again.           *)
States == {"outside", "locking", "asleep", "woken"}

Empty == Len(q) = 0

FullOffByOne == Len(q) > Cap                                   \* mutant
Full == Len(q) = Cap

Init == /\ q = <<>>
        /\ con_wait_num = 0 /\ pro_wait_num = 0
        /\ pc = [t \in Threads |-> "outside"]
        /\ task = [t \in Threads |-> NoTask]

(* Mutants of Broadcast: pthread_cond_signal, and a wrong threshold.       *)
SignalOne(pcs, waiters, num) ==
  LET asleep == {t \in waiters : pcs[t] = "asleep"}
  IN  [t \in Threads |-> IF num > 0 /\ asleep # {} /\ t = CHOOSE u \in asleep : TRUE
                         THEN "woken" ELSE pcs[t]]
BroadcastToMany(pcs, waiters, num) ==
  [t \in Threads |-> IF num > 1 /\ t \in waiters /\ pcs[t] = "asleep"
                     THEN "woken" ELSE pcs[t]]

(* if(num > 0) pthread_cond_broadcast(cond): every sleeper among those     *)
(* that use the condition leaves its wait set.                             *)
Broadcast(pcs, waiters, num) ==
  [t \in Threads |-> IF num > 0 /\ t \in waiters /\ pcs[t] = "asleep"
                     THEN "woken" ELSE pcs[t]]

NoDecrement(num, t) == num                                     \* mutant

(* The counter as thread t finds it once it has the mutex: the return from *)
(* pthread_cond_wait is followed by the decrement.                         *)
Returned(num, t) == IF pc[t] = "woken" THEN num - 1 ELSE num

CallPush(t) == /\ pc[t] = "outside"
               /\ pc' = [pc EXCEPT ![t] = "locking"]
               /\ \E x \in Tasks : task' = [task EXCEPT ![t] = x]
               /\ UNCHANGED <<q, con_wait_num, pro_wait_num>>

PushWait(t) == /\ pc[t] \in {"locking", "woken"}
               /\ Full
               /\ con_wait_num' = Returned(con_wait_num, t) + 1
               /\ pc' = [pc EXCEPT ![t] = "asleep"]
               /\ UNCHANGED <<q, pro_wait_num, task>>

(* Mutant of Push: the loop condition is not evaluated again after a wait. *)
PushIf(t) == /\ pc[t] = "woken" \/ (pc[t] = "locking" /\ ~Full)
             /\ con_wait_num' = Returned(con_wait_num, t)
             /\ q' = Append(q, task[t])
             /\ pc' = [Broadcast(pc, Poppers, pro_wait_num) EXCEPT ![t] = "outside"]
             /\ task' = [task EXCEPT ![t] = NoTask]
             /\ UNCHANGED pro_wait_num

Push(t) == /\ pc[t] \in {"locking", "woken"}
           /\ ~Full
           /\ con_wait_num' = Returned(con_wait_num, t)
           /\ q' = Append(q, task[t])
           /\ pc' = [Broadcast(pc, Poppers, pro_wait_num) EXCEPT ![t] = "outside"]
           /\ task' = [task EXCEPT ![t] = NoTask]
           /\ UNCHANGED pro_wait_num

CallPop(t) == /\ pc[t] = "outside"
              /\ task[t] = NoTask
              /\ pc' = [pc EXCEPT ![t] = "locking"]
              /\ UNCHANGED <<q, con_wait_num, pro_wait_num, task>>

PopWait(t) == /\ pc[t] \in {"locking", "woken"}
              /\ Empty
              /\ pro_wait_num' = Returned(pro_wait_num, t) + 1
              /\ pc' = [pc EXCEPT ![t] = "asleep"]
              /\ UNCHANGED <<q, con_wait_num, task>>

Pop(t) == /\ pc[t] \in {"locking", "woken"}
          /\ ~Empty
          /\ pro_wait_num' = Returned(pro_wait_num, t)
          /\ task' = [task EXCEPT ![t] = Head(q)]
          /\ q' = Tail(q)
          /\ pc' = [Broadcast(pc, Pushers, con_wait_num) EXCEPT ![t] = "outside"]
          /\ UNCHANGED con_wait_num

(* num.task_start() in p_thread; the task goes out of scope after it.      *)
TaskStart(t) == /\ pc[t] = "outside"
                /\ task[t] # NoTask
                /\ task' = [task EXCEPT ![t] = NoTask]
                /\ UNCHANGED <<q, con_wait_num, pro_wait_num, pc>>

(* pthread_cond_wait may return although nobody broadcast.                 *)
SpuriousWakeup(t) == /\ pc[t] = "asleep"
                     /\ pc' = [pc EXCEPT ![t] = "woken"]
                     /\ UNCHANGED <<q, con_wait_num, pro_wait_num, task>>

CThread(t) == CallPush(t) \/ PushWait(t) \/ Push(t)
PThread(t) == CallPop(t) \/ PopWait(t) \/ Pop(t) \/ TaskStart(t)

Next == \/ \E t \in Pushers : CThread(t)
        \/ \E t \in Poppers : PThread(t)
        \/ \E t \in Threads : SpuriousWakeup(t)

(* Both loops run for ever, and the mutex is held for a bounded time, so a *)
(* thread that is not asleep keeps taking steps.  Nothing makes a spurious *)
(* wakeup happen.                                                          *)
Fairness == /\ \A t \in Pushers : WF_vars(CThread(t))
            /\ \A t \in Poppers : WF_vars(PThread(t))

Spec == Init /\ [][Next]_vars
FairSpec == Spec /\ Fairness
-----------------------------------------------------------------------------
Asleep(S) == {t \in S : pc[t] = "asleep"}
InWait(S) == {t \in S : pc[t] \in {"asleep", "woken"}}

(* Types of the fields, and the bound on the queue: full() compares with   *)
(* ==, so an overshoot would never be noticed again.                       *)
TypeOK == /\ q \in Seq(Tasks) /\ Len(q) <= Cap
          /\ con_wait_num \in Nat /\ pro_wait_num \in Nat
          /\ pc \in [Threads -> States]
          /\ task \in [Threads -> Tasks \cup {NoTask}]
          /\ \A t \in Pushers : pc[t] = "outside" <=> task[t] = NoTask
          /\ \A t \in Poppers : pc[t] # "outside" => task[t] = NoTask

(* The two counters of blockqueue.hpp, on which the decision to broadcast  *)
(* rests, are exactly the numbers of threads inside pthread_cond_wait,     *)
(* those already woken and not yet rescheduled included.                   *)
WaitersCounted == /\ con_wait_num = Cardinality(InWait(Pushers))
                  /\ pro_wait_num = Cardinality(InWait(Poppers))

(* No wakeup is lost: a popper sleeps only while the queue is empty and a  *)
(* pusher only while it is full, however the wakeups, the calls and the    *)
(* re-evaluated loop conditions interleave.                                *)
NoLostWakeup == /\ Asleep(Poppers) # {} => Empty
                /\ Asleep(Pushers) # {} => Full

(* blockqueue.hpp implements a bounded FIFO whose calls take effect at one *)
(* instant: waiting, waking and the counters are invisible to callers.     *)
FIFO == INSTANCE BoundedFIFO
          WITH Items <- Tasks, NoItem <- NoTask, buf <- q,
               calling <- {t \in Threads : pc[t] # "outside"}, hand <- task
ImplementsFIFO == FIFO!Spec

(* A thread that goes to sleep in push or pop is eventually woken again.   *)
SleepersWake == \A t \in Threads : pc[t] = "asleep" ~> pc[t] # "asleep"
=============================================================================
