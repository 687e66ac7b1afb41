----------------------------- MODULE PoolProofs -----------------------------
(***************************************************************************)
(* Proofs about the three pools, Threadpool, ProcessPool and the workers   *)
(* of AsyncLog; no name of one occurs in another.                          *)
(*                                                                         *)
(* Threadpool, for any number of workers and of tasks.  While the mutex    *)
(* lives one worker is in the critical section.  The destructor destroys   *)
(* it when nobody holds it, after which every worker may enter; but if     *)
(* quit() came first, none that enters gets as far as the queue.           *)
(*                                                                         *)
(* ProcessPool, for any number of children, codes and failures.  The two   *)
(* counters, which wrap at different times, stay in step with the number   *)
(* of codes sent, so that whose turn it is and what is sent follow from    *)
(* that number; and behind a write end that the parent holds nobody sees   *)
(* the end of its file.                                                    *)
(*                                                                         *)
(* AsyncLog, for any number of loggers, workers and appenders.  Loggers and*)
(* workers sleep on one condition variable, but only over an empty queue   *)
(* does a worker, and a push that counts a worker there wakes them all.  A *)
(* line that is pushed is new, as its logger is not past it, and goes from *)
(* the queue through the hands of one worker to its file.                  *)
(***************************************************************************)
EXTENDS Threadpool, ProcessPool, AsyncLog, FiniteSetTheorems, SequenceTheorems, TLAPS

(* The places of a worker, those inside the critical section, and who      *)
(* waits or has a task.                                                    *)
States == {"new", "lock", "check", "wait", "asleep", "woken", "decide", "front", "pop",
           "running", "exited"}
Inside == {"check", "wait", "decide", "front", "pop"}
Waiting == {w \in Workers : pc[w] \in {"wait", "asleep", "woken"}}
Held == {w \in Workers : pc[w] = "running"}

(* The owner's side and the history, which TypeOK leaves out, and that a   *)
(* worker with a task to run has copied one.                               *)
OwnerTypes ==
  /\ owner \in {"created", "starting", "started", "stopping", "quitting", "destroyCond",
                "joining", "joined"}
  /\ mutexAlive \in BOOLEAN
  /\ done \in Seq(TaskIds)
  /\ \A w \in Workers : pc[w] \in {"pop", "running"} => job[w] \in TaskIds

(* Who is in the critical section: one worker while there is a mutex; none *)
(* that touches the queue when quit() was followed by the destructor, and  *)
(* nobody calls quit() once the destructor has begun.                      *)
Exclusion ==
  /\ holders = {w \in Workers : pc[w] \in Inside}
  /\ mutexAlive => \A w, u \in holders : w = u
  /\ ~mutexAlive => owner \in {"destroyCond", "joining", "joined"}
  /\ ~mutexAlive /\ isquit => \A w \in Workers : pc[w] \notin {"front", "pop"}

(* Tasks leave the queue at its head, so that what is left are the last.   *)
QueueIsRest == /\ Len(q) <= NumTasks
               /\ \A i \in 1 .. Len(q) : q[i] = NumTasks - Len(q) + i

(* Where front() and pop() see the same head, the tasks that have left the *)
(* queue are with one worker or done, each once.                           *)
TasksPlaced ==
  mutexAlive \/ isquit =>
    /\ \A w \in Workers : pc[w] = "pop" => q # <<>> /\ job[w] = NumTasks - Len(q) + 1
    /\ \A w \in Held : job[w] \in 1 .. NumTasks - Len(q)
    /\ \A w, u \in Held : w # u => job[w] # job[u]
    /\ \A i \in 1 .. Len(done) : done[i] <= NumTasks - Len(q)
    /\ \A w \in Held, i \in 1 .. Len(done) : job[w] # done[i]
    /\ \A i, j \in 1 .. Len(done) : i # j => done[i] # done[j]
    /\ Len(q) + Cardinality(Held) + Len(done) = NumTasks

(* Nobody has taken a task since quit() if somebody is still about to.     *)
TakenCounted ==
  /\ takenAfterQuit \in 0 .. 1
  /\ ~isquit \/ (\E w \in Workers : pc[w] \in {"front", "pop"}) => takenAfterQuit = 0

(* The inductive invariant.                                                *)
IInv == TypeOK /\ OwnerTypes /\ Exclusion /\ QueueIsRest /\ TasksPlaced /\ TakenCounted
-----------------------------------------------------------------------------
(* The workers are finitely many, and so are those that wait or have a job.*)
LEMMA WorkersFinite ==
  /\ IsFiniteSet(Waiting) /\ Cardinality(Waiting) \in Nat
  /\ IsFiniteSet(Held) /\ Cardinality(Held) \in Nat
<1>1. Waiting \in SUBSET Workers /\ Held \in SUBSET Workers
  BY DEF Waiting, Held
<1> QED  BY <1>1, WorkersAssumption, FS_Subset, FS_CardinalityType

(* The number of those that wait when one worker begins or ends to.        *)
LEMMA WaitingCounted ==
  ASSUME NEW w \in Workers
  PROVE  /\ Waiting' = Waiting => Cardinality(Waiting') = Cardinality(Waiting)
         /\ w \notin Waiting /\ Waiting' = Waiting \cup {w} =>
              Cardinality(Waiting') = Cardinality(Waiting) + 1
         /\ w \in Waiting /\ Waiting' = Waiting \ {w} =>
              Cardinality(Waiting') = Cardinality(Waiting) - 1
BY WorkersFinite, FS_AddElement, FS_RemoveElement

(* pcs has all but w where they are, or woken where they were asleep.      *)
Awakened(pcs, w) ==
  \A u \in Workers \ {w} : pcs[u] = pc[u] \/ (pc[u] = "asleep" /\ pcs[u] = "woken")

(* pthread_cond_signal in pop wakes at most one sleeper; a thread that has *)
(* not slept is where it was.                                              *)
LEMMA PopSignals ==
  ASSUME TypeOK, NEW w \in Workers, Pop(w)
  PROVE  /\ pc' \in [Workers -> States]
         /\ pc[w] = "pop" /\ pc'[w] = "running" /\ Awakened(pc', w)
<1> DEFINE running == [pc EXCEPT ![w] = "running"]
<1>1. pc \in [Workers -> States] /\ pc[w] = "pop"
  BY DEF TypeOK, Pop, States
<1>2. /\ running \in [Workers -> States] /\ running[w] = "running"
      /\ \A u \in Workers \ {w} : running[u] = pc[u]
  BY <1>1 DEF States
<1>3. \/ pc' = running
      \/ \E u \in Workers : pc[u] = "asleep" /\ pc' = [running EXCEPT ![u] = "woken"]
  BY DEF Pop
<1>4. CASE pc' = running
  BY <1>1, <1>2, <1>4 DEF Awakened
<1>5. ASSUME NEW u \in Workers, pc[u] = "asleep", pc' = [running EXCEPT ![u] = "woken"]
      PROVE  /\ pc' \in [Workers -> States] /\ pc'[w] = "running" /\ Awakened(pc', w)
  <2> HIDE DEF running
  <2>1. u # w /\ pc'[u] = "woken" /\ \A v \in Workers \ {u} : pc'[v] = running[v]
    BY <1>1, <1>2, <1>5
  <2>2. pc' \in [Workers -> States]
    BY <1>2, <1>5 DEF States
  <2> QED  BY <1>2, <1>5, <2>1, <2>2 DEF Awakened
<1> QED  BY <1>1, <1>3, <1>4, <1>5

(* A broadcast makes threads that were asleep woken and touches no other.  *)
LEMMA BroadcastWakes ==
  ASSUME TypeOK
  PROVE  /\ Woken(pc) \in [Workers -> States]
         /\ \A u \in Workers : Woken(pc)[u] = pc[u] \/ (pc[u] = "asleep" /\ Woken(pc)[u] = "woken")
BY DEF TypeOK, Woken, States

(* A task list that is not empty has a head and a tail.                    *)
LEMMA HeadAndRest ==
  ASSUME TypeOK, QueueIsRest, q # <<>>
  PROVE  /\ Len(q) \in 1 .. NumTasks /\ Head(q) = NumTasks - Len(q) + 1
         /\ Head(q) \in TaskIds /\ Tail(q) \in Seq(TaskIds) /\ Len(Tail(q)) = Len(q) - 1
         /\ \A i \in 1 .. Len(q) - 1 : Tail(q)[i] = NumTasks - (Len(q) - 1) + i
<1>1. q \in Seq(TaskIds)
  BY DEF TypeOK
<1>2. /\ Len(q) \in Nat \ {0} /\ Head(q) = q[1] /\ Head(q) \in TaskIds
      /\ Tail(q) \in Seq(TaskIds) /\ Len(Tail(q)) = Len(q) - 1
      /\ \A i \in 1 .. Len(q) - 1 : Tail(q)[i] = q[i + 1]
  BY <1>1, EmptySeq, LenProperties, HeadTailProperties, ElementOfSeq
<1> DEFINE n == Len(q)
<1>3. /\ n \in Nat \ {0} /\ n <= NumTasks /\ NumTasks \in Nat
      /\ \A i \in 1 .. n : q[i] = NumTasks - n + i
  BY <1>2, WorkersAssumption DEF QueueIsRest
<1>4. \A i \in 1 .. n - 1 : Tail(q)[i] = q[i + 1]
  BY <1>2
<1>5. q[1] = NumTasks - n + 1 /\ n \in 1 .. NumTasks
  <2> HIDE DEF n
  <2> QED  BY <1>3
<1>6. ASSUME NEW i \in 1 .. n - 1 PROVE Tail(q)[i] = NumTasks - (n - 1) + i
  <2> HIDE DEF n
  <2>1. i + 1 \in 1 .. n /\ NumTasks - n + (i + 1) = NumTasks - (n - 1) + i
    BY <1>3
  <2> QED  BY <1>3, <1>4, <2>1
<1> QED  BY <1>2, <1>5, <1>6
-----------------------------------------------------------------------------
(* All tasks are in the queue and nobody has begun.                        *)
LEMMA InitIInv == Init => IInv
<1> SUFFICES ASSUME Init PROVE IInv
  OBVIOUS
<1>1. NumTasks \in Nat /\ q = [i \in 1 .. NumTasks |-> i]
  BY WorkersAssumption DEF Init, TaskIds
<1>2. q \in Seq(TaskIds) /\ Len(q) = NumTasks
  BY <1>1 DEF TaskIds
<1>3. Held = {} /\ Waiting = {}
  BY DEF Init, Held, Waiting
<1>4. Cardinality(Held) = 0 /\ Cardinality(Waiting) = 0
  BY <1>3, FS_EmptySet
<1>5. done = <<>> /\ done \in Seq(TaskIds) /\ Len(done) = 0
  BY EmptySeq DEF Init
<1>6. TypeOK
  BY <1>2, <1>4 DEF Init, TypeOK, Waiting
<1>7. OwnerTypes
  BY <1>5 DEF Init, OwnerTypes
<1>8. Exclusion
  BY DEF Init, Exclusion, Inside
<1>9. QueueIsRest
  BY <1>1, <1>2 DEF QueueIsRest
<1>10. TasksPlaced
  BY <1>1, <1>2, <1>3, <1>4, <1>5 DEF Init, TasksPlaced
<1>11. TakenCounted
  BY DEF Init, TakenCounted
<1> QED  BY <1>6, <1>7, <1>8, <1>9, <1>10, <1>11 DEF IInv

(* The types, and the count of the workers that wait.                      *)
LEMMA WorkTypes ==
  ASSUME IInv, NEW w \in Workers, Work(w)
  PROVE  TypeOK' /\ OwnerTypes'
<1> USE DEF Goto
<1>1. TypeOK /\ OwnerTypes /\ QueueIsRest
  BY DEF IInv
<1>2. wait_num = Cardinality(Waiting) /\ Cardinality(Waiting) \in Nat
  BY <1>1, WorkersFinite DEF TypeOK, Waiting
<1>3. w \in Waiting <=> pc[w] \in {"wait", "asleep", "woken"}
  BY DEF Waiting
<1>4. CASE Lock(w)
  <2>1. Waiting' = Waiting \ {w}
    BY <1>1, <1>4 DEF Lock, TypeOK, Waiting
  <2>2. wait_num' = Cardinality(Waiting')
    <3>1. CASE pc[w] = "woken"
      BY <1>2, <1>3, <1>4, <2>1, <3>1, WaitingCounted DEF Lock
    <3>2. CASE pc[w] = "lock"
      BY <1>2, <1>3, <1>4, <2>1, <3>2, WaitingCounted DEF Lock
    <3> QED  BY <1>4, <3>1, <3>2 DEF Lock
  <2> QED  BY <1>1, <1>4, <2>2 DEF Lock, TypeOK, OwnerTypes, Waiting
<1>5. CASE Check(w)
  <2>1. CASE isrunning /\ q = <<>>
    <3>1. Waiting' = Waiting \cup {w} /\ w \notin Waiting
      BY <1>1, <1>5, <2>1 DEF Check, TypeOK, Waiting
    <3>2. wait_num' = Cardinality(Waiting')
      BY <1>2, <1>5, <2>1, <3>1, WaitingCounted DEF Check
    <3> QED  BY <1>1, <1>5, <2>1, <3>2 DEF Check, TypeOK, OwnerTypes, Waiting
  <2>2. CASE ~(isrunning /\ q = <<>>)
    <3>1. Waiting' = Waiting
      BY <1>1, <1>5, <2>2 DEF Check, TypeOK, Waiting
    <3> QED  BY <1>1, <1>5, <2>2, <3>1 DEF Check, TypeOK, OwnerTypes, Waiting
  <2> QED  BY <2>1, <2>2
<1>6. CASE Wait(w)
  <2>1. CASE mutexAlive
    <3>1. Waiting' = Waiting
      BY <1>1, <1>6, <2>1 DEF Wait, TypeOK, Waiting
    <3> QED  BY <1>1, <1>6, <2>1, <3>1 DEF Wait, TypeOK, OwnerTypes, Waiting
  <2>2. CASE ~mutexAlive
    <3>1. Waiting' = Waiting \ {w} /\ w \in Waiting
      BY <1>1, <1>6, <2>2 DEF Wait, TypeOK, Waiting
    <3>2. wait_num' = Cardinality(Waiting')
      BY <1>2, <1>6, <2>2, <3>1, WaitingCounted DEF Wait
    <3> QED  BY <1>1, <1>6, <2>2, <3>2 DEF Wait, TypeOK, OwnerTypes, Waiting
  <2> QED  BY <2>1, <2>2
<1>7. CASE Decide(w)
  <2>1. Waiting' = Waiting
    BY <1>1, <1>7 DEF Decide, TypeOK, Waiting
  <2> QED  BY <1>1, <1>7, <2>1 DEF Decide, TypeOK, OwnerTypes, Waiting
<1>8. CASE CopyFront(w)
  <2>1. Waiting' = Waiting
    BY <1>1, <1>8 DEF CopyFront, TypeOK, Waiting
  <2>2. Head(q) \in TaskIds
    BY <1>1, <1>8, HeadAndRest DEF CopyFront
  <2> QED  BY <1>1, <1>8, <2>1, <2>2 DEF CopyFront, TypeOK, OwnerTypes, Waiting
<1>9. CASE Pop(w)
  <2>1. Waiting' = Waiting
    BY <1>1, <1>9, PopSignals DEF Waiting, Awakened
  <2>2. Tail(q) \in Seq(TaskIds)
    BY <1>1, <1>9, HeadAndRest DEF Pop
  <2>3. /\ pc' \in [Workers -> States]
        /\ \A u \in Workers : pc'[u] \in {"pop", "running"} => pc[u] \in {"pop", "running"}
    BY <1>1, <1>9, PopSignals DEF Awakened
  <2> QED  BY <1>1, <1>9, <2>1, <2>2, <2>3 DEF Pop, TypeOK, OwnerTypes, Waiting, States
<1>10. CASE Crash(w)
  BY <1>1, <1>10 DEF Crash, workerVars, TypeOK, OwnerTypes
<1>11. CASE Run(w)
  <2>1. Waiting' = Waiting
    BY <1>1, <1>11 DEF Run, TypeOK, Waiting
  <2>2. job[w] \in TaskIds
    BY <1>1, <1>11 DEF Run, OwnerTypes
  <2>3. done' \in Seq(TaskIds)
    BY <1>1, <1>11, <2>2, AppendProperties DEF Run, OwnerTypes
  <2> QED  BY <1>1, <1>11, <2>1, <2>3 DEF Run, TypeOK, OwnerTypes, Waiting
<1> QED  BY <1>4, <1>5, <1>6, <1>7, <1>8, <1>9, <1>10, <1>11 DEF Work

(* A worker enters where nobody is, or where there is no mutex; and after  *)
(* quit() it goes from its check to the end, not to the queue.             *)
LEMMA WorkExcludes ==
  ASSUME IInv, NEW w \in Workers, Work(w)
  PROVE  Exclusion'
<1> USE DEF Goto, Inside
<1>1. TypeOK /\ Exclusion
  BY DEF IInv
<1>2. CASE Lock(w)
  BY <1>1, <1>2 DEF Lock, TypeOK, Exclusion
<1>3. CASE Check(w)
  <2>1. UNCHANGED <<holders, mutexAlive, isquit, owner>> /\ w \in holders
    BY <1>1, <1>3 DEF Check, Exclusion
  <2>2. pc'[w] \in {"wait", "decide"} /\ \A u \in Workers \ {w} : pc'[u] = pc[u]
    BY <1>1, <1>3 DEF Check, TypeOK
  <2> QED  BY <1>1, <2>1, <2>2 DEF Exclusion
<1>4. CASE Wait(w)
  <2>1. UNCHANGED <<mutexAlive, isquit, owner>> /\ \A u \in Workers \ {w} : pc'[u] = pc[u]
    BY <1>1, <1>4 DEF Wait, TypeOK
  <2>2. \/ pc'[w] = "asleep" /\ holders' = holders \ {w}
        \/ pc'[w] = "check" /\ holders' = holders /\ w \in holders
    BY <1>1, <1>4 DEF Wait, TypeOK, Exclusion
  <2> QED  BY <1>1, <2>1, <2>2 DEF Exclusion
<1>5. CASE Decide(w)
  <2>1. UNCHANGED <<mutexAlive, isquit, owner>> /\ \A u \in Workers \ {w} : pc'[u] = pc[u]
    BY <1>1, <1>5 DEF Decide, TypeOK
  <2>2. \/ pc'[w] = "exited" /\ holders' = holders \ {w}
        \/ pc'[w] = "front" /\ ~isquit /\ holders' = holders /\ w \in holders
    BY <1>1, <1>5 DEF Decide, TypeOK, Exclusion
  <2> QED  BY <1>1, <2>1, <2>2 DEF Exclusion
<1>6. CASE CopyFront(w)
  BY <1>1, <1>6 DEF CopyFront, TypeOK, Exclusion
<1>7. CASE Pop(w)
  BY <1>1, <1>7, PopSignals DEF Pop, Awakened, Exclusion
<1>8. CASE Crash(w)
  BY <1>1, <1>8 DEF Crash, workerVars, Exclusion
<1>9. CASE Run(w)
  BY <1>1, <1>9 DEF Run, TypeOK, Exclusion
<1> QED  BY <1>2, <1>3, <1>4, <1>5, <1>6, <1>7, <1>8, <1>9 DEF Work

(* While the mutex lives, or once quit() has been called, the worker that  *)
(* copies or takes a task is the only one that does.                       *)
LEMMA TakesAlone ==
  ASSUME Exclusion, mutexAlive \/ isquit,
         NEW w \in Workers, pc[w] \in {"front", "pop"},
         NEW u \in Workers, pc[u] \in {"front", "pop"}
  PROVE  u = w
BY DEF Exclusion, Inside

(* The steps that touch neither the queue nor anybody's task.              *)
LEMMA TasksStay ==
  ASSUME IInv, UNCHANGED <<q, isquit, job, done, takenAfterQuit>>,
         mutexAlive' => mutexAlive \/ isquit,
         \A u \in Workers : /\ pc'[u] = "pop" <=> pc[u] = "pop"
                            /\ pc'[u] = "running" <=> pc[u] = "running"
                            /\ pc'[u] = "front" => pc[u] = "front" \/ ~isquit
  PROVE  QueueIsRest' /\ TasksPlaced' /\ TakenCounted'
<1>1. Held' = Held
  BY DEF Held
<1>2. QueueIsRest'
  BY DEF IInv, QueueIsRest
<1>3. TasksPlaced'
  BY <1>1 DEF IInv, TasksPlaced
<1>4. TakenCounted'
  BY DEF IInv, TakenCounted
<1> QED  BY <1>2, <1>3, <1>4

(* front() copies the head, which stays where it is.                       *)
LEMMA CopyKeepsTasks ==
  ASSUME IInv, NEW w \in Workers, CopyFront(w)
  PROVE  QueueIsRest' /\ TasksPlaced' /\ TakenCounted'
<1> USE DEF Goto
<1>1. /\ TypeOK /\ QueueIsRest /\ TasksPlaced /\ TakenCounted
      /\ UNCHANGED <<q, isquit, mutexAlive, done, takenAfterQuit>>
  BY DEF IInv, CopyFront
<1>2. /\ Head(q) = NumTasks - Len(q) + 1 /\ q # <<>>
  BY <1>1, HeadAndRest DEF CopyFront
<1>3. /\ pc[w] = "front" /\ pc'[w] = "pop" /\ job'[w] = Head(q)
      /\ \A u \in Workers \ {w} : pc'[u] = pc[u] /\ job'[u] = job[u]
  BY <1>1 DEF CopyFront, TypeOK
<1>4. Held' = Held /\ w \notin Held /\ Held \subseteq Workers
  BY <1>3 DEF Held
<1>5. QueueIsRest' /\ TakenCounted'
  BY <1>1, <1>3 DEF QueueIsRest, TakenCounted
<1>6. \A u \in Held : job'[u] = job[u]
  BY <1>3, <1>4
<1>7. TasksPlaced'
  BY <1>1, <1>2, <1>3, <1>4, <1>6 DEF TasksPlaced
<1> QED  BY <1>5, <1>7

(* pop() hands the head to the worker that has copied it.                  *)
LEMMA PopKeepsTasks ==
  ASSUME IInv, NEW w \in Workers, Pop(w)
  PROVE  QueueIsRest' /\ TasksPlaced' /\ TakenCounted'
<1>1. /\ TypeOK /\ Exclusion /\ QueueIsRest /\ TasksPlaced /\ TakenCounted
      /\ UNCHANGED <<isquit, job, mutexAlive, done>> /\ q' = Tail(q) /\ q # <<>>
  BY DEF IInv, Pop
<1>2. /\ pc[w] = "pop" /\ pc'[w] = "running" /\ Awakened(pc', w)
  BY <1>1, PopSignals
<1> DEFINE n == Len(q)
           n1 == Len(q')
           d == Len(done)
           h == Cardinality(Held)
<1>3. /\ n \in 1 .. NumTasks /\ n1 = n - 1 /\ \A i \in 1 .. n - 1 : q'[i] = NumTasks - (n - 1) + i
  BY <1>1, HeadAndRest
<1>4. NumTasks \in Nat /\ d \in Nat /\ h \in Nat /\ done \in Seq(TaskIds)
  BY LenProperties, WorkersAssumption, WorkersFinite DEF IInv, OwnerTypes
<1>5. Held' = Held \cup {w} /\ w \notin Held /\ Held \subseteq Workers
  BY <1>2 DEF Held, Awakened
<1>6. Cardinality(Held') = h + 1
  BY <1>5, WorkersFinite, FS_AddElement
<1>7. QueueIsRest'
  <2> HIDE DEF n
  <2>1. n1 <= NumTasks /\ \A i \in 1 .. n1 : q'[i] = NumTasks - n1 + i
    BY <1>3, <1>4
  <2> QED  BY <2>1 DEF QueueIsRest
<1>8. TakenCounted'
  <2>1. CASE ~isquit
    BY <1>1, <2>1 DEF Pop, TakenCounted
  <2>2. CASE isquit
    <3>1. takenAfterQuit = 0 /\ takenAfterQuit' = 1
      BY <1>1, <1>2, <2>2 DEF Pop, TakenCounted
    <3>2. \A u \in Workers : pc'[u] \notin {"front", "pop"}
      BY <1>1, <1>2, <2>2, TakesAlone DEF Awakened
    <3> QED  BY <1>1, <2>2, <3>1, <3>2 DEF TakenCounted
  <2> QED  BY <2>1, <2>2
<1>9. ASSUME mutexAlive \/ isquit
      PROVE  TasksPlaced'
  <2>1. \A u \in Workers : pc'[u] # "pop"
    BY <1>1, <1>2, <1>9, TakesAlone DEF Awakened
  <2>2. /\ job[w] = NumTasks - n + 1
        /\ \A u \in Held : job[u] \in 1 .. NumTasks - n
        /\ \A u, v \in Held : u # v => job[u] # job[v]
        /\ \A i \in 1 .. d : done[i] <= NumTasks - n
        /\ \A u \in Held, i \in 1 .. d : job[u] # done[i]
        /\ \A i, j \in 1 .. d : i # j => done[i] # done[j]
        /\ n + h + d = NumTasks
    BY <1>1, <1>2, <1>9 DEF TasksPlaced
  <2>3. \A i \in 1 .. d : done[i] \in Nat
    BY <1>4, ElementOfSeq DEF TaskIds
  <2> HIDE DEF n, d, h, n1
  <2>4. /\ \A u \in Held \cup {w} : job[u] \in 1 .. NumTasks - n1
        /\ \A i \in 1 .. d : done[i] <= NumTasks - n1
        /\ n1 + (h + 1) + d = NumTasks
    BY <1>3, <1>4, <2>2, <2>3
  <2>5. \A u \in Held : job[u] # job[w]
    BY <1>3, <1>4, <2>2
  <2>6. \A i \in 1 .. d : job[w] # done[i]
    BY <1>3, <1>4, <2>2, <2>3
  <2>7. /\ \A u, v \in Held' : u # v => job'[u] # job'[v]
        /\ \A u \in Held', i \in 1 .. d : job'[u] # done[i]
        /\ \A u \in Held' : job'[u] \in 1 .. NumTasks - n1
    BY <1>1, <1>5, <2>2, <2>4, <2>5, <2>6
  <2>8. n1 + Cardinality(Held') + d = NumTasks
    BY <1>6, <2>4
  <2> QED  BY <1>1, <2>1, <2>2, <2>4, <2>7, <2>8 DEF TasksPlaced, n1, d
<1> QED  BY <1>1, <1>7, <1>8, <1>9 DEF TasksPlaced

(* A task that ends goes from its worker to those that are done.           *)
LEMMA RunKeepsTasks ==
  ASSUME IInv, NEW w \in Workers, Run(w)
  PROVE  QueueIsRest' /\ TasksPlaced' /\ TakenCounted'
<1> USE DEF Goto
<1>1. /\ TypeOK /\ OwnerTypes /\ QueueIsRest /\ TasksPlaced /\ TakenCounted
      /\ UNCHANGED <<q, isquit, mutexAlive, takenAfterQuit>> /\ done' = Append(done, job[w])
  BY DEF IInv, Run
<1>2. /\ pc[w] = "running" /\ pc'[w] = "lock"
      /\ \A u \in Workers \ {w} : pc'[u] = pc[u] /\ job'[u] = job[u]
  BY <1>1 DEF Run, TypeOK
<1> DEFINE n == Len(q)
           d == Len(done)
           h == Cardinality(Held)
<1>3. NumTasks \in Nat /\ n \in Nat /\ d \in Nat /\ h \in Nat /\ done \in Seq(TaskIds)
  BY <1>1, LenProperties, WorkersAssumption, WorkersFinite DEF TypeOK, OwnerTypes
<1>4. Held' = Held \ {w} /\ w \in Held /\ Held \subseteq Workers
  BY <1>2 DEF Held
<1>5. Cardinality(Held') = h - 1
  BY <1>4, WorkersFinite, FS_RemoveElement
<1>6. job[w] \in TaskIds
  BY <1>1, <1>2 DEF OwnerTypes
<1>7. Len(done') = d + 1 /\ done'[d + 1] = job[w] /\ \A i \in 1 .. d : done'[i] = done[i]
  BY <1>1, <1>3, <1>6, AppendProperties
<1>8. QueueIsRest' /\ TakenCounted'
  BY <1>1, <1>2 DEF QueueIsRest, TakenCounted
<1>9. ASSUME mutexAlive \/ isquit
      PROVE  TasksPlaced'
  <2>1. /\ \A u \in Workers : pc[u] = "pop" => q # <<>> /\ job[u] = NumTasks - n + 1
        /\ \A u \in Held : job[u] \in 1 .. NumTasks - n
        /\ \A u, v \in Held : u # v => job[u] # job[v]
        /\ \A i \in 1 .. d : done[i] <= NumTasks - n
        /\ \A u \in Held, i \in 1 .. d : job[u] # done[i]
        /\ \A i, j \in 1 .. d : i # j => done[i] # done[j]
        /\ n + h + d = NumTasks
    BY <1>1, <1>9 DEF TasksPlaced
  <2> DEFINE d1 == Len(done')
  <2>2. d1 = d + 1
    BY <1>7
  <2> HIDE DEF n, d, h, d1
  <2>3. \A i \in 1 .. d1 : i \in 1 .. d \/ i = d + 1
    BY <1>3, <2>2
  <2>4. \A u \in Workers : pc'[u] = "pop" => q # <<>> /\ job'[u] = NumTasks - n + 1
    BY <1>2, <2>1
  <2>5. \A u \in Held' : u \in Held /\ u # w /\ job'[u] = job[u]
    BY <1>2, <1>4
  <2>6. \A u \in Held', i \in 1 .. d1 : job'[u] # done'[i]
    BY <1>4, <1>7, <2>1, <2>3, <2>5
  <2>7. \A i \in 1 .. d1 : done'[i] <= NumTasks - n
    BY <1>3, <1>4, <1>7, <2>1, <2>3
  <2>8. \A i, j \in 1 .. d1 : i # j => done'[i] # done'[j]
    BY <1>4, <1>7, <2>1, <2>3
  <2>9. n + Cardinality(Held') + d1 = NumTasks
    BY <1>3, <1>5, <2>1, <2>2
  <2> QED  BY <1>1, <2>1, <2>4, <2>5, <2>6, <2>7, <2>8, <2>9 DEF TasksPlaced, n, d1
<1> QED  BY <1>1, <1>8, <1>9 DEF TasksPlaced

(* The workers' steps.                                                     *)
LEMMA WorkStep ==
  ASSUME IInv, NEW w \in Workers, Work(w)
  PROVE  IInv'
<1>1. TypeOK /\ TypeOK' /\ OwnerTypes' /\ Exclusion'
  BY WorkTypes, WorkExcludes DEF IInv
<1>2. QueueIsRest' /\ TasksPlaced' /\ TakenCounted'
  <2> USE <1>1 DEF Goto
  <2>1. CASE Lock(w)
    BY <2>1, TasksStay DEF Lock, TypeOK
  <2>2. CASE Check(w)
    BY <2>2, TasksStay DEF Check, TypeOK
  <2>3. CASE Wait(w)
    BY <2>3, TasksStay DEF Wait, TypeOK
  <2>4. CASE Decide(w)
    BY <2>4, TasksStay DEF Decide, TypeOK
  <2>5. CASE Crash(w)
    BY <2>5, TasksStay DEF Crash, workerVars
  <2> QED  BY <2>1, <2>2, <2>3, <2>4, <2>5, CopyKeepsTasks, PopKeepsTasks, RunKeepsTasks DEF Work
<1> QED  BY <1>1, <1>2 DEF IInv

(* The steps that leave every worker's place, the critical section and the *)
(* mutex as they are.                                                      *)
LEMMA OwnerGoesOn ==
  ASSUME IInv, UNCHANGED <<q, isquit, pc, job, holders, wait_num, mutexAlive, done, takenAfterQuit>>,
         isrunning' \in BOOLEAN, owner' \in {"starting", "started", "stopping", "quitting",
                                             "joining", "joined"},
         ~mutexAlive => owner' \in {"destroyCond", "joining", "joined"}
  PROVE  IInv'
<1>1. TypeOK' /\ OwnerTypes' /\ Exclusion'
  BY DEF IInv, TypeOK, OwnerTypes, Exclusion
<1>2. QueueIsRest' /\ TasksPlaced' /\ TakenCounted'
  BY TasksStay DEF IInv
<1> QED  BY <1>1, <1>2 DEF IInv

(* The end of stop() and of quit(): whom a broadcast wakes.                *)
LEMMA OwnerWakes ==
  ASSUME IInv, UNCHANGED <<q, isrunning, isquit, wait_num, job, holders, mutexAlive, done,
                           takenAfterQuit>>,
         mutexAlive, owner' = "started", pc' \in {pc, Woken(pc)}
  PROVE  IInv'
<1>1. TypeOK /\ OwnerTypes /\ Exclusion
  BY DEF IInv
<1>2. /\ pc' \in [Workers -> States]
      /\ \A u \in Workers : pc'[u] = pc[u] \/ (pc[u] = "asleep" /\ pc'[u] = "woken")
  BY <1>1, BroadcastWakes DEF TypeOK, States
<1>3. Waiting' = Waiting
  BY <1>2 DEF Waiting
<1>4. TypeOK' /\ OwnerTypes'
  BY <1>1, <1>2, <1>3 DEF TypeOK, OwnerTypes, Waiting, States
<1>5. Exclusion'
  BY <1>1, <1>2 DEF Exclusion, Inside
<1>6. QueueIsRest' /\ TasksPlaced' /\ TakenCounted'
  BY <1>2, TasksStay
<1> QED  BY <1>4, <1>5, <1>6 DEF IInv

(* A spurious wakeup moves one sleeper to where it locks the mutex again.  *)
LEMMA SpuriousStep ==
  ASSUME IInv, NEW w \in Workers, WakeSpuriously(w)
  PROVE  IInv'
<1>1. TypeOK /\ OwnerTypes /\ Exclusion
  BY DEF IInv
<1>2. /\ pc[w] = "asleep" /\ pc'[w] = "woken" /\ pc' \in [Workers -> States]
      /\ \A u \in Workers \ {w} : pc'[u] = pc[u]
      /\ UNCHANGED <<q, isrunning, isquit, wait_num, job, holders, mutexAlive, owner, done,
                     takenAfterQuit>>
  BY <1>1 DEF WakeSpuriously, Goto, TypeOK, States
<1>3. Waiting' = Waiting
  BY <1>2 DEF Waiting
<1>4. TypeOK' /\ OwnerTypes'
  BY <1>1, <1>2, <1>3 DEF TypeOK, OwnerTypes, Waiting, States
<1>5. Exclusion'
  BY <1>1, <1>2 DEF Exclusion, Inside
<1>6. QueueIsRest' /\ TasksPlaced' /\ TakenCounted'
  BY <1>2, TasksStay
<1> QED  BY <1>4, <1>5, <1>6 DEF IInv

(* The owner's steps: start, stop, quit and the destructor.                *)
LEMMA OwnerStep ==
  ASSUME IInv, Owner
  PROVE  IInv'
<1> USE DEF OwnerAt, workerVars
<1>1. TypeOK /\ OwnerTypes /\ Exclusion
  BY DEF IInv
<1>2. owner \notin {"destroyCond", "joining", "joined"} => mutexAlive
  BY <1>1 DEF OwnerTypes, Exclusion
<1>3. CASE Start
  BY <1>2, <1>3, OwnerGoesOn DEF Start
<1>4. ASSUME NEW w \in Workers, Spawn(w)
      PROVE  IInv'
  <2>1. /\ pc[w] = "new" /\ pc' = [pc EXCEPT ![w] = "lock"] /\ owner' \in {"starting", "started"}
        /\ UNCHANGED <<q, isrunning, isquit, wait_num, job, holders, mutexAlive, done,
                       takenAfterQuit>>
        /\ mutexAlive
    BY <1>2, <1>4 DEF Spawn, Goto
  <2>2. pc'[w] = "lock" /\ \A u \in Workers \ {w} : pc'[u] = pc[u]
    BY <1>1, <2>1 DEF TypeOK
  <2>3. Waiting' = Waiting
    BY <2>1, <2>2 DEF Waiting
  <2>4. TypeOK' /\ OwnerTypes'
    BY <1>1, <2>1, <2>2, <2>3 DEF TypeOK, OwnerTypes, Waiting
  <2>5. Exclusion'
    BY <1>1, <2>1, <2>2 DEF Exclusion, Inside
  <2>6. QueueIsRest' /\ TasksPlaced' /\ TakenCounted'
    BY <2>1, <2>2, TasksStay
  <2> QED  BY <2>4, <2>5, <2>6 DEF IInv
<1>5. CASE StopFlag
  BY <1>2, <1>5, OwnerGoesOn DEF StopFlag
<1>6. CASE StopNotify
  BY <1>2, <1>6, OwnerWakes DEF StopNotify
<1>7. CASE QuitFlag
  <2>1. /\ ~isquit /\ isquit' = TRUE /\ owner' = "quitting" /\ mutexAlive
        /\ UNCHANGED <<q, isrunning, pc, job, holders, wait_num, mutexAlive, done, takenAfterQuit>>
    BY <1>2, <1>7 DEF QuitFlag
  <2>2. TypeOK' /\ OwnerTypes' /\ Exclusion'
    BY <1>1, <2>1 DEF TypeOK, OwnerTypes, Exclusion
  <2>3. Held' = Held
    BY <2>1 DEF Held
  <2>4. QueueIsRest' /\ TasksPlaced' /\ TakenCounted'
    BY <2>1, <2>3 DEF IInv, QueueIsRest, TasksPlaced, TakenCounted
  <2> QED  BY <2>2, <2>4 DEF IInv
<1>8. CASE QuitNotify
  BY <1>2, <1>8, OwnerWakes DEF QuitNotify
<1>9. CASE DestroyMutex
  <2>1. /\ mutexAlive' = (holders # {}) /\ owner' = "destroyCond" /\ mutexAlive
        /\ UNCHANGED <<q, isrunning, isquit, pc, job, holders, wait_num, done, takenAfterQuit>>
    BY <1>2, <1>9 DEF DestroyMutex
  <2>2. TypeOK' /\ OwnerTypes' /\ Exclusion'
    BY <1>1, <2>1 DEF TypeOK, OwnerTypes, Exclusion, Inside
  <2>3. QueueIsRest' /\ TasksPlaced' /\ TakenCounted'
    BY <2>1, TasksStay
  <2> QED  BY <2>2, <2>3 DEF IInv
<1>10. CASE DestroyCond
  BY <1>1, <1>10, OwnerGoesOn DEF DestroyCond, TypeOK, OwnerTypes
<1>11. CASE Join
  BY <1>1, <1>11, OwnerGoesOn DEF Join, TypeOK, OwnerTypes
<1> QED  BY <1>3, <1>4, <1>5, <1>6, <1>7, <1>8, <1>9, <1>10, <1>11 DEF Owner

(* The inductive invariant holds in every reachable state.                 *)
LEMMA Invariance == Spec => []IInv
<1>1. Init => IInv
  BY InitIInv
<1>2. IInv /\ [Next]_vars => IInv'
  <2> SUFFICES ASSUME IInv, [Next]_vars PROVE IInv'
    OBVIOUS
  <2>1. CASE UNCHANGED vars
    <3>1. Held' = Held
      BY <2>1 DEF vars, Held
    <3> QED  BY <2>1, <3>1 DEF vars, IInv, TypeOK, OwnerTypes, Exclusion, QueueIsRest,
               TasksPlaced, TakenCounted
  <2> QED  BY <2>1, WorkStep, SpuriousStep, OwnerStep DEF Next
<1> QED  BY <1>1, <1>2, PTL DEF Spec
-----------------------------------------------------------------------------
(* Threadpool::run and ~Threadpool: no task is lost or run twice, as long  *)
(* as the mutex lives or quit() came before the destructor.                *)
THEOREM EachTaskOnce == Spec => []TasksRunOnce
<1>1. IInv => TasksRunOnce
  <2> SUFFICES ASSUME IInv PROVE TasksRunOnce
    OBVIOUS
  <2>1. TypeOK
    BY DEF IInv
  <2>2. ASSUME mutexAlive \/ isquit, NEW w \in Held, NEW i \in 1 .. Len(q)
        PROVE  job[w] # q[i]
    <3> DEFINE n == Len(q)
    <3>1. n \in Nat /\ NumTasks \in Nat
      BY <2>1, LenProperties, WorkersAssumption DEF TypeOK
    <3>2. job[w] \in 1 .. NumTasks - n /\ q[i] = NumTasks - n + i /\ i \in 1 .. n
      BY <2>2 DEF IInv, TasksPlaced, QueueIsRest
    <3> HIDE DEF n
    <3> QED  BY <3>1, <3>2
  <2> QED  BY <2>1, <2>2 DEF IInv, TasksPlaced, TasksRunOnce, Held
<1> QED  BY <1>1, Invariance, PTL

(* The worker's check of _isquit: only one that had passed it when quit()  *)
(* was called still takes a task.                                          *)
THEOREM QuitIsSeen == Spec => []OneTaskAfterQuit
<1>1. IInv => OneTaskAfterQuit
  BY DEF IInv, TakenCounted, OneTaskAfterQuit
<1> QED  BY <1>1, Invariance, PTL
-----------------------------------------------------------------------------
(* The channels that are created, and what a failed fork leaves.           *)
ChannelsCreated ==
  /\ \A i \in Channels : i >= created => child[i] = "none" /\ pipe[i] = <<>> /\ writers[i] = {}
  /\ failed \subseteq 0 .. created - 1
  /\ \A i \in failed : child[i] = "none"

(* Where the parent is: the destructor runs when all channels are created. *)
ParentStages ==
  /\ parent \in {"sending", "closing", "waiting", "ended"} => created = N
  /\ parent \in {"creating", "sending"} => k = 0
  /\ parent = "waiting" => k < N
  /\ parent = "ended" => k = N

(* The parent's write ends are open while it creates and sends; behind one *)
(* that is open nobody has seen the end of the file; and the destructor    *)
(* has waited for the children that it has passed.                         *)
EndsOfParent ==
  /\ parent \in {"creating", "sending"} =>
       \A i \in Channels : i < created => Parent \in writers[i]
  /\ \A i \in Channels : child[i] \in {"zombie", "reaped"} => Parent \notin writers[i]
  /\ \A i \in Channels : i < k => child[i] \in {"none", "reaped"}

(* The two counters are in step with what was sent, wrapped or not.        *)
CountersInStep == turn % N = sent % N /\ workid % NumWorks = sent % NumWorks

(* The inductive invariant.                                                *)
ProcessIInv == /\ CodesDoneInOrder /\ NoEndLeftOpen
               /\ ChannelsCreated /\ ParentStages /\ EndsOfParent /\ CountersInStep
-----------------------------------------------------------------------------
(* Division with remainder.                                                *)
LEMMA Division ==
  ASSUME NEW d \in Nat \ {0}, NEW n \in Int
  PROVE  n % d \in 0 .. d - 1 /\ n \div d \in Int /\ n = d * (n \div d) + (n % d)
OBVIOUS

(* A greater multiple is greater by at least the divisor.                  *)
LEMMA Multiples ==
  ASSUME NEW d \in Nat \ {0}, NEW m \in Int, NEW n \in Int, m < n
  PROVE  d * m + d <= d * n
<1>1. n - m >= 1
  OBVIOUS
<1>2. d * (n - m) >= d
  BY <1>1
<1> QED  BY <1>2

(* The remainder is the only one.                                          *)
LEMMA Remainder ==
  ASSUME NEW d \in Nat \ {0}, NEW n \in Int, NEW c \in Int, NEW r \in 0 .. d - 1, n = d * c + r
  PROVE  n % d = r /\ n \div d = c
<1> DEFINE p == n \div d  m == n % d
<1>1. p \in Int /\ m \in 0 .. d - 1 /\ n = d * p + m
  BY Division
<1> HIDE DEF p, m
<1>2. d * p \in Int /\ d * c \in Int
  BY <1>1
<1>3. ~(p < c)
  BY <1>1, <1>2, Multiples
<1>4. ~(c < p)
  BY <1>1, <1>2, Multiples
<1>5. p = c
  BY <1>1, <1>3, <1>4
<1>6. m = r
  BY <1>1, <1>2, <1>5
<1> QED  BY <1>5, <1>6 DEF p, m

(* The next number has the remainder that follows, also after a wrap.      *)
LEMMA NextRemainder ==
  ASSUME NEW d \in Nat \ {0}, NEW n \in Int
  PROVE  ((n % d) + 1) % d = (n + 1) % d
<1> DEFINE p == n \div d  m == n % d
<1>1. p \in Int /\ m \in 0 .. d - 1 /\ n = d * p + m
  BY Division
<1> HIDE DEF p, m
<1>2. d * p \in Int /\ d * (p + 1) = d * p + d
  BY <1>1
<1>3. CASE m + 1 < d
  <2>1. m + 1 \in Int /\ m + 1 \in 0 .. d - 1 /\ m + 1 = d * 0 + (m + 1)
    BY <1>1, <1>3
  <2>2. (m + 1) % d = m + 1
    BY <2>1, Remainder
  <2>3. n + 1 \in Int /\ n + 1 = d * p + (m + 1)
    BY <1>1, <1>2
  <2>4. (n + 1) % d = m + 1
    BY <1>1, <2>1, <2>3, Remainder
  <2> QED  BY <2>2, <2>4 DEF m
<1>4. CASE m + 1 = d
  <2>1. m + 1 \in Int /\ 0 \in 0 .. d - 1 /\ m + 1 = d * 1 + 0
    BY <1>1, <1>4
  <2>2. (m + 1) % d = 0
    BY <2>1, Remainder
  <2>3. n + 1 \in Int /\ p + 1 \in Int /\ n + 1 = d * (p + 1) + 0
    BY <1>1, <1>2, <1>4
  <2>4. (n + 1) % d = 0
    BY <2>1, <2>3, Remainder
  <2> QED  BY <2>2, <2>4 DEF m
<1> QED  BY <1>1, <1>3, <1>4

(* The m-th code is the next of the child it goes to, and of no other: of  *)
(* the numbers i, i + N, i + 2N ... less than n there are l.               *)
LEMMA WhoseTurn ==
  ASSUME NEW i \in Channels, NEW l \in Nat, NEW n \in Nat, i + N * l \in n .. n + N - 1
  PROVE  /\ N * l \in Nat /\ N * (l + 1) = N * l + N
         /\ i + N * l = n <=> i = n % N
<1> USE SizesAssumption DEF Channels
<1>1. N * l \in Nat /\ N * (l + 1) = N * l + N
  OBVIOUS
<1> DEFINE c == n \div N  r == n % N
<1>2. c \in Int /\ r \in 0 .. N - 1 /\ n = N * c + r
  BY Division
<1>3. ASSUME i + N * l = n PROVE i = r
  <2>1. n \in Int /\ l \in Int /\ i \in 0 .. N - 1 /\ n = N * l + i
    BY <1>1, <1>3
  <2> QED  BY <2>1, Remainder
<1> HIDE DEF c, r
<1>4. ASSUME i = r PROVE i + N * l = n
  <2>1. N * c \in Int
    BY <1>2
  <2>2. ~(l < c)
    BY <1>1, <1>2, <1>4, <2>1, Multiples
  <2>3. ~(c < l)
    BY <1>1, <1>2, <1>4, <2>1, Multiples
  <2> QED  BY <1>2, <1>4, <2>2, <2>3
<1> QED  BY <1>1, <1>3, <1>4 DEF r
-----------------------------------------------------------------------------
(* There is no child and no code at first.                                 *)
LEMMA ProcessInitIInv == ProcessInit => ProcessIInv
<1> SUFFICES ASSUME ProcessInit PROVE ProcessIInv
  OBVIOUS
<1> USE SizesAssumption DEF ProcessInit
<1>1. ProcessTypeOK
  BY DEF ProcessTypeOK, Channels
<1>2. ASSUME NEW i \in Channels
      PROVE  /\ \A n \in 1 .. Len(CodesOf(i)) : CodesOf(i)[n] = (i + N * (n - 1)) % NumWorks
             /\ i + N * Len(CodesOf(i)) \in sent .. sent + N - 1
             /\ child[i] \in {"zombie", "reaped"} => pipe[i] = <<>>
  <2>1. CodesOf(i) = <<>>
    BY DEF CodesOf
  <2>2. Len(CodesOf(i)) = 0 /\ i + N * 0 = i /\ i \in 0 .. N - 1
    BY <2>1 DEF Channels
  <2> QED  BY <2>2
<1>3. CodesDoneInOrder
  BY <1>1, <1>2 DEF CodesDoneInOrder
<1> QED  BY <1>3 DEF ProcessIInv, NoEndLeftOpen, ChannelsCreated, ParentStages, EndsOfParent,
                     CountersInStep, Channels

(* The parent is none of the children.                                     *)
LEMMA ParentApart == Parent \notin Channels /\ Channels \subseteq Int
BY SizesAssumption DEF Parent, Channels

(* Appending to the second of two sequences appends to both.               *)
LEMMA AppendConcat ==
  ASSUME NEW S, NEW x \in Seq(S), NEW y \in Seq(S), NEW c \in S
  PROVE  x \o Append(y, c) = Append(x \o y, c)
OBVIOUS

(* What leaves the codes and the counters alone, and sends no child that   *)
(* has something left to its end, keeps them in order.                     *)
LEMMA OrderKept ==
  ASSUME ProcessIInv, ProcessTypeOK', UNCHANGED <<pipe, worked, sendVars>>,
         \A i \in Channels : child'[i] \in {"zombie", "reaped"} =>
                               child[i] \in {"zombie", "reaped"} \/ pipe[i] = <<>>
  PROVE  CodesDoneInOrder' /\ CountersInStep'
BY DEF ProcessIInv, CodesDoneInOrder, CountersInStep, CodesOf, sendVars

(* Creating: a fork gives the child all ends that the parent has.          *)
LEMMA CreateStep ==
  ASSUME ProcessIInv, Fork \/ ForkFails \/ PipeFails \/ CreateDone
  PROVE  ProcessIInv'
<1> USE SizesAssumption, ParentApart
<1> USE DEF ProcessIInv, CodesDoneInOrder, ProcessTypeOK, sendVars, poolVars
<1>1. ASSUME NEW i \in Channels
      PROVE  /\ Fork => writers'[i] = IF i = created THEN {Parent, created}
                                      ELSE IF Parent \in writers[i] THEN writers[i] \cup {created}
                                      ELSE writers[i]
             /\ ForkFails => writers'[i] = IF i = created THEN {Parent} ELSE writers[i]
             /\ PipeFails => writers'[i] = writers[i] \ {Parent}
             /\ CreateDone => writers'[i] = writers[i]
  <2>1. Fork => writers'[i] = IF i = created THEN {Parent, created}
                              ELSE IF Parent \in writers[i] THEN writers[i] \cup {created}
                              ELSE writers[i]
    BY DEF Fork
  <2>2. ForkFails => writers'[i] = IF i = created THEN {Parent} ELSE writers[i]
    BY DEF ForkFails
  <2>3. PipeFails => writers'[i] = writers[i] \ {Parent}
    BY DEF PipeFails, CloseAll
  <2>4. CreateDone => writers'[i] = writers[i]
    BY DEF CreateDone
  <2> QED  BY <2>1, <2>2, <2>3, <2>4
<1>2. DOMAIN writers' = Channels /\ writers' = [i \in Channels |-> writers'[i]]
  BY DEF Fork, ForkFails, PipeFails, CreateDone, CloseAll
<1>3. created < N => created \in Channels
  BY DEF Channels
<1>4. writers' \in [Channels -> SUBSET (Channels \cup {Parent})]
  <2>1. ASSUME NEW i \in Channels PROVE writers'[i] \subseteq Channels \cup {Parent}
    <3>1. writers[i] \subseteq Channels \cup {Parent}
      OBVIOUS
    <3>2. Fork \/ ForkFails => created \in Channels
      BY <1>3 DEF Fork, ForkFails
    <3>3. i # created => writers'[i] \subseteq writers[i] \cup {created}
      BY <1>1
    <3>4. i = created /\ (Fork \/ ForkFails) => writers'[i] \subseteq {Parent, created}
      <4>1. i = created /\ Fork => writers'[i] = {Parent, created}
        BY <1>1
      <4>2. i = created /\ ForkFails => writers'[i] = {Parent}
        BY <1>1
      <4> QED  BY <4>1, <4>2
    <3>5. ~(Fork \/ ForkFails) => writers'[i] \subseteq writers[i]
      BY <1>1
    <3>6. Fork \/ ForkFails => writers'[i] \subseteq writers[i] \cup {Parent, created}
      BY <3>3, <3>4
    <3> QED  BY <3>1, <3>2, <3>5, <3>6
  <2> QED  BY <1>2, <2>1
<1>5. ProcessTypeOK'
  <2>1. CASE Fork
    BY <1>3, <1>4, <2>1 DEF Fork
  <2>2. CASE ForkFails
    BY <1>3, <1>4, <2>2 DEF ForkFails
  <2>3. CASE PipeFails \/ CreateDone
    BY <1>4, <2>3 DEF PipeFails, CreateDone
  <2> QED  BY <2>1, <2>2, <2>3
<1>6. CodesDoneInOrder' /\ CountersInStep'
  <2>1. UNCHANGED <<pipe, worked, sendVars>>
    BY DEF Fork, ForkFails, PipeFails, CreateDone
  <2>2. \A i \in Channels : child'[i] \in {"zombie", "reaped"} => child[i] \in {"zombie", "reaped"}
    BY DEF Fork, ForkFails, PipeFails, CreateDone
  <2> QED  BY <1>5, <2>1, <2>2, OrderKept
<1> USE DEF NoEndLeftOpen, NotClosedYet, ChannelsCreated, ParentStages, EndsOfParent
<1>7. CASE Fork
  <2> HIDE DEF ProcessIInv, CodesDoneInOrder, ProcessTypeOK
  <2>a. \A i \in Channels : writers'[i] = IF i = created THEN {Parent, created}
                                              ELSE IF Parent \in writers[i]
                                              THEN writers[i] \cup {created} ELSE writers[i]
    BY <1>1, <1>7
  <2>b. \A i \in Channels : i = created \/ Parent \in writers[i] => Parent \in writers'[i]
    BY <2>a
  <2> USE <1>7 DEF Fork
  <2>0. /\ created \in Channels /\ created' = created + 1 /\ created \in Nat
        /\ \A i \in Channels : i \in Int /\ (i >= created' <=> i >= created /\ i # created)
        /\ child' = [child EXCEPT ![created] = "booting"] /\ DOMAIN child = Channels
        /\ NoEndLeftOpen /\ ChannelsCreated /\ ParentStages /\ EndsOfParent
    BY <1>3 DEF ProcessIInv, CodesDoneInOrder, ProcessTypeOK
  <2>1. NoEndLeftOpen'
    BY <2>a, <2>0 DEF NoEndLeftOpen, NotClosedYet
  <2>2. ChannelsCreated'
    <3>1. \A i \in Channels : i >= created' => child'[i] = "none" /\ pipe'[i] = <<>> /\ writers'[i] = {}
      BY <2>a, <2>0 DEF ChannelsCreated
    <3>2. failed' \subseteq 0 .. created' - 1
      BY <2>0 DEF ChannelsCreated
    <3>3. \A i \in failed' : child'[i] = "none"
      BY <2>0 DEF ChannelsCreated
    <3> QED  BY <3>1, <3>2, <3>3 DEF ChannelsCreated
  <2>3. ParentStages'
    BY <2>0 DEF ParentStages
  <2>4. EndsOfParent'
    <3>1. \A i \in Channels : i < created' => i < created \/ i = created
      BY <2>0
    <3>2. \A i \in Channels : i < created' => Parent \in writers'[i]
      <4> SUFFICES ASSUME NEW i \in Channels, i < created' PROVE Parent \in writers'[i]
        OBVIOUS
      <4>1. CASE i = created
        BY <2>b, <4>1
      <4>2. CASE i < created /\ i # created
        <5>1. Parent \in writers[i]
          BY <2>0, <4>2 DEF EndsOfParent
        <5> QED  BY <2>b, <5>1
      <4> QED  BY <2>0, <3>1, <4>1, <4>2
    <3>3. \A i \in Channels : child'[i] \in {"zombie", "reaped"} => i # created /\ Parent \notin writers'[i]
      BY <2>a, <2>0 DEF EndsOfParent, ChannelsCreated
    <3>4. k' = 0 /\ \A i \in Channels : ~(i < 0)
      BY <2>0 DEF ParentStages, Channels
    <3> QED  BY <3>2, <3>3, <3>4 DEF EndsOfParent
  <2> QED  BY <1>6, <2>1, <2>2, <2>3, <2>4 DEF ProcessIInv
<1>8. CASE ForkFails
  <2> HIDE DEF ProcessIInv, CodesDoneInOrder, ProcessTypeOK
  <2>a. \A i \in Channels : writers'[i] = IF i = created THEN {Parent} ELSE writers[i]
    BY <1>1, <1>8
  <2>b. \A i \in Channels : i = created \/ Parent \in writers[i] => Parent \in writers'[i]
    BY <2>a
  <2> USE <1>8 DEF ForkFails
  <2>0. /\ created \in Channels /\ created' = created + 1 /\ created \in Nat
        /\ \A i \in Channels : i \in Int /\ (i >= created' <=> i >= created /\ i # created)
        /\ NoEndLeftOpen /\ ChannelsCreated /\ ParentStages /\ EndsOfParent
    BY <1>3 DEF ProcessIInv, CodesDoneInOrder, ProcessTypeOK
  <2>1. NoEndLeftOpen'
    BY <2>a, <2>0 DEF NoEndLeftOpen, NotClosedYet
  <2>2. ChannelsCreated'
    <3>1. \A i \in Channels : i >= created' => child'[i] = "none" /\ pipe'[i] = <<>> /\ writers'[i] = {}
      BY <2>a, <2>0 DEF ChannelsCreated
    <3>2. failed' \subseteq 0 .. created' - 1
      BY <2>0 DEF ChannelsCreated
    <3>3. \A i \in failed' : child'[i] = "none"
      BY <2>0 DEF ChannelsCreated
    <3> QED  BY <3>1, <3>2, <3>3 DEF ChannelsCreated
  <2>3. ParentStages'
    BY <2>0 DEF ParentStages
  <2>4. EndsOfParent'
    <3>1. \A i \in Channels : i < created' => i < created \/ i = created
      BY <2>0
    <3>2. \A i \in Channels : i < created' => Parent \in writers'[i]
      <4> SUFFICES ASSUME NEW i \in Channels, i < created' PROVE Parent \in writers'[i]
        OBVIOUS
      <4>1. CASE i = created
        BY <2>b, <4>1
      <4>2. CASE i < created /\ i # created
        <5>1. Parent \in writers[i]
          BY <2>0, <4>2 DEF EndsOfParent
        <5> QED  BY <2>b, <5>1
      <4> QED  BY <2>0, <3>1, <4>1, <4>2
    <3>3. \A i \in Channels : child'[i] \in {"zombie", "reaped"} => i # created /\ Parent \notin writers'[i]
      BY <2>a, <2>0 DEF EndsOfParent, ChannelsCreated
    <3>4. k' = 0 /\ \A i \in Channels : ~(i < 0)
      BY <2>0 DEF ParentStages, Channels
    <3> QED  BY <3>2, <3>3, <3>4 DEF EndsOfParent
  <2> QED  BY <1>6, <2>1, <2>2, <2>3, <2>4 DEF ProcessIInv
<1>9. CASE PipeFails
  BY <1>1, <1>6, <1>9 DEF PipeFails
<1>10. CASE CreateDone
  BY <1>6, <1>10 DEF CreateDone, Channels
<1> QED  BY <1>7, <1>8, <1>9, <1>10

(* A child closes what it has inherited, or ends: then no end is open that *)
(* it holds, and its own pipe is empty and has no writer.                  *)
LEMMA ChildStep ==
  ASSUME ProcessIInv, NEW i \in Channels, Boot(i) \/ EndOfFile(i)
  PROVE  ProcessIInv'
<1> USE SizesAssumption, ParentApart
<1>1. /\ child[i] \in {"booting", "reading"}
      /\ child' = [child EXCEPT ![i] = IF child[i] = "booting" THEN "reading" ELSE "zombie"]
      /\ child[i] = "reading" => pipe[i] = <<>> /\ writers[i] = {}
      /\ \A j \in Channels : writers'[j] = writers[j] \ {i}
      /\ writers' \in [Channels -> SUBSET (Channels \cup {Parent})]
      /\ UNCHANGED <<parent, created, failed, pipe, sendVars, worked, k>>
  BY SMTT(30) DEF Boot, EndOfFile, CloseAll, poolVars, ProcessIInv, CodesDoneInOrder, ProcessTypeOK
<1>2. ProcessTypeOK'
  BY <1>1 DEF ProcessIInv, CodesDoneInOrder, ProcessTypeOK, sendVars
<1>3. /\ DOMAIN child = Channels /\ created \in Int /\ \A j \in Channels : j \in Int
      /\ failed \subseteq Channels
  BY DEF ProcessIInv, CodesDoneInOrder, ProcessTypeOK
<1>4. CodesDoneInOrder' /\ CountersInStep'
  <2>1. \A j \in Channels : child'[j] \in {"zombie", "reaped"} =>
                              child[j] \in {"zombie", "reaped"} \/ pipe[j] = <<>>
    BY <1>1, <1>3
  <2> QED  BY <1>1, <1>2, <2>1, OrderKept
<1>5. NoEndLeftOpen'
  BY <1>1, <1>3 DEF ProcessIInv, NoEndLeftOpen, NotClosedYet
<1>6. ChannelsCreated'
  BY <1>1, <1>3 DEF ProcessIInv, ChannelsCreated
<1>7. ParentStages'
  BY <1>1 DEF ProcessIInv, ParentStages
<1>8. EndsOfParent'
  BY <1>1, <1>3 DEF ProcessIInv, EndsOfParent
<1> QED  BY <1>4, <1>5, <1>6, <1>7, <1>8 DEF ProcessIInv

(* What changes only the codes.                                            *)
LEMMA EndsKept ==
  ASSUME ProcessIInv, CodesDoneInOrder', CountersInStep',
         UNCHANGED <<parent, poolVars, child, writers, k>>,
         \A i \in Channels : i >= created => pipe'[i] = pipe[i]
  PROVE  ProcessIInv'
BY DEF ProcessIInv, NoEndLeftOpen, NotClosedYet, ChannelsCreated, ParentStages, EndsOfParent,
       poolVars

(* The first of a sequence becomes the last of another.                    *)
LEMMA Handed ==
  ASSUME NEW S, NEW s \in Seq(S), NEW r \in Seq(S), r # <<>>
  PROVE  /\ Head(r) \in S /\ Tail(r) \in Seq(S) /\ Append(s, Head(r)) \in Seq(S)
         /\ Append(s, Head(r)) \o Tail(r) = s \o r
<1>1. /\ Len(r) \in Nat \ {0} /\ Head(r) = r[1] /\ r[1] \in S /\ Tail(r) \in Seq(S)
      /\ Len(Tail(r)) = Len(r) - 1 /\ \A n \in 1 .. Len(r) - 1 : Tail(r)[n] = r[n + 1]
  BY HeadTailProperties
<1> DEFINE a == Append(s, Head(r))
<1>2. /\ a \in Seq(S) /\ Len(a) = Len(s) + 1 /\ Len(s) \in Nat /\ a[Len(s) + 1] = r[1]
      /\ \A n \in 1 .. Len(s) : a[n] = s[n]
  BY <1>1, AppendProperties
<1> HIDE DEF a
<1>3. /\ a \o Tail(r) \in Seq(S) /\ Len(a \o Tail(r)) = Len(a) + Len(Tail(r))
      /\ \A n \in 1 .. Len(a) + Len(Tail(r)) :
           (a \o Tail(r))[n] = IF n <= Len(a) THEN a[n] ELSE Tail(r)[n - Len(a)]
  BY <1>1, <1>2, ConcatProperties
<1>4. /\ s \o r \in Seq(S) /\ Len(s \o r) = Len(s) + Len(r)
      /\ \A n \in 1 .. Len(s) + Len(r) :
           (s \o r)[n] = IF n <= Len(s) THEN s[n] ELSE r[n - Len(s)]
  BY ConcatProperties
<1>5. ASSUME NEW n \in 1 .. Len(s) + Len(r) PROVE (a \o Tail(r))[n] = (s \o r)[n]
  <2>0. n \in 1 .. Len(a) + Len(Tail(r))
    BY <1>1, <1>2
  <2>1. CASE n <= Len(s)
    BY <1>2, <1>3, <1>4, <2>0, <2>1
  <2>2. CASE n = Len(s) + 1
    BY <1>1, <1>2, <1>3, <1>4, <2>0, <2>2
  <2>3. CASE n > Len(s) + 1
    BY <1>1, <1>2, <1>3, <1>4, <2>0, <2>3
  <2> QED  BY <1>1, <1>2, <2>1, <2>2, <2>3
<1>6. a \o Tail(r) = s \o r
  <2>1. Len(a \o Tail(r)) = Len(s \o r) /\ Len(s \o r) = Len(s) + Len(r)
    BY <1>1, <1>2, <1>3, <1>4
  <2> QED  BY <1>3, <1>4, <1>5, <2>1, SeqEqual
<1> QED  BY <1>1, <1>2, <1>6 DEF a

(* A code goes from the pipe to the child: the two together stay the same. *)
LEMMA WorkOnStep ==
  ASSUME ProcessIInv, NEW i \in Channels, WorkOn(i)
  PROVE  ProcessIInv'
<1> USE DEF WorkOn, ProcessIInv, CodesDoneInOrder
<1>1. /\ pipe[i] \in Seq(0 .. NumWorks - 1) /\ worked[i] \in Seq(0 .. NumWorks - 1)
      /\ pipe[i] # <<>> /\ DOMAIN pipe = Channels /\ DOMAIN worked = Channels
  BY DEF ProcessTypeOK
<1>2. /\ Head(pipe[i]) \in 0 .. NumWorks - 1 /\ Tail(pipe[i]) \in Seq(0 .. NumWorks - 1)
      /\ Append(worked[i], Head(pipe[i])) \in Seq(0 .. NumWorks - 1)
      /\ Append(worked[i], Head(pipe[i])) \o Tail(pipe[i]) = worked[i] \o pipe[i]
  <2> DEFINE S == 0 .. NumWorks - 1
  <2>1. pipe[i] \in Seq(S) /\ worked[i] \in Seq(S) /\ pipe[i] # <<>>
    BY <1>1
  <2> HIDE DEF S
  <2> HIDE DEF WorkOn, ProcessIInv, CodesDoneInOrder
  <2>2. \A s, r \in Seq(S) : r # <<>> =>
          /\ Head(r) \in S /\ Tail(r) \in Seq(S) /\ Append(s, Head(r)) \in Seq(S)
          /\ Append(s, Head(r)) \o Tail(r) = s \o r
    BY Handed
  <2>3. /\ Head(pipe[i]) \in S /\ Tail(pipe[i]) \in Seq(S)
        /\ Append(worked[i], Head(pipe[i])) \in Seq(S)
        /\ Append(worked[i], Head(pipe[i])) \o Tail(pipe[i]) = worked[i] \o pipe[i]
    BY <2>1, <2>2
  <2> QED  BY <2>3 DEF S
<1>3. ProcessTypeOK'
  BY <1>1, <1>2 DEF ProcessTypeOK, sendVars, poolVars
<1>4. \A j \in Channels : CodesOf(j)' = CodesOf(j)
  BY <1>1, <1>2 DEF CodesOf
<1>5. CodesDoneInOrder' /\ CountersInStep'
  <2>1. \A j \in Channels : child[j] \in {"zombie", "reaped"} => j # i
    OBVIOUS
  <2>2. \A j \in Channels : child'[j] \in {"zombie", "reaped"} => pipe'[j] = <<>>
    BY <1>1, <2>1
  <2> QED  BY <1>3, <1>4, <2>2 DEF CountersInStep, sendVars
<1>6. \A j \in Channels : j >= created => pipe'[j] = pipe[j]
  <2>1. pipe[i] # <<>> /\ child[i] # "none"
    BY <1>1
  <2>2. \A j \in Channels : j >= created => j # i
    BY <2>1 DEF ChannelsCreated
  <2> QED  BY <1>1, <2>2
<1> QED  BY <1>5, <1>6, EndsKept

(* Sending: the next code is the next of the child whose turn it is.       *)
LEMMA SendStep ==
  ASSUME ProcessIInv, Send
  PROVE  ProcessIInv'
<1> USE SizesAssumption
<1>1. PICK i \in Channels \ failed, code \in 0 .. NumWorks - 1 :
        /\ getNextprocess(i) /\ getNextworkid(code)
        /\ pipe' = [pipe EXCEPT ![i] = Append(@, code)]
        /\ sent' = sent + 1
  BY DEF Send
<1>2. /\ sent \in Nat /\ turn \in Nat /\ workid \in Nat /\ sent < MaxSends /\ parent = "sending"
      /\ pipe \in [Channels -> Seq(0 .. NumWorks - 1)]
      /\ worked \in [Channels -> Seq(0 .. NumWorks - 1)]
      /\ UNCHANGED <<parent, poolVars, child, writers, worked, k>>
  BY DEF Send, ProcessIInv, CodesDoneInOrder, ProcessTypeOK
<1>3. /\ i = sent % N /\ turn' = i + 1 /\ code = sent % NumWorks /\ workid' = code + 1
  BY <1>1 DEF ProcessIInv, CountersInStep, getNextprocess, getNextworkid
<1>4. CountersInStep'
  <2>1. turn' % N = sent' % N
    <3>1. ((sent % N) + 1) % N = (sent + 1) % N
      <4>1. sent \in Int /\ N \in Nat \ {0} /\ NumWorks \in Nat \ {0}
        BY <1>2
      <4> QED  BY <4>1, NextRemainder, Zenon
    <3> QED  BY <1>1, <1>3, <3>1
  <2>2. workid' % NumWorks = sent' % NumWorks
    <3>1. ((sent % NumWorks) + 1) % NumWorks = (sent + 1) % NumWorks
      <4>1. sent \in Int /\ N \in Nat \ {0} /\ NumWorks \in Nat \ {0}
        BY <1>2
      <4> QED  BY <4>1, NextRemainder, Zenon
    <3> QED  BY <1>1, <1>3, <3>1
  <2> QED  BY <2>1, <2>2 DEF CountersInStep
<1>5. ProcessTypeOK'
  <2>1. turn' \in 0 .. N /\ workid' \in 0 .. NumWorks /\ sent' \in 0 .. MaxSends
    BY <1>1, <1>2, <1>3 DEF Channels
  <2>2. pipe' \in [Channels -> Seq(0 .. NumWorks - 1)]
    BY <1>1, <1>2
  <2> QED  BY <1>2, <2>1, <2>2 DEF ProcessIInv, CodesDoneInOrder, ProcessTypeOK, poolVars
<1>6. ASSUME NEW j \in Channels
      PROVE  /\ \A n \in 1 .. Len(CodesOf(j))' : CodesOf(j)'[n] = (j + N * (n - 1)) % NumWorks
             /\ (j + N * Len(CodesOf(j)))' \in sent' .. sent' + N - 1
             /\ child'[j] \in {"zombie", "reaped"} => pipe'[j] = <<>>
  <2> DEFINE s == CodesOf(j)
  <2>1. /\ s \in Seq(0 .. NumWorks - 1) /\ Len(s) \in Nat
        /\ \A n \in 1 .. Len(s) : s[n] = (j + N * (n - 1)) % NumWorks
        /\ j + N * Len(s) \in sent .. sent + N - 1
        /\ child[j] \in {"zombie", "reaped"} => pipe[j] = <<>>
    BY <1>2 DEF ProcessIInv, CodesDoneInOrder, CodesOf
  <2>2. /\ N * Len(s) \in Nat /\ N * (Len(s) + 1) = N * Len(s) + N
        /\ j + N * Len(s) = sent <=> j = sent % N
    <3> HIDE DEF s
    <3> DEFINE l == Len(s)
    <3>1. l \in Nat /\ j + N * l \in sent .. sent + N - 1
      BY ONLY <2>1
    <3>2. j \in Channels /\ sent \in Nat
      BY <1>2
    <3> HIDE DEF l
    <3>3. N * l \in Nat /\ N * (l + 1) = N * l + N /\ (j + N * l = sent <=> j = sent % N)
      BY ONLY <3>1, <3>2, WhoseTurn
    <3> QED  BY <3>3 DEF l
  <2>3. CASE j # i
    <3>1. s' = s /\ pipe'[j] = pipe[j]
      BY <1>1, <1>2, <2>3 DEF CodesOf
    <3>2. j + N * Len(s) # sent
      BY <1>3, <2>2, <2>3
    <3> HIDE DEF s
    <3>3. j + N * Len(s) \in sent + 1 .. sent + 1 + N - 1
      <4>1. \A x \in sent .. sent + N - 1 : x # sent => x \in sent + 1 .. sent + 1 + N - 1
        BY <1>2
      <4> QED  BY <2>1, <3>2, <4>1
    <3> QED  BY <1>1, <1>2, <2>1, <3>1, <3>3 DEF s
  <2>4. CASE j = i
    <3>1. s' = Append(s, code)
      <4>1. pipe'[j] = Append(pipe[j], code)
        BY <1>1, <1>2, <2>4
      <4> DEFINE S == 0 .. NumWorks - 1
      <4>2. worked'[j] = worked[j] /\ worked[j] \in Seq(S) /\ pipe[j] \in Seq(S) /\ code \in S
        BY <1>1, <1>2
      <4>3. s' = worked[j] \o Append(pipe[j], code) /\ s = worked[j] \o pipe[j]
        BY <4>1, <4>2 DEF CodesOf
      <4> HIDE DEF s, S
      <4>4. worked[j] \o Append(pipe[j], code) = Append(worked[j] \o pipe[j], code)
        <5> DEFINE x == worked[j]
                   y == pipe[j]
        <5>1. x \in Seq(S) /\ y \in Seq(S) /\ code \in S
          BY <4>2
        <5> HIDE DEF x, y
        <5>2. x \o Append(y, code) = Append(x \o y, code)
          BY ONLY <5>1, AppendConcat
        <5> QED  BY ONLY <5>2 DEF x, y
      <4> QED  BY ONLY <4>3, <4>4
    <3> HIDE DEF s
    <3>2. Len(s') = Len(s) + 1 /\ s'[Len(s) + 1] = code /\ \A n \in 1 .. Len(s) : s'[n] = s[n]
      BY <2>1, <3>1
    <3>3. j + N * Len(s) = sent
      BY <1>3, <2>2, <2>4
    <3>4. j + N * Len(s') \in sent + 1 .. sent + 1 + N - 1
      <4>1. N * Len(s') = N * Len(s) + N
        BY <2>2, <3>2
      <4> QED  BY <1>2, <2>2, <3>3, <4>1 DEF Channels
    <3>5. ASSUME NEW n \in 1 .. Len(s') PROVE s'[n] = (j + N * (n - 1)) % NumWorks
      <4>1. CASE n \in 1 .. Len(s)
        BY <2>1, <3>2, <4>1
      <4>2. CASE n = Len(s) + 1
        <5>1. n - 1 = Len(s)
          BY <2>1, <4>2
        <5> QED  BY <1>3, <3>2, <3>3, <4>2, <5>1
      <4> QED  BY <2>1, <3>2, <4>1, <4>2
    <3>6. child[j] \notin {"zombie", "reaped"}
      <4>1. child[i] = "none" \/ i < created
        BY <1>2 DEF ProcessIInv, CodesDoneInOrder, ProcessTypeOK, ChannelsCreated, Channels
      <4> QED  BY <1>2, <2>4, <4>1 DEF ProcessIInv, EndsOfParent
    <3> QED  BY <1>1, <1>2, <3>4, <3>5, <3>6 DEF s
  <2> QED  BY <2>3, <2>4
<1>7. CodesDoneInOrder'
  BY <1>5, <1>6 DEF CodesDoneInOrder
<1>8. \A j \in Channels : j >= created => FALSE
  BY <1>2 DEF ProcessIInv, CodesDoneInOrder, ProcessTypeOK, ParentStages, Channels
<1> QED  BY <1>2, <1>4, <1>7, <1>8, EndsKept

(* The end of the sending.                                                 *)
LEMMA SendEndStep ==
  ASSUME ProcessIInv, SendDone \/ SendKills
  PROVE  ProcessIInv'
<1> USE SizesAssumption, ParentApart
<1>1. /\ parent = "sending" /\ parent' \in {"closing", "dead"} /\ k = 0 /\ created = N
      /\ UNCHANGED <<created, failed, child, pipe, sendVars, worked, k>>
      /\ parent' = "closing" => writers' = writers
      /\ parent' = "dead" => writers' = [i \in Channels |-> writers[i] \ {Parent}]
  BY DEF SendDone, SendKills, CloseAll, poolVars, ProcessIInv, ParentStages
<1>2. ProcessTypeOK'
  BY <1>1 DEF ProcessIInv, CodesDoneInOrder, ProcessTypeOK, sendVars
<1>3. CodesDoneInOrder' /\ CountersInStep'
  BY <1>1, <1>2, OrderKept
<1>4. \A i \in Channels : writers'[i] \subseteq writers[i] /\ (parent' = "dead" => Parent \notin writers'[i])
  BY <1>1
<1>5. NoEndLeftOpen'
  BY <1>1, <1>4 DEF ProcessIInv, NoEndLeftOpen, NotClosedYet, Channels
<1>6. ChannelsCreated'
  BY <1>1, <1>4 DEF ProcessIInv, ChannelsCreated
<1>7. ParentStages'
  BY <1>1 DEF ProcessIInv, ParentStages
<1>8. EndsOfParent'
  BY <1>1, <1>4 DEF ProcessIInv, EndsOfParent
<1> QED  BY <1>3, <1>5, <1>6, <1>7, <1>8 DEF ProcessIInv

(* The destructor closes one end, or ends and with it the parent.          *)
LEMMA CloseStep ==
  ASSUME ProcessIInv, CloseNext \/ End
  PROVE  ProcessIInv'
<1> USE SizesAssumption, ParentApart
<1>1. /\ parent = "closing" /\ k \in 0 .. N /\ created = N /\ parent' \in {"waiting", "ended"}
      /\ parent' = "waiting" <=> k < N
      /\ UNCHANGED <<created, failed, child, pipe, sendVars, worked, k>>
      /\ writers \in [Channels -> SUBSET (Channels \cup {Parent})]
  BY DEF CloseNext, End, poolVars, ProcessIInv, CodesDoneInOrder, ProcessTypeOK, ParentStages
<1>2. \A i \in Channels :
        writers'[i] = IF parent' = "ended" \/ i = k THEN writers[i] \ {Parent} ELSE writers[i]
  BY <1>1 DEF CloseNext, End, CloseAll
<1>3. writers' \in [Channels -> SUBSET (Channels \cup {Parent})]
  <2>1. DOMAIN writers' = Channels /\ writers' = [i \in Channels |-> writers'[i]]
    BY <1>1 DEF CloseNext, End, CloseAll
  <2>2. \A i \in Channels : writers'[i] \subseteq Channels \cup {Parent}
    BY <1>1, <1>2
  <2> QED  BY <2>1, <2>2
<1>4. ProcessTypeOK'
  BY <1>1, <1>3 DEF ProcessIInv, CodesDoneInOrder, ProcessTypeOK, sendVars
<1>5. CodesDoneInOrder' /\ CountersInStep'
  BY <1>1, <1>4, OrderKept
<1>6. \A i \in Channels : /\ writers'[i] \subseteq writers[i] /\ i \in Int
                          /\ Parent \in writers'[i] => parent' = "waiting" /\ i # k
  BY <1>1, <1>2 DEF Channels
<1>7. NoEndLeftOpen'
  <2>1. ASSUME NEW i \in Channels, NEW p \in writers'[i], p = Parent PROVE NotClosedYet(i)'
    <3>1. NotClosedYet(i)
      BY <1>6, <2>1 DEF ProcessIInv, NoEndLeftOpen
    <3>2. parent' = "waiting" /\ i # k /\ k' = k /\ k \in Int /\ i \in Int
      BY <1>1, <1>6, <2>1
    <3>3. k <= i
      BY <3>1 DEF NotClosedYet
    <3> QED  BY ONLY <3>2, <3>3 DEF NotClosedYet
  <2>2. ASSUME NEW i \in Channels, NEW p \in writers'[i], p # Parent PROVE child'[p] = "booting"
    BY <1>1, <1>6, <2>2 DEF ProcessIInv, NoEndLeftOpen
  <2> QED  BY <2>1, <2>2 DEF NoEndLeftOpen
<1>8. ChannelsCreated'
  BY <1>1, <1>6 DEF ProcessIInv, ChannelsCreated
<1>9. ParentStages'
  BY <1>1 DEF ProcessIInv, ParentStages
<1>10. EndsOfParent'
  BY <1>1, <1>6 DEF ProcessIInv, EndsOfParent
<1> QED  BY <1>5, <1>7, <1>8, <1>9, <1>10 DEF ProcessIInv

(* Waiting: the child is reaped, or any, when the channel has none.        *)
LEMMA WaitStep ==
  ASSUME ProcessIInv, WaitChild \/ WaitAny
  PROVE  ProcessIInv'
<1> USE SizesAssumption, ParentApart
<1>1. /\ parent = "waiting" /\ parent' = "closing" /\ k \in 0 .. N - 1 /\ k' = k + 1
      /\ k \in Channels /\ created = N
      /\ UNCHANGED <<created, failed, writers, pipe, sendVars, worked>>
      /\ child \in [Channels -> {"none", "booting", "reading", "zombie", "reaped"}]
      /\ \A i \in Channels : i \in Int
  BY DEF WaitChild, WaitAny, poolVars, ProcessIInv, CodesDoneInOrder, ProcessTypeOK, ParentStages,
         Channels
<1>2. /\ child' \in [Channels -> {"none", "booting", "reading", "zombie", "reaped"}]
      /\ \A i \in Channels : \/ child'[i] = child[i]
                             \/ child[i] \in {"zombie", "reaped"} /\ child'[i] = "reaped"
      /\ child'[k] \in {"none", "reaped"}
  <2>1. CASE WaitChild
    BY <1>1, <2>1 DEF WaitChild
  <2>2. CASE WaitAny
    <3>1. child[k] = "none"
      BY <2>2 DEF WaitAny, ProcessIInv, ChannelsCreated
    <3>2. CASE UNCHANGED child
      BY <1>1, <3>1, <3>2
    <3>3. ASSUME NEW i \in Channels, child[i] = "zombie", child' = [child EXCEPT ![i] = "reaped"]
          PROVE  <1>2!:
      BY <1>1, <3>1, <3>3
    <3> QED  BY <2>2, <3>2, <3>3 DEF WaitAny
  <2> QED  BY <2>1, <2>2
<1>3. ProcessTypeOK'
  BY <1>1, <1>2 DEF ProcessIInv, CodesDoneInOrder, ProcessTypeOK, sendVars
<1>4. CodesDoneInOrder' /\ CountersInStep'
  <2>1. \A i \in Channels : child'[i] \in {"zombie", "reaped"} => child[i] \in {"zombie", "reaped"}
    BY <1>2
  <2> QED  BY <1>1, <1>3, <2>1, OrderKept
<1>5. NoEndLeftOpen'
  <2>1. ASSUME NEW i \in Channels, NEW p \in writers[i], p = Parent PROVE NotClosedYet(i)'
    BY <1>1, <2>1 DEF ProcessIInv, NoEndLeftOpen, NotClosedYet
  <2>2. ASSUME NEW i \in Channels, NEW p \in writers[i], p # Parent PROVE child'[p] = "booting"
    <3>1. p \in Channels /\ child[p] = "booting"
      BY <2>2 DEF ProcessIInv, NoEndLeftOpen, CodesDoneInOrder, ProcessTypeOK
    <3> QED  BY <1>2, <3>1
  <2> QED  BY <1>1, <2>1, <2>2 DEF NoEndLeftOpen
<1>6. ChannelsCreated'
  <2>1. \A i \in Channels : i >= created => FALSE
    BY <1>1 DEF Channels
  <2>2. failed \subseteq Channels /\ \A i \in failed : child[i] = "none"
    BY DEF ProcessIInv, ChannelsCreated, CodesDoneInOrder, ProcessTypeOK
  <2>3. \A i \in failed : child'[i] = "none"
    BY <1>2, <2>2
  <2>4. failed' \subseteq 0 .. created' - 1
    BY <1>1 DEF ProcessIInv, ChannelsCreated
  <2> QED  BY <1>1, <2>1, <2>3, <2>4 DEF ChannelsCreated
<1>7. ParentStages'
  BY <1>1 DEF ParentStages
<1>8. EndsOfParent'
  <2>1. \A i \in Channels : child'[i] \in {"zombie", "reaped"} => Parent \notin writers'[i]
    BY <1>1, <1>2 DEF ProcessIInv, EndsOfParent
  <2>2. ASSUME NEW i \in Channels, i < k' PROVE child'[i] \in {"none", "reaped"}
    <3>1. i < k \/ i = k
      BY <1>1, <2>2
    <3>2. i < k => child[i] \in {"none", "reaped"}
      BY DEF ProcessIInv, EndsOfParent
    <3> QED  BY <1>2, <3>1, <3>2
  <2> QED  BY <1>1, <2>1, <2>2 DEF EndsOfParent
<1> QED  BY <1>4, <1>5, <1>6, <1>7, <1>8 DEF ProcessIInv

(* The inductive invariant holds in every reachable state.                 *)
LEMMA ProcessInvariance == ProcessSpec => []ProcessIInv
<1>1. ASSUME ProcessIInv, ProcessNext PROVE ProcessIInv'
  BY <1>1, CreateStep, ChildStep, WorkOnStep, SendStep, SendEndStep, CloseStep, WaitStep
     DEF ProcessNext, ParentStep, Child
<1>2. ASSUME ProcessIInv, UNCHANGED processVars PROVE ProcessIInv'
  <2>1. ProcessTypeOK'
    BY <1>2 DEF ProcessIInv, CodesDoneInOrder, ProcessTypeOK, processVars, sendVars, poolVars
  <2>2. CodesDoneInOrder' /\ CountersInStep'
    BY <1>2, <2>1, OrderKept DEF processVars
  <2> QED  BY <1>2, <2>2, EndsKept DEF processVars
<1> QED  BY ProcessInitIInv, <1>1, <1>2, PTL DEF ProcessSpec
-----------------------------------------------------------------------------
(* Codes go round and none is lost, repeated or overtaken, however the     *)
(* counters wrap and whatever forks fail.                                  *)
THEOREM CodesGoRound == ProcessSpec => []CodesDoneInOrder
<1>1. ProcessIInv => CodesDoneInOrder
  BY DEF ProcessIInv
<1> QED  BY ProcessInvariance, <1>1, PTL

(* Nobody but a child that is still booting keeps a write end that the     *)
(* destructor has closed; and when it is through, every child that there   *)
(* was is reaped.                                                          *)
THEOREM ChildrenAreReaped == ProcessSpec => []NoChildLeft
<1>1. ProcessIInv => NoChildLeft
  BY SizesAssumption DEF ProcessIInv, ParentStages, EndsOfParent, NoChildLeft, Channels
<1> QED  BY ProcessInvariance, <1>1, PTL
-----------------------------------------------------------------------------
(* AsyncLog.                                                               *)

(* What is queued and written, and the event a logger is busy with.        *)
Texts == {m_format[i][e] : i \in 1 .. Len(Appends), e \in Events}
LineOf(i, l, n) == <<i, m_format[i][<<l, n, LevelOf[l][n]>>]>>
Lines == {LineOf(i, l, n) : i \in AsynAppends, l \in Loggers, n \in 1 .. MaxLines}
Places == {"idle", "append", "push", "asleep", "woken", "run", "pop", "blocking", "work", "exited"}

LogTypes ==
  /\ place \in [Threads -> Places]
  /\ m_q \in Seq(Lines)
  /\ waitnum \in Nat /\ accepted \in Nat
  /\ m_flag \in BOOLEAN
  /\ exit \in {"running", "cleared", "notified", "joined", "destroyed", "undefined"}
  /\ at \in [Loggers -> Nat \ {0}]
  /\ logged \in [Loggers -> 0 .. MaxLines]
  /\ event \in [Loggers -> Events \cup {NoLine}]
  /\ line \in [m_pool -> Lines \cup {NoLine}]
  /\ out \in [1 .. Len(Appends) -> Seq(Texts)]

(* A worker goes to sleep, and sleeps, over an empty queue.                *)
SleepersInWait ==
  \A w \in m_pool : place[w] \in {"blocking", "asleep"} => m_num = 0

(* A logger past Log has an event, and waits for an asynchronous appender. *)
BusyLoggers ==
  \A l \in Loggers :
    /\ place[l] # "idle" => /\ logged[l] \in 1 .. MaxLines
                            /\ event[l] = <<l, logged[l], LevelOf[l][logged[l]]>>
    /\ place[l] \in {"push", "asleep", "woken"} => at[l] \in AsynAppends

(* A worker has a line between pop and temp().                             *)
BusyWorkers == \A w \in m_pool : place[w] = "work" <=> line[w] # NoLine

LogIInv == LogTypes /\ LogTypeOK /\ SleepersInWait /\ BusyLoggers /\ BusyWorkers

(* Where an event has been: an appender is past it once the logger is at a *)
(* later appender, or at a later event.                                    *)
Past(i, l, n) == n < logged[l] \/ (n = logged[l] /\ i < at[l])
PastLines == {LineOf(t[1], t[2], t[3]) :
                t \in {u \in AsynAppends \X Loggers \X (1 .. MaxLines) : Past(u[1], u[2], u[3])}}
AllLines == InFiles \cup Queued \cup Carried

LedgerInv ==
  /\ OnePlace
  /\ AllLines \subseteq PastLines
  /\ IsFiniteSet(AllLines) /\ Cardinality(AllLines) = accepted

-----------------------------------------------------------------------------
LEMMA AsynIsAppender == \A i \in AsynAppends : i \in 1 .. Len(Appends) /\ i \in Nat \ {0}
BY AppendsAssumption DEF AsynAppends

LEMMA LoggedIsEvent ==
  ASSUME NEW l \in Loggers, NEW n \in 1 .. MaxLines
  PROVE  <<l, n, LevelOf[l][n]>> \in Events
BY DEF Events

LEMMA LineShape ==
  ASSUME NEW x \in Lines
  PROVE  /\ x[1] \in AsynAppends /\ x[1] \in 1 .. Len(Appends) /\ x[2] \in Texts
         /\ x # NoLine
<1>1. PICK i \in AsynAppends, l \in Loggers, n \in 1 .. MaxLines : x = LineOf(i, l, n)
  BY DEF Lines
<1>2. <<l, n, LevelOf[l][n]>> \in Events
  BY LoggedIsEvent
<1>3. i \in 1 .. Len(Appends)
  BY AsynIsAppender
<1>4. m_format[i][<<l, n, LevelOf[l][n]>>] \in Texts
  BY <1>2, <1>3 DEF Texts
<1> DEFINE y == m_format[i][<<l, n, LevelOf[l][n]>>]
<1>5. x = <<i, y>> /\ y \in Texts
  BY <1>1, <1>4 DEF LineOf
<1> HIDE DEF y
<1> QED  BY <1>3, <1>5 DEF NoLine

(* The workers in m_cv.wait, when one goes in or comes out.                *)
LEMMA WaitIsFinite == IsFiniteSet(InWait) /\ Cardinality(InWait) \in Nat
BY LogSetsAssumption, FS_Subset, FS_CardinalityType DEF InWait

LEMMA OneMoreWaits ==
  ASSUME NEW w, w \notin InWait, InWait' = InWait \cup {w}
  PROVE  Cardinality(InWait)' = Cardinality(InWait) + 1
BY WaitIsFinite, FS_AddElement

LEMMA OneLessWaits ==
  ASSUME NEW w, w \in InWait, InWait' = InWait \ {w}
  PROVE  Cardinality(InWait)' = Cardinality(InWait) - 1
BY WaitIsFinite, FS_RemoveElement

LEMMA LogStarts == LogInit => LogIInv
<1> SUFFICES ASSUME LogInit PROVE LogIInv
  OBVIOUS
<1> USE LogSetsAssumption, LogSizesAssumption, AppendsAssumption DEF LogInit
<1>1. LogTypes
  <2>1. m_q \in Seq(Lines) /\ \A i \in 1 .. Len(Appends) : out[i] \in Seq(Texts)
    OBVIOUS
  <2> QED  BY <2>1 DEF LogTypes, Threads, Places
<1>2. InWait = {} /\ m_num = 0
  BY DEF InWait, Threads, m_num
<1>3. LogTypeOK
  <2>1. waitnum = Cardinality(InWait) /\ m_num <= MaxNum
    BY <1>2, FS_EmptySet
  <2>2. m_flag = (exit = "running")
    OBVIOUS
  <2> QED  BY <2>1, <2>2 DEF LogTypeOK, Threads
<1>4. SleepersInWait /\ BusyLoggers /\ BusyWorkers
  BY <1>2 DEF SleepersInWait, BusyLoggers, BusyWorkers, Threads
<1> QED  BY <1>1, <1>3, <1>4 DEF LogIInv

(* Steps of loggers that leave the queue alone.                            *)
LEMMA QuietLoggerStep ==
  ASSUME LogIInv, NEW l \in Loggers,
         \/ Log(l) \/ LogReturn(l) \/ AppendSkip(l) \/ AppendSync(l) \/ PushFlag(l) \/ PushBlock(l)
  PROVE  LogIInv'
<1> USE LogSetsAssumption, LogSizesAssumption DEF LogIInv, LogTypes, queueVars, loggerVars
<1>0. /\ UNCHANGED <<m_q, waitnum, accepted, m_flag, line, exit>>
      /\ \A t \in Threads : t # l => place'[t] = place[t]
      /\ \A h \in Loggers : h # l => /\ event'[h] = event[h] /\ at'[h] = at[h]
                                     /\ logged'[h] = logged[h]
  BY DEF Log, LogReturn, AppendSkip, AppendSync, PushFlag, PushBlock
<1>1. /\ place' \in [Threads -> Places] /\ place'[l] \in {"idle", "append", "push", "asleep", "woken"}
      /\ at' \in [Loggers -> Nat \ {0}]
      /\ logged' \in [Loggers -> 0 .. MaxLines]
  <2>0. /\ l \in Threads /\ place[l] \in {"idle", "append", "push", "asleep", "woken"}
        /\ logged[l] \in 0 .. MaxLines /\ at[l] \in Nat \ {0}
    BY DEF Threads, LogTypeOK
  <2>1. CASE Log(l)
    <3>1. logged' = [logged EXCEPT ![l] = logged[l] + 1] /\ logged[l] + 1 \in 0 .. MaxLines
      BY <2>0, <2>1 DEF Log
    <3>2. /\ at' = [at EXCEPT ![l] = 1] \/ at' = at
          /\ place' = [place EXCEPT ![l] = "append"] \/ place' = place
      BY <2>1 DEF Log
    <3>3. at' \in [Loggers -> Nat \ {0}]
      BY <3>2
    <3>4. logged' \in [Loggers -> 0 .. MaxLines]
      <4>1. logged \in [Loggers -> 0 .. MaxLines]
        OBVIOUS
      <4> QED  BY ONLY <3>1, <4>1
    <3> QED  BY <2>0, <3>2, <3>3, <3>4 DEF Places
  <2>2. CASE ~Log(l)
    <3>1. /\ logged' = logged
          /\ at' = [at EXCEPT ![l] = @ + 1] \/ at' = at
          /\ \E p \in {"idle", "append", "push", "asleep", "woken"} : place' = [place EXCEPT ![l] = p]
      BY <2>0, <2>2 DEF LogReturn, AppendSkip, AppendSync, PushFlag, PushBlock
    <3>2. at' \in [Loggers -> Nat \ {0}] /\ logged' \in [Loggers -> 0 .. MaxLines]
      <4>1. at \in [Loggers -> Nat \ {0}] /\ logged \in [Loggers -> 0 .. MaxLines]
        OBVIOUS
      <4> QED  BY ONLY <2>0, <3>1, <4>1
    <3> QED  BY <2>0, <3>1, <3>2 DEF Places
  <2> QED  BY <2>1, <2>2
<1>2. /\ event' \in [Loggers -> Events \cup {NoLine}]
      /\ place'[l] # "idle" => /\ logged'[l] \in 1 .. MaxLines
                               /\ event'[l] = <<l, logged'[l], LevelOf[l][logged'[l]]>>
      /\ place'[l] \in {"push", "asleep", "woken"} => at'[l] \in AsynAppends
  <2>0. l \in Threads /\ place[l] \in {"idle", "append", "push", "asleep", "woken"}
    BY DEF Threads, LogTypeOK
  <2>1. CASE Log(l)
    <3>1. place[l] = "idle" /\ logged'[l] \in 1 .. MaxLines
      BY <2>1 DEF Log
    <3> DEFINE e == <<l, logged'[l], LevelOf[l][logged'[l]]>>
    <3>2. e \in Events
      BY ONLY <3>1, LoggedIsEvent
    <3>3. \/ event' = [event EXCEPT ![l] = e] /\ place' = [place EXCEPT ![l] = "append"]
          \/ event' = event /\ place' = place
      BY <2>1 DEF Log
    <3>4. event'[l] = e \/ place'[l] = "idle"
      BY <2>0, <3>1, <3>3
    <3>5. place'[l] \in {"idle", "append"}
      BY <2>0, <3>1, <3>3
    <3>6. event' \in [Loggers -> Events \cup {NoLine}]
      <4> HIDE DEF e
      <4> QED  BY <3>2, <3>3
    <3> QED  BY <3>1, <3>4, <3>5, <3>6
  <2>2. CASE ~Log(l)
    <3>1. logged' = logged /\ (event' = event \/ event' = [event EXCEPT ![l] = NoLine])
      BY <2>2 DEF LogReturn, AppendSkip, AppendSync, PushFlag, PushBlock
    <3>2. /\ place[l] # "idle"
          /\ place'[l] # "idle" => event' = event
          /\ place'[l] \in {"push", "asleep", "woken"} => at' = at /\ at[l] \in AsynAppends
      BY <2>0, <2>2, AppendsAssumption, SMTT(30)
         DEF LogReturn, AppendSkip, AppendSync, PushFlag, PushBlock, BusyLoggers, AsynAppends
    <3> QED  BY <2>0, <3>1, <3>2 DEF BusyLoggers
  <2> QED  BY <2>1, <2>2
<1>3. out' \in [1 .. Len(Appends) -> Seq(Texts)]
  <2>1. CASE AppendSync(l)
    <3>1. at[l] \in 1 .. Len(Appends)
      BY <2>1, AppendsAssumption DEF AppendSync
    <3>2. event[l] \in Events
      <4>1. /\ logged[l] \in 1 .. MaxLines
            /\ event[l] = <<l, logged[l], LevelOf[l][logged[l]]>>
        BY <2>1 DEF AppendSync, BusyLoggers
      <4> QED  BY <4>1 DEF Events
    <3>3. Formatted(l) \in Texts
      BY <3>1, <3>2 DEF Formatted, Texts
    <3> QED  BY <2>1, <3>1, <3>3 DEF AppendSync
  <2>2. CASE ~AppendSync(l)
    BY <2>2 DEF Log, LogReturn, AppendSkip, PushFlag, PushBlock
  <2> QED  BY <2>1, <2>2
<1>4. LogTypes'
  BY <1>0, <1>1, <1>2, <1>3
<1>5. \A w \in m_pool : place'[w] = place[w]
  BY <1>0 DEF Threads
<1>6. InWait' = InWait
  BY <1>5 DEF InWait
<1>7. LogTypeOK'
  <2>1. (m_num <= MaxNum /\ waitnum = Cardinality(InWait))'
    BY <1>0, <1>6 DEF LogTypeOK, m_num
  <2>2. (m_flag = (exit = "running"))'
    BY <1>0 DEF LogTypeOK
  <2>3. \A h \in Loggers : place'[h] \in {"idle", "append", "push", "asleep", "woken"}
    BY <1>0, <1>1 DEF LogTypeOK, Threads
  <2>4. \A w \in m_pool : place'[w] \in {"run", "pop", "work", "exited"} \/ w \in InWait'
    BY <1>5, <1>6 DEF LogTypeOK
  <2> QED  BY <2>1, <2>2, <2>3, <2>4 DEF LogTypeOK
<1>8. SleepersInWait' /\ BusyWorkers'
  BY <1>0, <1>5 DEF SleepersInWait, BusyWorkers, m_num
<1>9. BusyLoggers'
  BY <1>0, <1>2 DEF BusyLoggers, Threads
<1> QED  BY <1>4, <1>7, <1>8, <1>9

(* A line that is pushed wakes every sleeper when a worker is in m_cv.wait.*)
LEMMA PushStep ==
  ASSUME LogIInv, NEW l \in Loggers, Push(l)
  PROVE  LogIInv'
<1> USE LogSetsAssumption, LogSizesAssumption DEF LogIInv, LogTypes, queueVars, loggerVars
<1>0. l \in Threads /\ l \notin m_pool /\ place[l] \in {"push", "woken"} /\ at[l] \in AsynAppends
  BY DEF Push, Threads, BusyLoggers
<1>1. /\ logged[l] \in 1 .. MaxLines
      /\ event[l] = <<l, logged[l], LevelOf[l][logged[l]]>>
  BY <1>0 DEF BusyLoggers
<1>2. <<at[l], Formatted(l)>> = LineOf(at[l], l, logged[l])
  BY <1>1 DEF Formatted, LineOf
<1>3. <<at[l], Formatted(l)>> \in Lines
  BY <1>0, <1>1, <1>2 DEF Lines
<1>4. m_q' \in Seq(Lines) /\ Len(m_q') = m_num + 1 /\ m_num \in Nat
  BY <1>3 DEF Push, m_num
<1>5. /\ place' \in [Threads -> Places] /\ place'[l] = "append"
      /\ \A t \in Threads : t # l => \/ place'[t] = place[t] /\ (waitnum > 0 => place[t] # "asleep")
                                     \/ place[t] = "asleep" /\ place'[t] = "woken"
  BY <1>0 DEF Push, NotifyAll, Places
<1>6. LogTypes'
  <2>1. at' \in [Loggers -> Nat \ {0}]
    BY DEF Push
  <2> QED  BY <1>4, <1>5, <2>1 DEF Push
<1>7. InWait' = InWait
  BY <1>0, <1>5 DEF InWait, Threads
<1>8. LogTypeOK'
  <2>1. (m_num <= MaxNum /\ waitnum = Cardinality(InWait))'
    BY <1>4, <1>7 DEF LogTypeOK, m_num, Push
  <2>2. (m_flag = (exit = "running"))'
    BY DEF LogTypeOK, Push
  <2>3. \A h \in Loggers : place'[h] \in {"idle", "append", "push", "asleep", "woken"}
    BY <1>5 DEF LogTypeOK, Threads
  <2>4. \A w \in m_pool : place'[w] \in {"run", "pop", "work", "exited"} \/ w \in InWait'
    BY <1>0, <1>5, <1>7 DEF LogTypeOK, Threads, InWait
  <2> QED  BY <2>1, <2>2, <2>3, <2>4 DEF LogTypeOK
<1>9. SleepersInWait'
  <2> SUFFICES ASSUME NEW w \in m_pool, place'[w] \in {"blocking", "asleep"}
               PROVE  FALSE
    BY DEF SleepersInWait
  <2>1. w \in InWait
    BY <1>7 DEF InWait
  <2>2. waitnum > 0
    BY <2>1, WaitIsFinite, FS_EmptySet DEF LogTypeOK
  <2>3. place[w] # "blocking"
    BY DEF Push, MutexFree
  <2> QED  BY <1>0, <1>5, <2>2, <2>3 DEF Threads
<1>10. BusyWorkers'
  BY <1>0, <1>5 DEF BusyWorkers, Threads, Push
<1>11. BusyLoggers'
  BY <1>0, <1>1, <1>5 DEF BusyLoggers, Threads, Push
<1> QED  BY <1>6, <1>8, <1>9, <1>10, <1>11

(* Steps of a worker: it goes into m_cv.wait over an empty queue only, and *)
(* what it takes is the front.                                             *)
LEMMA WorkerStep ==
  ASSUME LogIInv, NEW w \in m_pool, RunLoop(w)
  PROVE  LogIInv'
<1> USE LogSetsAssumption, LogSizesAssumption DEF LogIInv, LogTypes, queueVars, loggerVars
<1>0. /\ w \in Threads /\ w \notin Loggers /\ m_num \in Nat
      /\ UNCHANGED <<m_flag, event, at, logged, accepted, exit>>
      /\ \A t \in Threads : t # w => place'[t] = place[t]
  BY DEF Threads, m_num, RunLoop, RunCheck, PopWait, PopBlock, PopNothing, PopLine, Write
<1>1. place' \in [Threads -> Places] /\ (place'[w] \in {"run", "pop", "work", "exited"} \/ w \in InWait')
  <2>1. \E p \in {"run", "pop", "work", "exited", "blocking", "asleep"} :
           place' = [place EXCEPT ![w] = p]
    BY DEF RunLoop, RunCheck, PopWait, PopBlock, PopNothing, PopLine, Write
  <2> QED  BY <1>0, <2>1 DEF Places, InWait
<1>2. waitnum' = Cardinality(InWait')
  <2>0. waitnum = Cardinality(InWait)
    BY DEF LogTypeOK
  <2>1. \A u \in m_pool : u # w => (u \in InWait' <=> u \in InWait)
    BY <1>0 DEF InWait, Threads
  <2>2. InWait \subseteq m_pool /\ InWait' \subseteq m_pool
    BY DEF InWait
  <2>3. CASE PopWait(w)
    <3>1. w \in InWait'
      BY <1>0, <2>3 DEF PopWait, InWait
    <3>2. CASE place[w] = "pop"
      <4>1. w \notin InWait /\ waitnum' = waitnum + 1
        BY <2>3, <3>2 DEF PopWait, InWait, Entered
      <4>2. InWait' = InWait \cup {w}
        BY <2>1, <2>2, <3>1
      <4> QED  BY <2>0, <4>1, <4>2, OneMoreWaits
    <3>3. CASE place[w] = "woken"
      <4>1. w \in InWait /\ waitnum' = waitnum
        BY <2>3, <3>3 DEF PopWait, InWait, Entered
      <4>2. InWait' = InWait
        <5>1. \A u : u \in InWait' <=> u \in InWait
          BY <2>1, <2>2, <3>1, <4>1
        <5> QED  BY ONLY <5>1
      <4> QED  BY <2>0, <4>1, <4>2
    <3> QED  BY <2>3, <3>2, <3>3 DEF PopWait
  <2>4. CASE PopNothing(w) \/ PopLine(w)
    <3>1. w \notin InWait'
      BY <1>0, <2>4 DEF PopNothing, PopLine, InWait
    <3>2. CASE place[w] = "pop"
      <4>1. w \notin InWait /\ waitnum' = waitnum
        BY <2>4, <3>2 DEF PopNothing, PopLine, InWait, Entered
      <4>2. InWait' = InWait
        <5>1. \A u : u \in InWait' <=> u \in InWait
          BY <2>1, <2>2, <3>1, <4>1
        <5> QED  BY ONLY <5>1
      <4> QED  BY <2>0, <4>1, <4>2
    <3>3. CASE place[w] = "woken"
      <4>1. w \in InWait /\ waitnum' = waitnum - 1
        BY <2>4, <3>3 DEF PopNothing, PopLine, InWait, Entered
      <4>2. InWait' = InWait \ {w}
        BY <2>1, <2>2, <3>1
      <4> QED  BY <2>0, <4>1, <4>2, OneLessWaits
    <3> QED  BY <2>4, <3>2, <3>3 DEF PopNothing, PopLine
  <2>5. CASE RunCheck(w) \/ PopBlock(w) \/ Write(w)
    <3>1. waitnum' = waitnum /\ (w \in InWait' <=> w \in InWait)
      BY <1>0, <2>5 DEF RunCheck, PopBlock, Write, InWait
    <3>2. InWait' = InWait
      <4>1. \A u : u \in InWait' <=> u \in InWait
        BY <2>1, <2>2, <3>1
      <4> QED  BY ONLY <4>1
    <3> QED  BY <2>0, <3>1, <3>2
  <2> QED  BY <2>3, <2>4, <2>5 DEF RunLoop
<1>3. IsFiniteSet(InWait') /\ waitnum' \in Nat
  <2>1. InWait' \subseteq m_pool
    BY DEF InWait
  <2> QED  BY <1>2, <2>1, FS_Subset, FS_CardinalityType
<1>4. /\ m_q' \in Seq(Lines) /\ Len(m_q') \in Nat /\ Len(m_q') <= m_num
      /\ line' \in [m_pool -> Lines \cup {NoLine}]
      /\ place'[w] = "work" <=> line'[w] # NoLine
      /\ \A u \in m_pool : u # w => line'[u] = line[u]
  <2>1. CASE PopLine(w)
    <3>1. m_q # <<>> /\ m_q \in Seq(Lines)
      BY <2>1 DEF PopLine, m_num
    <3>2. Head(m_q) \in Lines /\ Tail(m_q) \in Seq(Lines) /\ Len(Tail(m_q)) = m_num - 1
      BY <3>1 DEF m_num
    <3>3. Head(m_q) # NoLine
      BY <3>2, LineShape
    <3> QED  BY <1>0, <2>1, <3>2, <3>3 DEF PopLine
  <2>2. CASE Write(w)
    BY <1>0, <2>2 DEF Write, m_num
  <2>3. CASE RunCheck(w) \/ PopWait(w) \/ PopBlock(w) \/ PopNothing(w)
    <3>1. m_q' = m_q /\ line' = line /\ place[w] # "work" /\ place'[w] # "work"
      BY <1>0, <2>3 DEF RunCheck, PopWait, PopBlock, PopNothing
    <3> QED  BY <1>0, <3>1 DEF BusyWorkers, m_num
  <2> QED  BY <2>1, <2>2, <2>3 DEF RunLoop
<1>5. out' \in [1 .. Len(Appends) -> Seq(Texts)]
  <2>1. CASE Write(w)
    <3>1. line[w] \in Lines
      BY <2>1 DEF Write, BusyWorkers
    <3>2. line[w][1] \in 1 .. Len(Appends) /\ line[w][2] \in Texts
      BY <3>1, LineShape
    <3> QED  BY <2>1, <3>2 DEF Write
  <2>2. CASE ~Write(w)
    BY <2>2 DEF RunLoop, RunCheck, PopWait, PopBlock, PopNothing, PopLine
  <2> QED  BY <2>1, <2>2
<1>6. LogTypes'
  BY <1>0, <1>1, <1>3, <1>4, <1>5
<1>7. LogTypeOK'
  <2>1. m_num' <= MaxNum
    BY <1>0, <1>4 DEF LogTypeOK, m_num
  <2>2. (m_flag = (exit = "running"))'
    BY <1>0 DEF LogTypeOK
  <2>3. \A h \in Loggers : place'[h] \in {"idle", "append", "push", "asleep", "woken"}
    BY <1>0 DEF LogTypeOK, Threads
  <2>4. \A u \in m_pool : place'[u] \in {"run", "pop", "work", "exited"} \/ u \in InWait'
    BY <1>0, <1>1 DEF LogTypeOK, Threads, InWait
  <2> QED  BY <1>2, <2>1, <2>2, <2>3, <2>4 DEF LogTypeOK
<1>8. SleepersInWait'
  <2>1. place'[w] \in {"blocking", "asleep"} => m_num' = 0
    BY <1>0 DEF RunLoop, RunCheck, PopWait, PopBlock, PopNothing, PopLine, Write, SleepersInWait, m_num
  <2>2. \A u \in m_pool : u # w /\ place'[u] \in {"blocking", "asleep"} => m_num' = 0
    BY <1>0, <1>4 DEF SleepersInWait, m_num, Threads
  <2> QED  BY <2>1, <2>2 DEF SleepersInWait
<1>9. BusyWorkers' /\ BusyLoggers'
  BY <1>0, <1>4 DEF BusyWorkers, BusyLoggers, Threads
<1> QED  BY <1>6, <1>7, <1>8, <1>9

(* Steps that move no line and put nobody to sleep.                        *)
ExitOrWakeup == \/ Exit \/ (\E t \in Threads : SpuriousWakeup(t))
                \/ (\E l \in Loggers : PushDestroyed(l)) \/ UNCHANGED logVars

(* The exit, spurious wakeups and the logger that comes too late.          *)
LEMMA ExitOrWakeupStep ==
  ASSUME LogIInv, ExitOrWakeup
  PROVE  LogIInv'
<1> USE LogSetsAssumption, LogSizesAssumption DEF LogIInv, LogTypes, queueVars, loggerVars
<1>0. UNCHANGED <<m_q, waitnum, accepted, event, at, logged, line, out>>
  BY DEF ExitOrWakeup, Exit, ClearFlag, ExitNotify, ExitJoin, ExitDestroy, SpuriousWakeup,
         PushDestroyed, logVars
<1>1. /\ place' \in [Threads -> Places]
      /\ \A t \in Threads : \/ place'[t] = place[t]
                            \/ place[t] = "asleep" /\ place'[t] = "woken"
  BY DEF ExitOrWakeup, Exit, ClearFlag, ExitNotify, ExitJoin, ExitDestroy, NotifyAll,
         SpuriousWakeup, PushDestroyed, logVars, Places
<1>2. /\ m_flag' \in BOOLEAN
      /\ exit' \in {"running", "cleared", "notified", "joined", "destroyed", "undefined"}
      /\ m_flag' = (exit' = "running")
  <2>1. CASE UNCHANGED <<m_flag, exit>>
    BY <2>1 DEF LogTypeOK
  <2>2. CASE Exit
    <3>1. m_flag' = FALSE /\ exit' \in {"cleared", "notified", "joined", "destroyed", "undefined"}
      BY <2>2 DEF Exit, ClearFlag, ExitNotify, ExitJoin, ExitDestroy, LogTypeOK
    <3> QED  BY <3>1
  <2>3. CASE \E l \in Loggers : PushDestroyed(l)
    <3>1. m_flag' = FALSE /\ exit' = "undefined"
      BY <2>3 DEF PushDestroyed, Destroyed, LogTypeOK
    <3> QED  BY <3>1
  <2> QED  BY <2>1, <2>2, <2>3 DEF ExitOrWakeup, SpuriousWakeup, logVars
<1>3. InWait' = InWait
  BY <1>1 DEF InWait, Threads
<1>4. LogTypeOK'
  <2>1. (m_num <= MaxNum /\ waitnum = Cardinality(InWait))'
    BY <1>0, <1>3 DEF LogTypeOK, m_num
  <2>2. \A h \in Loggers : place'[h] \in {"idle", "append", "push", "asleep", "woken"}
    BY <1>1 DEF LogTypeOK, Threads
  <2>3. \A w \in m_pool : place'[w] \in {"run", "pop", "work", "exited"} \/ w \in InWait'
    BY <1>1, <1>3 DEF LogTypeOK, Threads, InWait
  <2> QED  BY <1>2, <2>1, <2>2, <2>3 DEF LogTypeOK
<1>5. LogTypes'
  BY <1>0, <1>1, <1>2
<1>6. SleepersInWait' /\ BusyWorkers'
  BY <1>0, <1>1 DEF SleepersInWait, BusyWorkers, Threads, m_num
<1>7. BusyLoggers'
  BY <1>0, <1>1 DEF BusyLoggers, Threads
<1> QED  BY <1>4, <1>5, <1>6, <1>7

LEMMA LogGoesOn == LogIInv /\ [LogNext]_logVars => LogIInv'
<1> SUFFICES ASSUME LogIInv, [LogNext]_logVars PROVE LogIInv'
  OBVIOUS
<1>1. ASSUME NEW l \in Loggers, Logging(l) PROVE LogIInv'
  BY <1>1, QuietLoggerStep, PushStep, ExitOrWakeupStep DEF Logging, ExitOrWakeup
<1>2. ASSUME NEW w \in m_pool, RunLoop(w) PROVE LogIInv'
  BY <1>2, WorkerStep
<1>3. CASE ExitOrWakeup
  BY <1>3, ExitOrWakeupStep
<1> QED  BY <1>1, <1>2, <1>3 DEF LogNext, ExitOrWakeup

LEMMA LogInvariance == LogSpec => []LogIInv
BY LogStarts, LogGoesOn, PTL DEF LogSpec

(* No worker is left asleep on the one condition variable while there is a *)
(* line in the queue, however many loggers wait there too.                 *)
THEOREM WorkersAreWoken == LogSpec => []NoWorkerSleepsOnWork
<1>1. LogIInv => NoWorkerSleepsOnWork
  BY DEF LogIInv, SleepersInWait, NoWorkerSleepsOnWork, Asleep
<1> QED  BY <1>1, LogInvariance, PTL
-----------------------------------------------------------------------------
LEMMA FilesHold ==
  \A x : x \in InFiles <=> \E i \in AsynAppends : \E h \in 1 .. Len(out[i]) : x = <<i, out[i][h]>>
BY DEF InFiles

LEMMA CarriedHold == \A x : x \in Carried <=> \E w \in m_pool : line[w] = x /\ x # NoLine
BY DEF Carried, InHands

(* What leaves queue, workers and the asynchronous appenders' files alone, *)
(* and takes no logger back.                                               *)
LEMMA LedgerKept ==
  ASSUME LedgerInv, m_q' = m_q, line' = line, accepted' = accepted,
         \A i \in AsynAppends : out'[i] = out[i],
         PastLines \subseteq PastLines'
  PROVE  LedgerInv'
<1>1. Queued' = Queued
  BY DEF Queued, m_num
<1>2. InHands' = InHands /\ Carried' = Carried
  BY DEF InHands, Carried
<1>3. InFiles' = InFiles
  <2>1. \A x : x \in InFiles' <=> x \in InFiles
    BY DEF InFiles
  <2> QED  BY ONLY <2>1
<1>4. OnePlace'
  BY <1>1, <1>2, <1>3 DEF LedgerInv, OnePlace, IsInjective
<1>5. AllLines' = AllLines
  BY <1>1, <1>2, <1>3 DEF AllLines
<1> QED  BY <1>4, <1>5 DEF LedgerInv

(* A logger goes to later appenders, or to later events.                   *)
LEMMA LoggersGoForward ==
  ASSUME LogIInv, [LogNext]_logVars
  PROVE  PastLines \subseteq PastLines'
<1> USE DEF LogIInv, LogTypes
<1>1. \A l \in Loggers : \/ logged'[l] = logged[l] /\ at'[l] >= at[l]
                         \/ logged'[l] > logged[l]
  <2>1. ASSUME NEW l \in Loggers, Log(l)
        PROVE  logged' = [logged EXCEPT ![l] = @ + 1] /\ (at' = at \/ at' = [at EXCEPT ![l] = 1])
    BY <2>1 DEF Log
  <2>2. ASSUME NEW l \in Loggers, Logging(l), ~Log(l)
        PROVE  logged' = logged /\ (at' = at \/ at' = [at EXCEPT ![l] = @ + 1])
    BY <2>2 DEF Logging, LogReturn, AppendSkip, AppendSync, PushFlag, PushBlock, Push,
                PushDestroyed, queueVars, loggerVars
  <2>3. ASSUME \A l \in Loggers : ~Logging(l)
        PROVE  logged' = logged /\ at' = at
    <3>1. ASSUME NEW w \in m_pool, RunLoop(w) PROVE logged' = logged /\ at' = at
      BY <3>1 DEF RunLoop, RunCheck, PopWait, PopBlock, PopNothing, PopLine, Write, loggerVars
    <3>2. ASSUME Exit PROVE logged' = logged /\ at' = at
      BY <3>2 DEF Exit, ClearFlag, ExitNotify, ExitJoin, ExitDestroy, loggerVars
    <3>3. ASSUME NEW t \in Threads, SpuriousWakeup(t) PROVE logged' = logged /\ at' = at
      BY <3>3 DEF SpuriousWakeup, loggerVars
    <3>4. ASSUME UNCHANGED logVars PROVE logged' = logged /\ at' = at
      BY <3>4 DEF logVars
    <3> QED  BY <2>3, <3>1, <3>2, <3>3, <3>4 DEF LogNext
  <2>0. logged \in [Loggers -> 0 .. MaxLines] /\ at \in [Loggers -> Nat \ {0}]
    OBVIOUS
  <2>4. CASE \E l \in Loggers : Log(l)
    <3>1. PICK l \in Loggers : Log(l)
      BY <2>4
    <3>2. logged' = [logged EXCEPT ![l] = logged[l] + 1]
      BY <2>1, <3>1
    <3>3. \A h \in Loggers : h # l => logged'[h] = logged[h] /\ at'[h] = at[h]
      BY <2>0, <2>1, <3>1
    <3>4. logged'[l] > logged[l] /\ \A h \in Loggers : at[h] >= at[h]
      BY ONLY <2>0, <3>2, LogSizesAssumption
    <3> QED  BY ONLY <3>3, <3>4
  <2>5. CASE \E l \in Loggers : Logging(l) /\ ~Log(l)
    <3>1. PICK l \in Loggers : Logging(l) /\ ~Log(l)
      BY <2>5
    <3>2. logged' = logged /\ (at' = at \/ at' = [at EXCEPT ![l] = @ + 1])
      BY <2>2, <3>1
    <3> QED  BY ONLY <2>0, <3>2
  <2>6. CASE \A l \in Loggers : ~Logging(l)
    BY <2>0, <2>3, <2>6
  <2> QED  BY <2>4, <2>5, <2>6 DEF Logging
<1>2. ASSUME NEW i \in AsynAppends, NEW l \in Loggers, NEW n \in 1 .. MaxLines, Past(i, l, n)
      PROVE  Past(i, l, n)'
  <2>1. /\ i \in Nat /\ n \in Nat /\ logged[l] \in Nat /\ at[l] \in Nat
        /\ logged'[l] \in Nat /\ at'[l] \in Nat
    <3>1. LogTypes'
      BY LogGoesOn
    <3> QED  BY <3>1, AsynIsAppender, LogSizesAssumption
  <2>2. \/ logged'[l] = logged[l] /\ at'[l] >= at[l]
        \/ logged'[l] > logged[l]
    BY <1>1
  <2> QED  BY ONLY <1>2, <2>1, <2>2 DEF Past
<1> QED  BY <1>2 DEF PastLines

(* A line that is pushed is nowhere yet: its logger is not past it.        *)
LEMMA PushLedger ==
  ASSUME EventsTold, LogIInv, LedgerInv, NEW l \in Loggers, Push(l),
         LogIInv', PastLines \subseteq PastLines'
  PROVE  LedgerInv'
<1> DEFINE z == LineOf(at[l], l, logged[l])
<1> USE DEF queueVars
<1>0. /\ at[l] \in AsynAppends /\ at[l] \in Nat /\ logged[l] \in 1 .. MaxLines
      /\ event[l] = <<l, logged[l], LevelOf[l][logged[l]]>>
      /\ m_q \in Seq(Lines) /\ m_num \in Nat
  <2>1. place[l] \in {"push", "woken"} /\ l \in Threads
    BY DEF Push, Threads
  <2>2. at[l] \in AsynAppends
    BY <2>1 DEF LogIInv, BusyLoggers
  <2> QED  BY <2>1, <2>2, AsynIsAppender DEF LogIInv, LogTypes, BusyLoggers, m_num
<1>1. m_q' = Append(m_q, z) /\ line' = line /\ out' = out /\ accepted' = accepted + 1
  BY <1>0 DEF Push, Formatted, LineOf
<1>2. z \notin PastLines
  <2> SUFFICES ASSUME NEW i \in AsynAppends, NEW h \in Loggers, NEW n \in 1 .. MaxLines,
                      Past(i, h, n), z = LineOf(i, h, n)
               PROVE  FALSE
    BY DEF PastLines
  <2> DEFINE d == <<l, logged[l], LevelOf[l][logged[l]]>>
             e == <<h, n, LevelOf[h][n]>>
  <2>1. i = at[l] /\ m_format[at[l]][d] = m_format[i][e]
    BY DEF LineOf
  <2>2. d \in Events /\ e \in Events
    BY <1>0, LoggedIsEvent
  <2>3. d = e
    <3> HIDE DEF d, e
    <3> QED  BY <2>1, <2>2 DEF EventsTold
  <2>4. h = l /\ n = logged[l]
    BY <2>3
  <2> QED  BY <1>0, <2>1, <2>4 DEF Past
<1>3. z \in PastLines'
  <2>1. at'[l] = at[l] + 1 /\ logged'[l] = logged[l]
    BY <1>0 DEF Push, LogIInv, LogTypes
  <2>2. PICK i \in AsynAppends, n \in 1 .. MaxLines : i = at[l] /\ n = logged[l] /\ i \in Nat
    BY <1>0
  <2>3. Past(i, l, n)'
    BY <2>1, <2>2 DEF Past
  <2>4. LineOf(i, l, n) \in PastLines'
    <3> DEFINE u == <<i, l, n>>
    <3>1. u \in AsynAppends \X Loggers \X (1 .. MaxLines) /\ u[1] = i /\ u[2] = l /\ u[3] = n
      OBVIOUS
    <3> HIDE DEF u
    <3>2. LineOf(u[1], u[2], u[3]) \in PastLines'
      BY <2>3, <3>1 DEF PastLines, LineOf
    <3> QED  BY <3>1, <3>2
  <2> QED  BY <2>2, <2>4
<1> HIDE DEF z
<1>4. z \notin AllLines
  BY <1>2 DEF LedgerInv
<1>5. Queued' = Queued \cup {z} /\ IsInjective(m_q')
  <2>1. Len(m_q') = m_num + 1 /\ m_q'[m_num + 1] = z
        /\ \A h \in 1 .. m_num : m_q'[h] = m_q[h] /\ m_q[h] # z
    BY <1>0, <1>1, <1>4 DEF m_num, AllLines, Queued
  <2>2. DOMAIN m_q' = 1 .. m_num + 1 /\ DOMAIN m_q = 1 .. m_num
    BY <1>0, <1>1, <2>1 DEF m_num
  <2>3. IsInjective(m_q')
    BY <1>0, <2>1, <2>2 DEF LedgerInv, OnePlace, IsInjective
  <2>4. \A x : x \in Queued' <=> x \in Queued \cup {z}
    <3>1. \A x : x \in Queued' <=> \E h \in 1 .. m_num + 1 : x = m_q'[h]
      BY <2>1 DEF Queued, m_num
    <3>2. \A x : x \in Queued <=> \E h \in 1 .. m_num : x = m_q[h]
      BY DEF Queued
    <3>3. \A h \in 1 .. m_num + 1 : h \in 1 .. m_num \/ h = m_num + 1
      BY <1>0
    <3>4. 1 .. m_num \subseteq 1 .. m_num + 1 /\ m_num + 1 \in 1 .. m_num + 1
      BY <1>0
    <3> QED  BY ONLY <2>1, <3>1, <3>2, <3>3, <3>4
  <2> QED  BY <2>3, <2>4
<1>6. InHands' = InHands /\ Carried' = Carried /\ InFiles' = InFiles
  BY <1>1 DEF InHands, Carried, InFiles
<1>7. AllLines' = AllLines \cup {z}
  BY <1>5, <1>6 DEF AllLines
<1>8. OnePlace'
  BY <1>1, <1>4, <1>5, <1>6 DEF LedgerInv, OnePlace, AllLines
<1>9. IsFiniteSet(AllLines') /\ Cardinality(AllLines') = Cardinality(AllLines) + 1
  BY <1>4, <1>7, FS_AddElement DEF LedgerInv
<1>10. AllLines' \subseteq PastLines'
  BY <1>3, <1>7 DEF LedgerInv
<1> QED  BY <1>1, <1>8, <1>9, <1>10 DEF LedgerInv

(* The front of the queue comes into the hands of one worker.              *)
LEMMA PopLedger ==
  ASSUME LogIInv, LedgerInv, NEW w \in m_pool, PopLine(w), PastLines \subseteq PastLines'
  PROVE  LedgerInv'
<1> DEFINE z == Head(m_q)
<1>0. /\ m_q \in Seq(Lines) /\ m_q # <<>> /\ m_num \in Nat \ {0}
      /\ m_q' = Tail(m_q) /\ out' = out /\ accepted' = accepted
      /\ line \in [m_pool -> Lines \cup {NoLine}] /\ line' = [line EXCEPT ![w] = z]
      /\ line[w] = NoLine
  BY DEF PopLine, LogIInv, LogTypes, BusyWorkers, m_num
<1>1. /\ z = m_q[1] /\ Len(m_q') = m_num - 1
      /\ \A h \in 1 .. m_num - 1 : m_q'[h] = m_q[h + 1]
      /\ DOMAIN m_q' = 1 .. m_num - 1 /\ DOMAIN m_q = 1 .. m_num
  BY <1>0 DEF m_num
<1>2. z # NoLine
  BY <1>0, LineShape
<1> HIDE DEF z
<1>3. z \in Queued /\ z \notin Queued' /\ Queued = Queued' \cup {z} /\ IsInjective(m_q')
  <2>1. z \in Queued
    BY <1>0, <1>1 DEF Queued
  <2>2. \A h \in 1 .. m_num - 1 : h + 1 \in 1 .. m_num /\ h + 1 # 1
    BY <1>0
  <2>3. \A h \in 1 .. m_num - 1 : m_q'[h] # z
    BY <1>0, <1>1, <2>2 DEF LedgerInv, OnePlace, IsInjective
  <2>4. IsInjective(m_q')
    <3> SUFFICES ASSUME NEW j \in 1 .. m_num - 1, NEW h \in 1 .. m_num - 1, m_q'[j] = m_q'[h]
                 PROVE  j = h
      BY <1>1 DEF IsInjective
    <3>1. m_q[j + 1] = m_q[h + 1]
      BY <1>1
    <3>2. j + 1 = h + 1
      BY <1>1, <2>2, <3>1 DEF LedgerInv, OnePlace, IsInjective
    <3> QED  BY <1>0, <3>2
  <2>5. \A x : x \in Queued' <=> \E h \in 1 .. m_num - 1 : x = m_q[h + 1]
    BY <1>1 DEF Queued, m_num
  <2>6. \A h \in 1 .. m_num : h = 1 \/ (h - 1 \in 1 .. m_num - 1 /\ h = (h - 1) + 1)
    BY <1>0
  <2>7. \A x : x \in Queued <=> x \in Queued' \/ x = z
    <3>1. \A x : x \in Queued <=> \E h \in 1 .. m_num : x = m_q[h]
      BY DEF Queued
    <3>2. ASSUME NEW h \in 1 .. m_num PROVE m_q[h] \in Queued' \/ m_q[h] = z
      BY <1>1, <2>5, <2>6
    <3> QED  BY <1>1, <2>1, <2>2, <2>5, <3>1, <3>2
  <2>8. z \notin Queued'
    BY <1>1, <2>3, <2>5
  <2> QED  BY <2>1, <2>4, <2>7, <2>8
<1>4. line'[w] = z /\ \A u \in m_pool : u # w => line'[u] = line[u]
  BY <1>0
<1>5. InHands' = InHands \cup {w} /\ w \notin InHands
  BY <1>0, <1>2, <1>4 DEF InHands
<1>6. Carried' = Carried \cup {z}
  <2>1. \A x : x \in Carried' <=> \E u \in m_pool : line'[u] = x /\ x # NoLine
    BY DEF Carried, InHands
  <2> QED  BY <1>0, <1>2, <1>4, <2>1, CarriedHold
<1>7. InFiles' = InFiles
  BY <1>0 DEF InFiles
<1>8. AllLines' = AllLines
  BY <1>3, <1>6, <1>7 DEF AllLines
<1>9. \A u, v \in InHands' : line'[u] = line'[v] => u = v
  <2>1. \A u \in InHands : u \in m_pool /\ line[u] \in Carried /\ line[u] # z
    BY <1>3 DEF LedgerInv, OnePlace, Carried, InHands
  <2> QED  BY <1>4, <1>5, <2>1 DEF LedgerInv, OnePlace
<1>10. OnePlace'
  BY <1>0, <1>3, <1>6, <1>7, <1>9 DEF LedgerInv, OnePlace
<1> QED  BY <1>0, <1>8, <1>10 DEF LedgerInv

(* The line in the hands of a worker is appended to its file.              *)
LEMMA WriteLedger ==
  ASSUME LogIInv, LedgerInv, NEW w \in m_pool, Write(w), PastLines \subseteq PastLines'
  PROVE  LedgerInv'
<1> DEFINE z == line[w]
           a == z[1]
<1> USE DEF queueVars
<1>0. /\ z \in Lines /\ z # NoLine
      /\ m_q' = m_q /\ accepted' = accepted
      /\ line \in [m_pool -> Lines \cup {NoLine}] /\ line' = [line EXCEPT ![w] = NoLine]
      /\ out \in [1 .. Len(Appends) -> Seq(Texts)] /\ out' = [out EXCEPT ![a] = Append(@, z[2])]
  BY DEF Write, LogIInv, LogTypes, BusyWorkers
<1>1. a \in AsynAppends /\ a \in 1 .. Len(Appends) /\ z = <<a, z[2]>>
  <2>1. PICK i \in AsynAppends, l \in Loggers, n \in 1 .. MaxLines : z = LineOf(i, l, n)
    BY <1>0 DEF Lines
  <2>2. z = <<z[1], z[2]>>
    BY <2>1 DEF LineOf
  <2> QED  BY <1>0, <2>2, LineShape
<1>2. z \in Carried /\ w \in InHands
  BY <1>0 DEF Carried, InHands
<1>3. /\ out[a] \in Seq(Texts) /\ Len(out[a]) \in Nat /\ Len(out'[a]) = Len(out[a]) + 1
      /\ out'[a] = Append(out[a], z[2])
      /\ \A i \in AsynAppends : i # a => out'[i] = out[i]
  BY <1>0, <1>1, AsynIsAppender
<1>4. /\ out'[a][Len(out[a]) + 1] = z[2]
      /\ \A h \in 1 .. Len(out[a]) : out'[a][h] = out[a][h]
      /\ DOMAIN out'[a] = 1 .. Len(out[a]) + 1 /\ DOMAIN out[a] = 1 .. Len(out[a])
  BY <1>3
<1> DEFINE b == z[2]
<1> HIDE DEF z, a, b
<1>5. \A x : x \in InFiles' <=> \E i \in AsynAppends : \E h \in 1 .. Len(out'[i]) : x = <<i, out'[i][h]>>
  BY DEF InFiles
<1>6. \A h \in 1 .. Len(out[a]) : out[a][h] # z[2]
  <2>1. z \notin InFiles
    BY <1>2 DEF LedgerInv, OnePlace
  <2> QED  BY <1>1, <2>1, FilesHold
<1>7. InFiles' = InFiles \cup {z}
  <2>1. ASSUME NEW x \in InFiles' PROVE x \in InFiles \/ x = z
    <3>1. PICK i \in AsynAppends : \E h \in 1 .. Len(out'[i]) : x = <<i, out'[i][h]>>
      BY <1>5, <2>1
    <3>2. CASE i # a
      BY <1>3, <3>1, <3>2, FilesHold
    <3>3. CASE i = a
      <4>1. PICK h \in 1 .. Len(out'[a]) : x = <<a, out'[a][h]>>
        BY <3>1, <3>3
      <4>2. h \in 1 .. Len(out[a]) \/ h = Len(out[a]) + 1
        BY <1>3
      <4> QED  BY <1>1, <1>4, <4>1, <4>2, FilesHold
    <3> QED  BY <3>2, <3>3
  <2>2. ASSUME NEW x \in InFiles PROVE x \in InFiles'
    <3>1. PICK i \in AsynAppends : \E h \in 1 .. Len(out[i]) : x = <<i, out[i][h]>>
      BY <2>2, FilesHold
    <3>2. PICK h \in 1 .. Len(out[i]) : x = <<i, out[i][h]>>
      BY <3>1
    <3>3. h \in 1 .. Len(out'[i]) /\ out'[i][h] = out[i][h]
      BY <1>3, <1>4, SMTT(30)
    <3> QED  BY <1>5, <3>2, <3>3
  <2>3. z \in InFiles'
    <3>1. Len(out[a]) + 1 \in 1 .. Len(out'[a])
      BY <1>3
    <3> QED  BY <1>1, <1>4, <1>5, <3>1
  <2> QED  BY <2>1, <2>2, <2>3
<1>8. line'[w] = NoLine /\ \A u \in m_pool : u # w => line'[u] = line[u]
  BY <1>0
<1>9. InHands' = InHands \ {w}
  BY <1>8 DEF InHands
<1>10. Carried' = Carried \ {z}
  <2>1. \A x : x \in Carried' <=> \E u \in m_pool : line'[u] = x /\ x # NoLine
    BY DEF Carried, InHands
  <2>2. \A u \in m_pool : u # w /\ line[u] # NoLine => line[u] # z
    BY <1>2 DEF LedgerInv, OnePlace, InHands, z
  <2>3. line[w] = z
    BY DEF z
  <2> QED  BY <1>8, <2>1, <2>2, <2>3, CarriedHold
<1>11. Queued' = Queued
  BY <1>0 DEF Queued, m_num
<1>12. AllLines' = AllLines
  BY <1>2, <1>7, <1>10, <1>11 DEF AllLines
<1>13. \A i \in AsynAppends : IsInjective(out'[i])
  <2>1. IsInjective(out'[a])
    <3> SUFFICES ASSUME NEW j \in 1 .. Len(out[a]) + 1, NEW h \in 1 .. Len(out[a]) + 1,
                        out'[a][j] = out'[a][h]
                 PROVE  j = h
      BY <1>4 DEF IsInjective
    <3>1. j \in 1 .. Len(out[a]) \/ j = Len(out[a]) + 1
      BY <1>3
    <3>2. h \in 1 .. Len(out[a]) \/ h = Len(out[a]) + 1
      BY <1>3
    <3>3. IsInjective(out[a])
      BY <1>1 DEF LedgerInv, OnePlace
    <3> QED  BY <1>4, <1>6, <3>1, <3>2, <3>3 DEF IsInjective
  <2> QED  BY <1>3, <2>1 DEF LedgerInv, OnePlace
<1>14. \A u, v \in InHands' : line'[u] = line'[v] => u = v
  BY <1>8, <1>9 DEF LedgerInv, OnePlace, InHands
<1>15. z \notin Queued
  BY <1>2 DEF LedgerInv, OnePlace
<1>16. OnePlace'
  BY <1>0, <1>7, <1>10, <1>11, <1>13, <1>14, <1>15 DEF LedgerInv, OnePlace
<1> QED  BY <1>0, <1>12, <1>16 DEF LedgerInv

LEMMA LedgerStarts == LogInit => LedgerInv
<1> SUFFICES ASSUME LogInit PROVE LedgerInv
  OBVIOUS
<1>1. InFiles = {}
  BY AsynIsAppender DEF InFiles, LogInit
<1>2. InHands = {} /\ Carried = {} /\ Queued = {}
  BY DEF InHands, Carried, Queued, LogInit, m_num
<1>3. OnePlace
  BY <1>1, <1>2, AsynIsAppender DEF OnePlace, IsInjective, LogInit
<1>4. AllLines = {} /\ accepted = 0
  BY <1>1, <1>2 DEF AllLines, LogInit
<1> QED  BY <1>3, <1>4, FS_EmptySet DEF LedgerInv

LEMMA LedgerGoesOn ==
  ASSUME EventsTold, LogIInv, LedgerInv, [LogNext]_logVars
  PROVE  LedgerInv'
<1>0. LogIInv' /\ PastLines \subseteq PastLines'
  BY LogGoesOn, LoggersGoForward
<1>1. ASSUME NEW l \in Loggers, Push(l) PROVE LedgerInv'
  BY <1>0, <1>1, PushLedger
<1>2. ASSUME NEW w \in m_pool, PopLine(w) PROVE LedgerInv'
  BY <1>0, <1>2, PopLedger
<1>3. ASSUME NEW w \in m_pool, Write(w) PROVE LedgerInv'
  BY <1>0, <1>3, WriteLedger
<1>4. ASSUME NEW l \in Loggers, AppendSync(l) PROVE LedgerInv'
  <2>1. m_q' = m_q /\ line' = line /\ accepted' = accepted
    BY <1>4 DEF AppendSync, queueVars
  <2>2. \A i \in AsynAppends : out'[i] = out[i]
    <3>1. at[l] \notin AsynAppends /\ out' = [out EXCEPT ![at[l]] = Append(@, Formatted(l))]
      BY <1>4 DEF AppendSync, AsynAppends
    <3>2. out \in [1 .. Len(Appends) -> Seq(Texts)]
      BY DEF LogIInv, LogTypes
    <3> QED  BY <3>1, <3>2, AsynIsAppender
  <2> QED  BY <1>0, <2>1, <2>2, LedgerKept
<1>5. ASSUME UNCHANGED <<m_q, line, accepted, out>> PROVE LedgerInv'
  BY <1>0, <1>5, LedgerKept
<1>6. ASSUME NEW l \in Loggers, Logging(l), ~Push(l), ~AppendSync(l)
      PROVE  UNCHANGED <<m_q, line, accepted, out>>
  BY <1>6 DEF Logging, Log, LogReturn, AppendSkip, PushFlag, PushBlock, PushDestroyed, queueVars
<1>7. ASSUME NEW w \in m_pool, RunLoop(w), ~PopLine(w), ~Write(w)
      PROVE  UNCHANGED <<m_q, line, accepted, out>>
  BY <1>7 DEF RunLoop, RunCheck, PopWait, PopBlock, PopNothing, queueVars
<1>8. ASSUME Exit \/ (\E t \in Threads : SpuriousWakeup(t)) \/ UNCHANGED logVars
      PROVE  UNCHANGED <<m_q, line, accepted, out>>
  BY <1>8 DEF Exit, ClearFlag, ExitNotify, ExitJoin, ExitDestroy, SpuriousWakeup, queueVars, logVars
<1> QED  BY <1>1, <1>2, <1>3, <1>4, <1>5, <1>6, <1>7, <1>8 DEF LogNext

(* What is pushed after the last worker has gone is all that is in the     *)
(* queue from then on.                                                     *)
LateInv == /\ late \in Nat
           /\ WorkersGone => m_num = late
           /\ ~WorkersGone => late = 0

LEMMA LateStarts == LogInit => LateInv
BY DEF LogInit, LateInv, m_num

LEMMA LateGoesOn ==
  ASSUME LogIInv, LateInv, [LogNext]_logVars
  PROVE  LateInv'
<1> USE DEF LateInv, queueVars
<1>0. /\ place \in [Threads -> Places] /\ m_pool \subseteq Threads /\ m_num \in Nat
      /\ \A l \in Loggers : l \notin m_pool
  BY LogSetsAssumption DEF LogIInv, LogTypes, Threads, m_num
<1>1. ASSUME NEW l \in Loggers, Push(l) PROVE LateInv'
  <2>1. \A w \in m_pool : place'[w] = "exited" <=> place[w] = "exited"
    BY <1>0, <1>1 DEF Push, NotifyAll
  <2>2. WorkersGone' <=> WorkersGone
    BY <2>1 DEF WorkersGone
  <2>3. m_q' = Append(m_q, <<at[l], Formatted(l)>>) /\ late' = IF WorkersGone THEN late + 1 ELSE late
    BY <1>1 DEF Push
  <2>4. m_num' = m_num + 1
    <3> DEFINE x == <<at[l], Formatted(l)>>
    <3>1. m_q \in Seq(Lines) /\ m_q' = Append(m_q, x)
      BY <2>3 DEF LogIInv, LogTypes
    <3> HIDE DEF x
    <3> QED  BY <2>3, <3>1, LogGoesOn DEF m_num, LogIInv, LogTypes
  <2> QED  BY <2>2, <2>3, <2>4
<1>2. ASSUME NEW l \in Loggers, Logging(l), ~Push(l) PROVE LateInv'
  <2>1. m_q' = m_q /\ late' = late
    BY <1>2 DEF Logging, Log, LogReturn, AppendSkip, AppendSync, PushFlag, PushBlock, PushDestroyed
  <2>2. place' = place \/ \E p \in Places : place' = [place EXCEPT ![l] = p]
    BY <1>2 DEF Logging, Log, LogReturn, AppendSkip, AppendSync, PushFlag, PushBlock,
                PushDestroyed, Places
  <2>3. \A w \in m_pool : place'[w] = place[w]
    BY <1>0, <2>2
  <2>4. WorkersGone' <=> WorkersGone
    BY <2>3 DEF WorkersGone
  <2> QED  BY <2>1, <2>4 DEF m_num
<1>3. ASSUME NEW w \in m_pool, RunLoop(w) PROVE LateInv'
  <2>1. place[w] # "exited" /\ late' = late /\ ~WorkersGone /\ late = 0
    BY <1>3 DEF RunLoop, RunCheck, PopWait, PopBlock, PopNothing, PopLine, Write, WorkersGone
  <2>2. place'[w] = "exited" => m_num = 0 /\ m_q' = m_q
    BY <1>0, <1>3 DEF RunLoop, RunCheck, PopWait, PopBlock, PopNothing, PopLine, Write
  <2>3. WorkersGone' => place'[w] = "exited"
    BY DEF WorkersGone
  <2> QED  BY <2>1, <2>2, <2>3 DEF m_num
<1>4. ASSUME Exit \/ (\E t \in Threads : SpuriousWakeup(t)) \/ UNCHANGED logVars
      PROVE  LateInv'
  <2>1. m_q' = m_q /\ late' = late
    BY <1>4 DEF Exit, ClearFlag, ExitNotify, ExitJoin, ExitDestroy, SpuriousWakeup, logVars
  <2>2. \A w \in m_pool : place'[w] = "exited" <=> place[w] = "exited"
    BY <1>0, <1>4 DEF Exit, ClearFlag, ExitNotify, ExitJoin, ExitDestroy, NotifyAll,
                      SpuriousWakeup, logVars
  <2>3. WorkersGone' <=> WorkersGone
    BY <2>2 DEF WorkersGone
  <2> QED  BY <2>1, <2>3 DEF m_num
<1> QED  BY <1>1, <1>2, <1>3, <1>4 DEF LogNext

(* A line that push accepted is in one place, once, and once the last      *)
(* worker has gone it is in its file, unless it was pushed after that: if  *)
(* no two events look the same to an asynchronous appender, without which  *)
(* lines could not be told apart in a file.                                *)
THEOREM LinesKept == LogSpec => [](EventsTold => LinesWrittenOnce)
<1>1. LogInit => LateInv /\ (EventsTold => LedgerInv)
  BY LateStarts, LedgerStarts
<1>2. LogIInv /\ LateInv /\ (EventsTold => LedgerInv) /\ [LogNext]_logVars
        => (LateInv /\ (EventsTold => LedgerInv))'
  <2>1. EventsTold' <=> EventsTold
    BY DEF EventsTold, AsynAppends, Events, m_format
  <2> QED  BY <2>1, LateGoesOn, LedgerGoesOn
<1>3. LogIInv /\ LateInv /\ (EventsTold => LedgerInv) => (EventsTold => LinesWrittenOnce)
  <2>1. LogIInv /\ WorkersGone => Carried = {}
    BY DEF LogIInv, BusyWorkers, WorkersGone, Carried, InHands
  <2> QED  BY <2>1 DEF LogIInv, LateInv, LedgerInv, LinesWrittenOnce, AllLines
<1> QED  BY <1>1, <1>2, <1>3, LogInvariance, PTL DEF LogSpec
=============================================================================
