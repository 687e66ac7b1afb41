--------------------------- MODULE ScheduleProofs ---------------------------
(***************************************************************************)
(* Proofs about Schedule, for any number of pool threads, of callbacks and *)
(* of fibers scheduled again any number of times.  Without userCall the    *)
(* constructing thread never enters run(), and then the mutex is one; that *)
(* is what keeps a thread from going to sleep on a task.  And a fiber that *)
(* is scheduled again only when it has been left is in one place.          *)
(***************************************************************************)
EXTENDS Schedule, FiniteSetTheorems, SequenceTheorems, TLAPS

(* The places of a thread, and the threads that the idle counter counts.   *)
States == {"new", "lock", "predicate", "block", "asleep", "woken", "take", "run", "fiber",
           "leaving", "ran", "exited"}
Idle == {t \in Threads : pc[t] \in {"predicate", "block", "asleep", "woken", "take"}}

(* Who has a task, and that it is one that was scheduled; a fiber that has *)
(* not been is as Fiber::Fiber left it.                                    *)
TasksHeld ==
  /\ task \in [Threads -> Tasks \cup {NoTask}] /\ fresh \subseteq Tasks
  /\ \A f \in fresh \cap Fibers : m_s[f] = "INIT" /\ saved[f]
  /\ \A t \in Threads : /\ pc[t] \in {"run", "fiber", "leaving"} => task[t] \in Tasks \ fresh
                        /\ pc[t] \in {"fiber", "leaving"} => task[t] \in Fibers

(* Nobody runs before start(), nor ever the constructing thread without    *)
(* userCall.                                                               *)
Unstarted == /\ app = "created" => \A t \in Threads : pc[t] = "new"
             /\ ~userCall => pc[Root] = "new"

(* Without userCall: the mutex is held by one thread between its lock and  *)
(* its wait or its unlock, by a unique_lock that knows; what a thread has  *)
(* found in the predicate still holds when it acts upon it.                *)
MutexWorks ==
  /\ \A t \in Threads : pc[t] \in {"predicate", "block", "take"} => mutex
  /\ \A t, u \in Threads :
       {pc[t], pc[u]} \subseteq {"predicate", "block", "take"} => t = u
  /\ \A t \in Threads : /\ owns[t] = "lock" <=> t \in Idle
                        /\ pc[t] = "block" => m_task = <<>>
                        /\ pc[t] = "take" => m_task # <<>> \/ m_stop

(* The context of a fiber that runs is not saved.                          *)
RunningUnsaved == \A t \in Threads : pc[t] \in {"fiber", "leaving"} => ~saved[task[t]]

(* As long as no fiber was scheduled again in haste, a task is queued once *)
(* or with one thread, and a fiber that waits to be run can be.            *)
OnePlace ==
  /\ \A i, j \in DOMAIN m_task : m_task[i] = m_task[j] => i = j
  /\ \A t, u \in Threads : {pc[t], pc[u]} \subseteq {"run", "fiber", "leaving"}
                           /\ task[t] = task[u] => t = u
  /\ \A t \in Threads, i \in DOMAIN m_task :
       pc[t] \in {"run", "fiber", "leaving"} => task[t] # m_task[i]
  /\ \A i \in DOMAIN m_task : m_task[i] \in Fibers =>
       saved[m_task[i]] /\ m_s[m_task[i]] # "TERM"
  /\ \A t \in Threads : pc[t] = "run" /\ task[t] \in Fibers =>
       saved[task[t]] /\ m_s[task[t]] # "TERM"

(* The inductive invariant.  Nothing is claimed of undefined behaviour but *)
(* what led to it.                                                         *)
IInv == /\ TypeOK /\ FiberOnOneThread /\ SleeperIsTickled /\ TasksHeld /\ Unstarted
        /\ ~undefined => /\ ~userCall => MutexWorks
                         /\ ~hasty => OnePlace
                         /\ RunningUnsaved
-----------------------------------------------------------------------------
(* The threads are finitely many; their number when one begins or ceases   *)
(* to be idle.                                                             *)
LEMMA IdleCounted ==
  ASSUME NEW t \in Threads
  PROVE  /\ Cardinality(Idle) \in Nat
         /\ Idle' = Idle => Cardinality(Idle') = Cardinality(Idle)
         /\ t \notin Idle /\ Idle' = Idle \cup {t} => Cardinality(Idle') = Cardinality(Idle) + 1
         /\ t \in Idle /\ Idle' = Idle \ {t} => Cardinality(Idle') = Cardinality(Idle) - 1
<1>1. IsFiniteSet(Threads)
  BY ThreadsAssumption, FS_AddElement DEF Threads
<1>2. Idle \in SUBSET Threads
  BY DEF Idle
<1> QED  BY <1>1, <1>2, FS_Subset, FS_CardinalityType, FS_AddElement, FS_RemoveElement

(* A broadcast moves threads that sleep, and no others.                    *)
LEMMA Notified ==
  ASSUME TypeOK
  PROVE  /\ NotifyAll(pc) \in [Threads -> States]
         /\ \A t \in Threads : /\ NotifyAll(pc)[t] # "asleep"
                               /\ NotifyAll(pc)[t] = pc[t] \/ (pc[t] = "asleep" /\ NotifyAll(pc)[t] = "woken")
BY DEF TypeOK, NotifyAll, States

(* The head and the tail of a queue that has them.                         *)
LEMMA HeadAndRest ==
  ASSUME NEW S, NEW s \in Seq(S), s # <<>>
  PROVE  /\ 1 \in DOMAIN s /\ Head(s) = s[1] /\ Head(s) \in S
         /\ Tail(s) \in Seq(S)
         /\ \A i \in DOMAIN Tail(s) : i + 1 \in DOMAIN s /\ Tail(s)[i] = s[i + 1] /\ i \in Nat
<1>1. /\ Len(s) \in Nat \ {0} /\ DOMAIN s = 1 .. Len(s)
      /\ Head(s) = s[1] /\ Head(s) \in S
      /\ Tail(s) \in Seq(S) /\ Len(Tail(s)) = Len(s) - 1
      /\ \A i \in 1 .. Len(s) - 1 : Tail(s)[i] = s[i + 1]
  BY EmptySeq, LenProperties, HeadTailProperties, ElementOfSeq
<1>2. DOMAIN Tail(s) = 1 .. Len(s) - 1
  BY <1>1, LenProperties
<1> DEFINE n == Len(s)
<1> HIDE DEF n
<1>3. n \in Nat \ {0} /\ DOMAIN s = 1 .. n /\ DOMAIN Tail(s) = 1 .. n - 1
  BY <1>1, <1>2 DEF n
<1>4. 1 \in DOMAIN s /\ \A i \in DOMAIN Tail(s) : i + 1 \in DOMAIN s /\ i \in Nat
  BY <1>3
<1> QED  BY <1>1, <1>2, <1>4

(* A queue with one more task at its end.                                  *)
LEMMA OneMore ==
  ASSUME NEW S, NEW s \in Seq(S), NEW x \in S
  PROVE  /\ Append(s, x) \in Seq(S) /\ Append(s, x) # <<>>
         /\ \A i \in DOMAIN Append(s, x) :
              (i \in DOMAIN s /\ Append(s, x)[i] = s[i]) \/ (i = Len(s) + 1 /\ Append(s, x)[i] = x)
<1>1. /\ Append(s, x) \in Seq(S) /\ Len(Append(s, x)) = Len(s) + 1
      /\ \A i \in 1 .. Len(s) : Append(s, x)[i] = s[i]
      /\ Append(s, x)[Len(s) + 1] = x
  BY AppendProperties
<1>2. Len(s) \in Nat /\ DOMAIN s = 1 .. Len(s)
  BY LenProperties
<1>3. DOMAIN Append(s, x) = 1 .. Len(s) + 1
  BY <1>1, LenProperties
<1>4. Append(s, x) # <<>>
  BY <1>1, <1>2, EmptySeq
<1> DEFINE n == Len(s)
<1>5. n \in Nat
  BY <1>2
<1> HIDE DEF n
<1>6. \A i \in 1 .. n + 1 : i \in 1 .. n \/ i = n + 1
  BY <1>5
<1> QED  BY <1>1, <1>2, <1>3, <1>4, <1>6 DEF n
-----------------------------------------------------------------------------
(* Nothing is scheduled and no thread has been started.                    *)
LEMMA InitIInv == Init => IInv
<1> SUFFICES ASSUME Init PROVE IInv
  OBVIOUS
<1> USE DEF Init, MakeContexts
<1>1. m_task \in Seq(Tasks \ fresh) /\ DOMAIN m_task = {}
  BY EmptySeq
<1>2. Idle = {} /\ Cardinality(Idle) = 0
  BY FS_EmptySet DEF Idle
<1>3. TypeOK
  <2>1. idle = Cardinality({t \in Threads : pc[t] \in {"predicate", "block", "asleep", "woken", "take"}})
    BY <1>2 DEF Idle
  <2>2. again \in 0 .. MaxAgain
    BY TasksAssumption
  <2> QED  BY <1>1, <2>1, <2>2 DEF TypeOK
<1>4. FiberOnOneThread /\ SleeperIsTickled /\ Unstarted /\ RunningUnsaved
  BY DEF FiberOnOneThread, SleeperIsTickled, Unstarted, RunningUnsaved, Threads
<1>5. TasksHeld
  BY DEF TasksHeld, Tasks, NoTask
<1>6. MutexWorks
  BY <1>2 DEF MutexWorks
<1>7. OnePlace
  BY <1>1 DEF OnePlace
<1> QED  BY <1>3, <1>4, <1>5, <1>6, <1>7 DEF IInv

(* The types, the idle counter, and what has been scheduled.               *)
LEMMA RunTypes ==
  ASSUME IInv, NEW t \in Threads, Run(t)
  PROVE  TypeOK' /\ TasksHeld' /\ Unstarted'
<1> USE DEF Goto, config, taskVars, fiberVars, againVars, threadVars
<1>1. TypeOK /\ TasksHeld /\ Unstarted /\ Root \in Threads
  BY DEF IInv, Threads
<1>2. idle = Cardinality(Idle) /\ Cardinality(Idle) \in Nat
  BY <1>1, IdleCounted DEF TypeOK, Idle
<1>3. pc \in [Threads -> States] /\ owns \in [Threads -> {"none", "lock", "raw"}]
  BY <1>1 DEF TypeOK, States
<1>4. ASSUME UNCHANGED <<m_task, m_stop, fresh, m_s, saved, again, hasty>>, mutex' \in BOOLEAN,
             owns' \in [Threads -> {"none", "lock", "raw"}], pc' \in [Threads -> States],
             idle' = Cardinality(Idle')
      PROVE  TypeOK'
  BY <1>1, <1>4 DEF TypeOK, Idle, States
<1>5. ASSUME UNCHANGED <<userCall, app, task, fresh, m_s, saved>>,
             NEW to \in States \ {"run", "fiber", "leaving"}, pc' = [pc EXCEPT ![t] = to], pc[t] # "new"
      PROVE  TasksHeld' /\ Unstarted' /\ pc' \in [Threads -> States]
  BY <1>1, <1>3, <1>5 DEF TasksHeld, Unstarted, Tasks, States
<1>6. CASE Lock(t)
  <2>1. Idle' = Idle \cup {t} /\ t \notin Idle
    BY <1>3, <1>6 DEF Lock, Idle
  <2>2. idle' = Cardinality(Idle')
    BY <1>2, <1>6, <2>1, IdleCounted DEF Lock
  <2>3. mutex' \in BOOLEAN /\ owns' \in [Threads -> {"none", "lock", "raw"}]
    BY <1>1, <1>3, <1>6 DEF Lock, TypeOK
  <2> QED  BY <1>4, <1>5, <1>6, <2>2, <2>3 DEF Lock, States
<1>7. CASE Predicate(t)
  <2>1. Idle' = Idle
    BY <1>3, <1>7 DEF Predicate, Idle
  <2>2. PICK to \in {"take", "block"} : pc' = [pc EXCEPT ![t] = to]
    BY <1>7 DEF Predicate
  <2> QED  BY <1>1, <1>2, <1>3, <1>4, <1>5, <1>7, <2>1, <2>2 DEF Predicate, States, TypeOK
<1>8. CASE Block(t)
  <2>1. Idle' = Idle
    BY <1>3, <1>8 DEF Block, Idle
  <2>2. owns' \in [Threads -> {"none", "lock", "raw"}]
    BY <1>3, <1>8 DEF Block
  <2> QED  BY <1>1, <1>2, <1>4, <1>5, <1>8, <2>1, <2>2 DEF Block, States
<1>9. CASE Relock(t)
  <2>1. Idle' = Idle
    BY <1>3, <1>9 DEF Relock, Idle
  <2>2. owns' \in [Threads -> {"none", "lock", "raw"}]
    BY <1>3, <1>9 DEF Relock
  <2> QED  BY <1>1, <1>2, <1>4, <1>5, <1>9, <2>1, <2>2 DEF Relock, States
<1>10. CASE Break(t)
  <2>1. Idle' = Idle \ {t} /\ t \in Idle
    BY <1>3, <1>10 DEF Break, Idle
  <2>2. idle' = Cardinality(Idle')
    BY <1>2, <1>10, <2>1, IdleCounted DEF Break
  <2>3. mutex' \in BOOLEAN /\ owns' \in [Threads -> {"none", "lock", "raw"}]
    BY <1>1, <1>3, <1>10 DEF Break, Unlock, TypeOK
  <2> QED  BY <1>4, <1>5, <1>10, <2>2, <2>3 DEF Break, States
<1>11. CASE TakeUndefined(t)
  BY <1>1, <1>11 DEF TakeUndefined, TypeOK, TasksHeld, Unstarted
<1>12. CASE Take(t)
  <2>1. Idle' = Idle \ {t} /\ t \in Idle
    BY <1>3, <1>12 DEF Take, Idle
  <2>2. idle' = Cardinality(Idle')
    BY <1>2, <1>12, <2>1, IdleCounted DEF Take
  <2>3. mutex' \in BOOLEAN /\ owns' \in [Threads -> {"none", "lock", "raw"}]
    BY <1>1, <1>3, <1>12 DEF Take, Unlock, TypeOK
  <2>4. Head(m_task) \in Tasks \ fresh /\ Tail(m_task) \in Seq(Tasks \ fresh)
    BY <1>1, <1>12, HeadAndRest DEF Take, TypeOK
  <2>5. pc[t] = "take" /\ pc'[t] = "run" /\ \A u \in Threads \ {t} : pc'[u] = pc[u]
    BY <1>3, <1>12 DEF Take
  <2>6. /\ task' \in [Threads -> Tasks \cup {NoTask}] /\ task'[t] = Head(m_task)
        /\ \A u \in Threads \ {t} : task'[u] = task[u]
    BY <1>1, <1>12, <2>4 DEF Take, TasksHeld
  <2>7. TypeOK'
    BY <1>1, <1>12, <2>2, <2>3, <2>4 DEF Take, TypeOK, Idle
  <2>8. TasksHeld' /\ Unstarted'
    BY <1>1, <1>12, <2>4, <2>5, <2>6 DEF Take, TasksHeld, Unstarted, Tasks
  <2> QED  BY <2>7, <2>8
<1>13. CASE RunCallback(t)
  <2>1. Idle' = Idle
    BY <1>3, <1>13 DEF RunCallback, Idle
  <2>2. /\ task' \in [Threads -> Tasks \cup {NoTask}]
        /\ \A u \in Threads \ {t} : task'[u] = task[u] /\ pc'[u] = pc[u]
        /\ pc[t] = "run" /\ pc'[t] = "ran" /\ pc' \in [Threads -> States]
    BY <1>1, <1>3, <1>13 DEF RunCallback, TasksHeld, States
  <2>3. UNCHANGED <<userCall, app, fresh, m_s, saved>>
    BY <1>13 DEF RunCallback
  <2>4. TasksHeld'
    BY <1>1, <2>2, <2>3 DEF TasksHeld, Tasks
  <2>5. Unstarted'
    BY <1>1, <2>2, <2>3 DEF Unstarted
  <2> QED  BY <1>1, <1>2, <1>3, <1>4, <1>13, <2>1, <2>2, <2>4, <2>5 DEF RunCallback, TypeOK
<1>14. CASE swapIn(t)
  <2>1. Idle' = Idle
    BY <1>3, <1>14 DEF swapIn, Idle
  <2>2. /\ \A u \in Threads \ {t} : pc'[u] = pc[u]
        /\ pc[t] = "run" /\ pc'[t] = "fiber" /\ pc' \in [Threads -> States]
        /\ task[t] \in Fibers /\ task[t] \in Tasks \ fresh
    BY <1>1, <1>3, <1>14 DEF swapIn, TasksHeld, States
  <2>3. saved' \in [Fibers -> BOOLEAN] /\ \A f \in Fibers \ {task[t]} : saved'[f] = saved[f]
    BY <1>1, <1>14, <2>2 DEF swapIn, TypeOK
  <2>4. TasksHeld' /\ Unstarted'
    BY <1>1, <1>14, <2>2, <2>3 DEF swapIn, TasksHeld, Unstarted, Tasks
  <2> QED  BY <1>1, <1>2, <1>14, <2>1, <2>2, <2>3, <2>4 DEF swapIn, TypeOK, Idle, States
<1>15. CASE Yield(t) \/ MainFunc(t)
  <2>1. Idle' = Idle
    BY <1>3, <1>15 DEF Yield, MainFunc, Idle
  <2>2. /\ \A u \in Threads \ {t} : pc'[u] = pc[u]
        /\ pc[t] = "fiber" /\ pc'[t] = "leaving" /\ pc' \in [Threads -> States]
        /\ UNCHANGED <<userCall, rootId, m_task, m_stop, mutex, idle, owns, task, app, fresh,
                       saved, again, hasty>>
    BY <1>1, <1>3, <1>15 DEF Yield, MainFunc, TasksHeld, States
  <2>3. task[t] \in Fibers /\ task[t] \in Tasks \ fresh
    BY <1>1, <2>2 DEF TasksHeld
  <2>4. PICK state \in {"READY", "HOLD", "TERM"} : m_s' = [m_s EXCEPT ![task[t]] = state]
    BY <1>15 DEF Yield, MainFunc
  <2>5. /\ m_s' \in [Fibers -> {"INIT", "HOLD", "READY", "TERM"}]
        /\ \A f \in Fibers \ {task[t]} : m_s'[f] = m_s[f]
    BY <1>1, <2>3, <2>4 DEF TypeOK
  <2>6. TasksHeld'
    <3>1. \A f \in fresh \cap Fibers : m_s'[f] = "INIT" /\ saved[f]
      BY <1>1, <2>3, <2>5 DEF TasksHeld
    <3> QED  BY <1>1, <2>2, <2>3, <3>1 DEF TasksHeld
  <2>7. Unstarted'
    BY <1>1, <2>2 DEF Unstarted
  <2> QED  BY <1>1, <1>2, <2>1, <2>2, <2>5, <2>6, <2>7 DEF TypeOK, Idle, States
<1>16. CASE swapOut(t)
  <2>1. Idle' = Idle
    BY <1>3, <1>16 DEF swapOut, Idle
  <2>2. /\ \A u \in Threads \ {t} : pc'[u] = pc[u] /\ task'[u] = task[u]
        /\ pc[t] = "leaving" /\ pc'[t] = "ran" /\ pc' \in [Threads -> States]
        /\ task' \in [Threads -> Tasks \cup {NoTask}]
    BY <1>1, <1>3, <1>16 DEF swapOut, TasksHeld, States
  <2>3. task[t] \in Fibers /\ task[t] \in Tasks \ fresh
    BY <1>1, <2>2 DEF TasksHeld
  <2>4. saved' \in [Fibers -> BOOLEAN] /\ \A f \in Fibers \ {task[t]} : saved'[f] = saved[f]
    BY <1>1, <1>16, <2>3 DEF swapOut, TypeOK
  <2>5. TasksHeld' /\ Unstarted'
    BY <1>1, <1>16, <2>2, <2>3, <2>4 DEF swapOut, TasksHeld, Unstarted, Tasks
  <2> QED  BY <1>1, <1>2, <1>16, <2>1, <2>2, <2>4, <2>5 DEF swapOut, TypeOK, Idle, States
<1>17. CASE TickleOthers(t)
  <2> DEFINE tickled == IF m_task # <<>> /\ idle > 0 THEN NotifyAll(pc) ELSE pc
  <2>1. /\ tickled \in [Threads -> States]
        /\ \A u \in Threads : tickled[u] = pc[u] \/ (pc[u] = "asleep" /\ tickled[u] = "woken")
    BY <1>1, <1>3, Notified
  <2>2. pc[t] = "ran" /\ pc' = [tickled EXCEPT ![t] = "lock"]
    BY <1>17 DEF TickleOthers
  <2> HIDE DEF tickled
  <2>3. /\ pc' \in [Threads -> States] /\ pc'[t] = "lock"
        /\ \A u \in Threads \ {t} : pc'[u] = pc[u] \/ (pc[u] = "asleep" /\ pc'[u] = "woken")
    BY <2>1, <2>2 DEF States
  <2>4. Idle' = Idle
    BY <2>2, <2>3 DEF Idle
  <2>5. TasksHeld' /\ Unstarted'
    BY <1>1, <1>17, <2>2, <2>3 DEF TickleOthers, TasksHeld, Unstarted, Tasks
  <2> QED  BY <1>1, <1>2, <1>3, <1>4, <1>17, <2>3, <2>4, <2>5 DEF TickleOthers, TypeOK
<1> QED  BY <1>6, <1>7, <1>8, <1>9, <1>10, <1>11, <1>12, <1>13, <1>14, <1>15, <1>16, <1>17
         DEF Run, RunTask

(* Without userCall: who has the mutex, and who sleeps.                    *)
LEMMA RunMutex ==
  ASSUME IInv, ~undefined, ~userCall, NEW t \in Threads, Run(t)
  PROVE  SleeperIsTickled' /\ (~undefined' => MutexWorks')
<1> USE DEF Goto, config, taskVars, fiberVars, againVars, threadVars
<1>1. TypeOK /\ Unstarted /\ SleeperIsTickled /\ MutexWorks /\ Root \in Threads /\ Pool \subseteq Threads
  BY DEF IInv, Threads
<1>2. pc \in [Threads -> States] /\ owns \in [Threads -> {"none", "lock", "raw"}]
  BY <1>1 DEF TypeOK, States
<1>3. t # Root /\ pc[Root] = "new"
  <2>1. pc[Root] = "new"
    BY <1>1 DEF Unstarted
  <2> QED  BY <2>1 DEF Run, RunTask, Lock, Predicate, Block, Relock, Break, TakeUndefined, Take,
              RunCallback, swapIn, Yield, MainFunc, swapOut, TickleOthers
<1>4. ASSUME UNCHANGED <<m_task, m_stop, mutex, owns, userCall, tickling>>,
             \A u \in Threads :
               \/ pc'[u] = pc[u]
               \/ pc[u] = "asleep" /\ pc'[u] = "woken"
               \/ /\ pc[u] \notin {"predicate", "block", "asleep", "woken", "take"}
                  /\ pc'[u] \notin {"predicate", "block", "asleep", "woken", "take"}
      PROVE  SleeperIsTickled' /\ MutexWorks'
  <2>1. Idle' = Idle
    BY <1>4 DEF Idle
  <2>2. SleeperIsTickled'
    BY <1>1, <1>4 DEF SleeperIsTickled
  <2>3. MutexWorks'
    BY <1>1, <1>4, <2>1 DEF MutexWorks
  <2> QED  BY <2>2, <2>3
<1>5. CASE Lock(t)
  <2>1. /\ pc[t] = "lock" /\ pc'[t] = "predicate" /\ \A u \in Threads \ {t} : pc'[u] = pc[u]
        /\ UNCHANGED <<m_task, m_stop, userCall, tickling>> /\ ~mutex
    BY <1>2, <1>5 DEF Lock
  <2>2. SleeperIsTickled'
    BY <1>1, <2>1 DEF SleeperIsTickled
  <2>3. ASSUME ~undefined'
        PROVE  mutex' = TRUE /\ owns' = [owns EXCEPT ![t] = "lock"]
    BY <1>3, <1>5, <2>3 DEF Lock, HasMain
  <2>4. ASSUME ~undefined' PROVE MutexWorks'
    <3>1. owns'[t] = "lock" /\ \A u \in Threads \ {t} : owns'[u] = owns[u]
      BY <1>2, <2>3, <2>4
    <3>2. Idle' = Idle \cup {t}
      BY <2>1 DEF Idle
    <3> QED  BY <1>1, <2>1, <2>3, <2>4, <3>1, <3>2 DEF MutexWorks
  <2> QED  BY <2>2, <2>4
<1>6. CASE Predicate(t)
  <2>1. /\ pc[t] = "predicate" /\ pc'[t] \in {"take", "block"}
        /\ pc'[t] = "take" => m_task # <<>> \/ m_stop
        /\ pc'[t] = "block" => m_task = <<>>
        /\ \A u \in Threads \ {t} : pc'[u] = pc[u]
        /\ UNCHANGED <<m_task, m_stop, userCall, tickling, mutex, owns>>
    BY <1>2, <1>6 DEF Predicate
  <2>2. SleeperIsTickled'
    BY <1>1, <2>1 DEF SleeperIsTickled
  <2>3. Idle' = Idle
    BY <2>1 DEF Idle
  <2>4. MutexWorks'
    BY <1>1, <2>1, <2>3 DEF MutexWorks
  <2> QED  BY <2>2, <2>4
<1>7. CASE Block(t)
  <2>1. /\ pc[t] = "block" /\ pc'[t] = "asleep" /\ \A u \in Threads \ {t} : pc'[u] = pc[u]
        /\ UNCHANGED <<m_task, m_stop, userCall, tickling>> /\ mutex' = FALSE
    BY <1>2, <1>7 DEF Block
  <2>2. m_task = <<>> /\ owns[t] = "lock"
    BY <1>1, <2>1 DEF MutexWorks, Idle
  <2>3. SleeperIsTickled'
    BY <2>1, <2>2 DEF SleeperIsTickled
  <2>4. Idle' = Idle /\ owns' = owns
    BY <1>2, <1>7, <2>1, <2>2 DEF Idle, Block
  <2>5. MutexWorks'
    BY <1>1, <2>1, <2>4 DEF MutexWorks
  <2> QED  BY <2>3, <2>5
<1>8. CASE Relock(t)
  <2>1. /\ pc[t] = "woken" /\ pc'[t] = "predicate" /\ \A u \in Threads \ {t} : pc'[u] = pc[u]
        /\ UNCHANGED <<m_task, m_stop, userCall, tickling>> /\ mutex' = TRUE /\ ~mutex
    BY <1>2, <1>8 DEF Relock
  <2>2. owns[t] = "lock"
    BY <1>1, <2>1 DEF MutexWorks, Idle
  <2>3. SleeperIsTickled'
    BY <1>1, <2>1 DEF SleeperIsTickled
  <2>4. Idle' = Idle /\ owns' = owns
    BY <1>2, <1>8, <2>1, <2>2 DEF Idle, Relock
  <2>5. MutexWorks'
    BY <1>1, <2>1, <2>4 DEF MutexWorks
  <2> QED  BY <2>3, <2>5
<1>9. CASE Break(t) \/ Take(t)
  <2>1. /\ pc[t] = "take" /\ pc'[t] \in {"exited", "run"} /\ \A u \in Threads \ {t} : pc'[u] = pc[u]
        /\ UNCHANGED <<m_stop, userCall, tickling>> /\ Unlock(t)
        /\ m_task' # <<>> => m_task # <<>>
    BY <1>2, <1>9 DEF Break, Take
  <2>2. owns[t] = "lock"
    BY <1>1, <2>1 DEF MutexWorks, Idle
  <2>3. SleeperIsTickled'
    BY <1>1, <2>1 DEF SleeperIsTickled
  <2>4. /\ mutex' = FALSE /\ owns'[t] = "none" /\ \A u \in Threads \ {t} : owns'[u] = owns[u]
        /\ Idle' = Idle \ {t}
    BY <1>2, <2>1, <2>2 DEF Idle, Unlock
  <2>5. \A u \in Threads : pc'[u] \notin {"predicate", "block", "take"}
    BY <1>1, <2>1 DEF MutexWorks
  <2>6. MutexWorks'
    BY <1>1, <2>1, <2>4, <2>5 DEF MutexWorks
  <2> QED  BY <2>3, <2>6
<1>10. CASE TakeUndefined(t)
  BY <1>1, <1>10 DEF TakeUndefined, SleeperIsTickled
<1>11. CASE RunTask(t)
  <2>1. /\ UNCHANGED <<m_task, m_stop, mutex, owns, userCall, tickling>>
        /\ pc[t] \in {"run", "fiber", "leaving"} /\ pc'[t] \in {"ran", "fiber", "leaving"}
        /\ \A u \in Threads \ {t} : pc'[u] = pc[u]
    BY <1>2, <1>11 DEF RunTask, RunCallback, swapIn, Yield, MainFunc, swapOut
  <2> QED  BY <1>4, <2>1
<1>12. CASE TickleOthers(t)
  <2> DEFINE tickled == IF m_task # <<>> /\ idle > 0 THEN NotifyAll(pc) ELSE pc
  <2>1. /\ tickled \in [Threads -> States]
        /\ \A u \in Threads : tickled[u] = pc[u] \/ (pc[u] = "asleep" /\ tickled[u] = "woken")
    BY <1>1, <1>2, Notified
  <2>2. pc[t] = "ran" /\ pc' = [tickled EXCEPT ![t] = "lock"]
    BY <1>12 DEF TickleOthers
  <2> HIDE DEF tickled
  <2>3. /\ pc'[t] = "lock"
        /\ \A u \in Threads \ {t} : pc'[u] = pc[u] \/ (pc[u] = "asleep" /\ pc'[u] = "woken")
    BY <2>1, <2>2
  <2>4. UNCHANGED <<m_task, m_stop, mutex, owns, userCall, tickling>>
    BY <1>12 DEF TickleOthers
  <2> QED  BY <1>4, <2>2, <2>3, <2>4
<1> QED  BY <1>5, <1>6, <1>7, <1>8, <1>9, <1>10, <1>11, <1>12 DEF Run
-----------------------------------------------------------------------------
(* A fiber that runs is with one thread.                                   *)
OneRunner ==
  \A t, u \in Threads :
    {pc[t], pc[u]} \subseteq {"fiber", "leaving"} /\ task[t] = task[u] => t = u

(* The steps that move no task and save no context.                        *)
LEMMA PlacesStay ==
  ASSUME IInv, ~undefined, UNCHANGED <<m_task, task, m_s, saved, hasty>>,
         \A t \in Threads :
           /\ pc'[t] = "run" => pc[t] = "run"
           /\ pc'[t] \in {"fiber", "leaving"} => pc[t] \in {"fiber", "leaving"}
  PROVE  RunningUnsaved' /\ OneRunner' /\ (~hasty' => OnePlace')
<1>1. RunningUnsaved /\ OneRunner /\ (~hasty => OnePlace)
  BY DEF IInv, FiberOnOneThread, OneRunner
<1>2. RunningUnsaved' /\ OneRunner'
  BY <1>1 DEF RunningUnsaved, OneRunner
<1>3. ~hasty' => OnePlace'
  BY <1>1 DEF OnePlace
<1> QED  BY <1>2, <1>3

(* Where the tasks are.                                                    *)
LEMMA RunPlaces ==
  ASSUME IInv, ~undefined, NEW t \in Threads, Run(t), ~undefined'
  PROVE  RunningUnsaved' /\ OneRunner' /\ (~hasty' => OnePlace')
<1> USE DEF Goto, config, taskVars, fiberVars, againVars, threadVars
<1>1. TypeOK /\ TasksHeld /\ RunningUnsaved /\ OneRunner /\ (~hasty => OnePlace)
  BY DEF IInv, FiberOnOneThread, OneRunner
<1>2. pc \in [Threads -> States] /\ task \in [Threads -> Tasks \cup {NoTask}]
  BY <1>1 DEF TypeOK, TasksHeld, States
<1>3. CASE Lock(t) \/ Predicate(t) \/ Block(t) \/ Relock(t) \/ Break(t)
  <2>1. /\ UNCHANGED <<m_task, task, m_s, saved, hasty>>
        /\ pc[t] \in {"lock", "predicate", "block", "woken", "take"}
        /\ pc'[t] \in {"predicate", "take", "block", "asleep", "exited"}
        /\ \A u \in Threads \ {t} : pc'[u] = pc[u]
    BY <1>2, <1>3 DEF Lock, Predicate, Block, Relock, Break
  <2> QED  BY <2>1, PlacesStay
<1>4. CASE TakeUndefined(t)
  BY <1>4 DEF TakeUndefined
<1>5. CASE Take(t)
  <2>1. /\ 1 \in DOMAIN m_task /\ Head(m_task) = m_task[1] /\ m_task' = Tail(m_task)
        /\ \A i \in DOMAIN m_task' : i + 1 \in DOMAIN m_task /\ m_task'[i] = m_task[i + 1] /\ i \in Nat
    BY <1>1, <1>5, HeadAndRest DEF Take, TypeOK
  <2>2. /\ pc[t] = "take" /\ pc'[t] = "run" /\ task'[t] = m_task[1]
        /\ \A u \in Threads \ {t} : pc'[u] = pc[u] /\ task'[u] = task[u]
        /\ UNCHANGED <<m_s, saved, hasty>>
    BY <1>2, <1>5, <2>1 DEF Take
  <2>3. RunningUnsaved' /\ OneRunner'
    BY <1>1, <2>2 DEF RunningUnsaved, OneRunner
  <2>4. ASSUME ~hasty PROVE OnePlace'
    <3>1. \A i \in DOMAIN m_task' : m_task'[i] # m_task[1] /\ i + 1 # 1
      BY <1>1, <2>1, <2>4 DEF OnePlace
    <3>2. \A i, j \in DOMAIN m_task' : m_task'[i] = m_task'[j] => i = j
      <4>1. \A i, j \in DOMAIN m_task' : m_task'[i] = m_task'[j] => i + 1 = j + 1
        BY <1>1, <2>1, <2>4 DEF OnePlace
      <4> QED  BY <2>1, <4>1
    <3>3. \A u, v \in Threads : {pc'[u], pc'[v]} \subseteq {"run", "fiber", "leaving"}
                                /\ task'[u] = task'[v] => u = v
      BY <1>1, <2>1, <2>2, <2>4 DEF OnePlace
    <3>4. \A u \in Threads, i \in DOMAIN m_task' :
            pc'[u] \in {"run", "fiber", "leaving"} => task'[u] # m_task'[i]
      BY <1>1, <2>1, <2>2, <2>4, <3>1 DEF OnePlace
    <3>5. /\ \A i \in DOMAIN m_task' : m_task'[i] \in Fibers =>
                saved[m_task'[i]] /\ m_s[m_task'[i]] # "TERM"
          /\ \A u \in Threads : pc'[u] = "run" /\ task'[u] \in Fibers =>
                saved[task'[u]] /\ m_s[task'[u]] # "TERM"
      BY <1>1, <2>1, <2>2, <2>4 DEF OnePlace
    <3> QED  BY <2>2, <3>2, <3>3, <3>4, <3>5 DEF OnePlace
  <2> QED  BY <2>2, <2>3, <2>4
<1>6. CASE RunCallback(t) \/ swapOut(t)
  <2>1. /\ pc[t] \in {"run", "leaving"} /\ pc'[t] = "ran"
        /\ \A u \in Threads \ {t} : pc'[u] = pc[u] /\ task'[u] = task[u]
        /\ UNCHANGED <<m_task, m_s, hasty>>
        /\ UNCHANGED saved \/ (pc[t] = "leaving" /\ saved' = [saved EXCEPT ![task[t]] = TRUE])
    BY <1>2, <1>6 DEF RunCallback, swapOut
  <2>2. saved \in [Fibers -> BOOLEAN] /\ (pc[t] = "leaving" => task[t] \in Fibers)
    BY <1>1 DEF TypeOK, TasksHeld
  <2>3. \A f \in Fibers : saved'[f] = saved[f] \/ (pc[t] = "leaving" /\ f = task[t] /\ saved'[f])
    BY <2>1, <2>2
  <2>4. RunningUnsaved'
    <3>1. \A u \in Threads : pc'[u] \in {"fiber", "leaving"} =>
            u # t /\ ~saved[task[u]] /\ task'[u] = task[u] /\ task[u] \in Fibers /\ pc'[u] = pc[u]
      BY <1>1, <2>1 DEF RunningUnsaved, TasksHeld
    <3>2. \A u \in Threads : pc'[u] \in {"fiber", "leaving"} =>
            ~(pc[t] = "leaving" /\ task[u] = task[t])
      BY <1>1, <3>1 DEF OneRunner
    <3> QED  BY <2>3, <3>1, <3>2 DEF RunningUnsaved
  <2>5. OneRunner'
    BY <1>1, <2>1 DEF OneRunner
  <2>6. ASSUME ~hasty PROVE OnePlace'
    <3>1. \A f \in Fibers : saved[f] => saved'[f]
      BY <2>3
    <3> QED  BY <1>1, <2>1, <2>6, <3>1 DEF OnePlace
  <2> QED  BY <2>1, <2>4, <2>5, <2>6
<1>7. CASE swapIn(t)
  <2>1. /\ pc[t] = "run" /\ pc'[t] = "fiber" /\ \A u \in Threads \ {t} : pc'[u] = pc[u]
        /\ UNCHANGED <<m_task, task, m_s, hasty>> /\ task[t] \in Fibers
        /\ saved[task[t]] /\ saved' = [saved EXCEPT ![task[t]] = FALSE]
    BY <1>2, <1>7 DEF swapIn
  <2>2. saved \in [Fibers -> BOOLEAN]
    BY <1>1 DEF TypeOK
  <2>3. ~saved'[task[t]] /\ \A f \in Fibers \ {task[t]} : saved'[f] = saved[f]
    BY <2>1, <2>2
  <2>4. \A u \in Threads : pc[u] \in {"fiber", "leaving"} =>
          ~saved[task[u]] /\ task[u] # task[t] /\ task[u] \in Fibers
    BY <1>1, <2>1 DEF RunningUnsaved, TasksHeld
  <2>5. RunningUnsaved'
    BY <2>1, <2>3, <2>4 DEF RunningUnsaved
  <2>6. OneRunner'
    BY <1>1, <2>1, <2>4 DEF OneRunner
  <2>7. ASSUME ~hasty PROVE OnePlace'
    <3>1. \A u \in Threads \ {t} : pc[u] \in {"run", "fiber", "leaving"} => task[u] # task[t]
      BY <1>1, <2>1, <2>7 DEF OnePlace
    <3>2. \A i \in DOMAIN m_task : m_task[i] # task[t]
      BY <1>1, <2>1, <2>7 DEF OnePlace
    <3> QED  BY <1>1, <2>1, <2>3, <2>7, <3>1, <3>2 DEF OnePlace
  <2> QED  BY <2>1, <2>5, <2>6, <2>7
<1>8. CASE Yield(t) \/ MainFunc(t)
  <2>1. /\ pc[t] = "fiber" /\ pc'[t] = "leaving" /\ \A u \in Threads \ {t} : pc'[u] = pc[u]
        /\ UNCHANGED <<m_task, task, saved, hasty>>
    BY <1>2, <1>8 DEF Yield, MainFunc
  <2>2. m_s \in [Fibers -> {"INIT", "HOLD", "READY", "TERM"}]
    BY <1>1 DEF TypeOK
  <2>3. \A f \in Fibers \ {task[t]} : m_s'[f] = m_s[f]
    BY <1>8, <2>2 DEF Yield, MainFunc
  <2>4. RunningUnsaved' /\ OneRunner'
    BY <1>1, <2>1 DEF RunningUnsaved, OneRunner
  <2>5. ASSUME ~hasty PROVE OnePlace'
    <3>1. \A u \in Threads \ {t} : pc[u] \in {"run", "fiber", "leaving"} => task[u] # task[t]
      BY <1>1, <2>1, <2>5 DEF OnePlace
    <3>2. \A i \in DOMAIN m_task : m_task[i] # task[t]
      BY <1>1, <2>1, <2>5 DEF OnePlace
    <3> QED  BY <1>1, <2>1, <2>3, <2>5, <3>1, <3>2 DEF OnePlace
  <2> QED  BY <2>1, <2>4, <2>5
<1>9. CASE TickleOthers(t)
  <2> DEFINE tickled == IF m_task # <<>> /\ idle > 0 THEN NotifyAll(pc) ELSE pc
  <2>1. /\ tickled \in [Threads -> States]
        /\ \A u \in Threads : tickled[u] = pc[u] \/ (pc[u] = "asleep" /\ tickled[u] = "woken")
    BY <1>1, <1>2, Notified
  <2>2. /\ pc[t] = "ran" /\ pc' = [tickled EXCEPT ![t] = "lock"]
        /\ UNCHANGED <<m_task, task, m_s, saved, hasty>>
    BY <1>9 DEF TickleOthers
  <2> HIDE DEF tickled
  <2>3. /\ pc'[t] = "lock"
        /\ \A u \in Threads \ {t} : pc'[u] = pc[u] \/ (pc[u] = "asleep" /\ pc'[u] = "woken")
    BY <2>1, <2>2
  <2> QED  BY <2>2, <2>3, PlacesStay
<1> QED  BY <1>3, <1>4, <1>5, <1>6, <1>7, <1>8, <1>9 DEF Run, RunTask

(* Without userCall, with an m_rootId that is nobody's and no fiber        *)
(* scheduled again in haste, a step of run() is defined.                   *)
LEMMA RunDefined ==
  ASSUME IInv, ~undefined, ~userCall, rootId = Root, ~hasty, NEW t \in Threads, Run(t)
  PROVE  ~undefined'
<1> USE DEF Goto
<1>1. TasksHeld /\ Unstarted /\ MutexWorks /\ OnePlace
  BY DEF IInv
<1>2. pc[t] # "new"
  BY DEF Run, RunTask, Lock, Predicate, Block, Relock, Break, TakeUndefined, Take,
         RunCallback, swapIn, Yield, MainFunc, swapOut, TickleOthers
<1>3. t # Root /\ HasMain(t)
  BY <1>1, <1>2 DEF Unstarted, HasMain
<1>4. CASE Lock(t)
  BY <1>3, <1>4 DEF Lock
<1>5. CASE Break(t)
  BY <1>3, <1>5 DEF Break
<1>6. ASSUME TakeUndefined(t) PROVE FALSE
  <2>1. pc[t] = "take" /\ ~(m_task = <<>> /\ m_stop)
    BY <1>6 DEF TakeUndefined
  <2>2. m_task # <<>> /\ owns[t] = "lock" /\ \A u \in Threads \ {t} : pc[u] # "take"
    BY <1>1, <2>1 DEF MutexWorks, Idle
  <2> QED  BY <1>6, <2>2 DEF TakeUndefined
<1>7. CASE swapIn(t)
  BY <1>1, <1>3, <1>7 DEF swapIn, OnePlace
<1>8. CASE \/ Predicate(t) \/ Block(t) \/ Relock(t) \/ Take(t) \/ RunCallback(t)
           \/ Yield(t) \/ MainFunc(t) \/ swapOut(t) \/ TickleOthers(t)
  BY <1>8 DEF Predicate, Block, Relock, Take, RunCallback, Yield, MainFunc, swapOut, TickleOthers
<1> QED  BY <1>4, <1>5, <1>6, <1>7, <1>8 DEF Run, RunTask

(* The threads' steps.                                                     *)
LEMMA RunStep ==
  ASSUME IInv, ~undefined, NEW t \in Threads, Run(t)
  PROVE  IInv'
<1>1. UNCHANGED <<userCall, rootId, hasty>>
  BY DEF Run, RunTask, Lock, Predicate, Block, Relock, Break, TakeUndefined, Take, RunCallback,
         swapIn, Yield, MainFunc, swapOut, TickleOthers, config, taskVars, againVars
<1>2. TypeOK' /\ TasksHeld' /\ Unstarted'
  BY RunTypes
<1>3. SleeperIsTickled' /\ (~undefined' /\ ~userCall' => MutexWorks')
  <2>1. CASE userCall
    BY <1>1, <2>1 DEF SleeperIsTickled
  <2> QED  BY <1>1, <2>1, RunMutex
<1>4. ~undefined' => RunningUnsaved' /\ OneRunner' /\ (~hasty' => OnePlace')
  BY RunPlaces
<1>5. undefined' => userCall' \/ rootId' # Root \/ hasty'
  BY <1>1, RunDefined
<1>6. FiberOnOneThread'
  BY <1>4, <1>5 DEF FiberOnOneThread, OneRunner
<1> QED  BY <1>2, <1>3, <1>4, <1>6 DEF IInv
-----------------------------------------------------------------------------
(* The steps that at most wake sleepers or start threads.                  *)
LEMMA OthersWake ==
  ASSUME IInv, ~undefined,
         UNCHANGED <<config, m_task, mutex, idle, owns, task, mainCtx, taskVars, undefined>>,
         m_stop' \in BOOLEAN, m_stop => m_stop',
         app' # "created" \/ (app' = app /\ pc' = pc),
         pc' \in [Threads -> States],
         \A t \in Threads : \/ pc'[t] = pc[t]
                            \/ pc[t] = "asleep" /\ pc'[t] = "woken"
                            \/ pc[t] = "new" /\ pc'[t] = "lock" /\ (t = Root => userCall),
         tickling' = tickling \/ \A t \in Threads : pc'[t] # "asleep"
  PROVE  IInv'
<1> USE DEF config, taskVars, fiberVars, againVars
<1>1. TypeOK /\ FiberOnOneThread /\ SleeperIsTickled /\ TasksHeld /\ Unstarted /\ Root \in Threads
  BY DEF IInv, Threads
<1>2. Idle' = Idle
  BY DEF Idle
<1>3. TypeOK'
  BY <1>1, <1>2 DEF TypeOK, Idle, States
<1>4. TasksHeld'
  BY <1>1 DEF TasksHeld
<1>5. Unstarted'
  BY <1>1 DEF Unstarted
<1>6. SleeperIsTickled'
  BY <1>1 DEF SleeperIsTickled, Threads
<1>7. ASSUME ~userCall PROVE MutexWorks'
  BY <1>2, <1>7 DEF IInv, MutexWorks
<1>8. RunningUnsaved' /\ OneRunner' /\ (~hasty' => OnePlace')
  BY PlacesStay
<1>9. FiberOnOneThread'
  BY <1>1, <1>8 DEF FiberOnOneThread, OneRunner
<1> QED  BY <1>3, <1>4, <1>5, <1>6, <1>7, <1>8, <1>9 DEF IInv

(* Spurious wakeups, start(), tickle() and stop().                         *)
LEMMA OtherStep ==
  ASSUME IInv, ~undefined,
         (\E t \in Threads : SpuriousWakeup(t)) \/ Start \/ Tickle \/ Stop \/ Join
  PROVE  IInv'
<1> USE DEF Goto, Calls, threadVars
<1>1. TypeOK /\ Unstarted
  BY DEF IInv
<1>2. pc \in [Threads -> States]
  BY <1>1 DEF TypeOK, States
<1>3. ASSUME NEW t \in Threads, SpuriousWakeup(t)
      PROVE  IInv'
  <2>1. pc[t] = "asleep" /\ pc' = [pc EXCEPT ![t] = "woken"]
    BY <1>3 DEF SpuriousWakeup
  <2>2. /\ pc' \in [Threads -> States] /\ pc'[t] = "woken"
        /\ \A u \in Threads \ {t} : pc'[u] = pc[u]
    BY <1>2, <2>1 DEF States
  <2>3. app # "created" /\ m_stop \in BOOLEAN
    BY <1>1, <2>1 DEF Unstarted, TypeOK
  <2>4. UNCHANGED <<config, m_task, m_stop, mutex, idle, owns, task, mainCtx, app, tickling,
                    taskVars, undefined>>
    BY <1>3 DEF SpuriousWakeup
  <2>5. \A u \in Threads : pc'[u] = pc[u] \/ (pc[u] = "asleep" /\ pc'[u] = "woken")
    BY <2>1, <2>2
  <2> QED  BY <2>2, <2>3, <2>4, <2>5, OthersWake
<1>4. CASE Start
  <2>1. /\ \A t \in Threads : pc[t] = "new"
        /\ pc' = [t \in Threads |-> IF t \in Pool \/ userCall THEN "lock" ELSE "new"]
        /\ app' = "ready" /\ m_stop \in BOOLEAN
    BY <1>1, <1>4 DEF Start, Unstarted, TypeOK
  <2>2. /\ pc' \in [Threads -> States]
        /\ \A t \in Threads : \/ pc'[t] = pc[t]
                              \/ pc[t] = "new" /\ pc'[t] = "lock" /\ (t = Root => userCall)
    BY <2>1, ThreadsAssumption DEF States
  <2>3. UNCHANGED <<config, m_task, m_stop, mutex, idle, owns, task, mainCtx, tickling,
                    taskVars, undefined>>
    BY <1>4 DEF Start
  <2> QED  BY <2>1, <2>2, <2>3, OthersWake
<1>5. CASE Tickle
  <2>1. /\ pc' \in [Threads -> States]
        /\ \A t \in Threads : /\ pc'[t] # "asleep"
                              /\ pc'[t] = pc[t] \/ (pc[t] = "asleep" /\ pc'[t] = "woken")
    BY <1>1, <1>5, Notified DEF Tickle
  <2>2. UNCHANGED <<config, m_task, m_stop, mutex, idle, owns, task, mainCtx, app, taskVars,
                    undefined>> /\ m_stop \in BOOLEAN
    BY <1>1, <1>5 DEF Tickle, TypeOK
  <2>3. app # "created" \/ pc' = pc
    <3>1. ASSUME app = "created" PROVE pc' = pc
      <4>1. \A t \in Threads : pc[t] = "new" /\ pc'[t] = pc[t]
        BY <1>1, <2>1, <3>1 DEF Unstarted
      <4> QED  BY <1>2, <2>1, <4>1
    <3> QED  BY <3>1
  <2> QED  BY <2>1, <2>2, <2>3, OthersWake
<1>6. CASE Stop \/ Join
  <2>1. /\ UNCHANGED <<config, m_task, pc, mutex, idle, owns, task, mainCtx, tickling, taskVars,
                       undefined>>
        /\ app' \in {"joining", "joined"} /\ m_stop' \in BOOLEAN /\ (m_stop => m_stop')
    BY <1>1, <1>6 DEF Stop, Join, TypeOK
  <2> QED  BY <1>2, <2>1, OthersWake
<1> QED  BY <1>3, <1>4, <1>5, <1>6

(* schedule(): what is appended was fresh, or has yielded; and if it was   *)
(* not in haste, it is nowhere else and can go on.                         *)
LEMMA Scheduled ==
  ASSUME IInv, ~undefined, NEW x \in Tasks, schedule(x),
         fresh' = fresh \ {x}, again' \in 0 .. MaxAgain, hasty' \in BOOLEAN, hasty => hasty',
         ~hasty' => /\ \A i \in DOMAIN m_task : m_task[i] # x
                    /\ \A t \in Threads : pc[t] \in {"run", "fiber", "leaving"} => task[t] # x
                    /\ x \in Fibers => saved[x] /\ m_s[x] # "TERM"
  PROVE  IInv'
<1> USE DEF config, threadVars, fiberVars
<1>1. /\ TypeOK /\ FiberOnOneThread /\ SleeperIsTickled /\ TasksHeld /\ Unstarted
      /\ (~userCall => MutexWorks) /\ (~hasty => OnePlace) /\ RunningUnsaved
  BY DEF IInv
<1>2. /\ ~tickling /\ ~mutex /\ tickling' = (m_task = <<>>) /\ m_task' = Append(m_task, x)
      /\ UNCHANGED <<userCall, rootId, m_stop, mutex, idle, pc, owns, task, app, m_s, saved, undefined>>
  BY DEF schedule
<1>3. m_task \in Seq(Tasks \ fresh')
  <2>1. m_task \in Seq(Tasks \ fresh) /\ Tasks \ fresh \subseteq Tasks \ fresh'
    BY <1>1 DEF TypeOK
  <2> QED  BY <2>1
<1>4. /\ m_task' \in Seq(Tasks \ fresh') /\ m_task' # <<>>
      /\ \A i \in DOMAIN m_task' : \/ i \in DOMAIN m_task /\ m_task'[i] = m_task[i]
                                   \/ i = Len(m_task) + 1 /\ m_task'[i] = x
  BY <1>2, <1>3, OneMore
<1>5. Idle' = Idle
  BY <1>2 DEF Idle
<1>6. TypeOK'
  BY <1>1, <1>2, <1>4 DEF TypeOK
<1>7. FiberOnOneThread'
  BY <1>1, <1>2 DEF FiberOnOneThread
<1>8. SleeperIsTickled'
  BY <1>1, <1>2 DEF SleeperIsTickled
<1>9. TasksHeld'
  BY <1>1, <1>2 DEF TasksHeld
<1>10. Unstarted'
  BY <1>1, <1>2 DEF Unstarted
<1>11. ~userCall' => MutexWorks'
  BY <1>1, <1>2, <1>4, <1>5 DEF MutexWorks
<1>12. RunningUnsaved'
  BY <1>1, <1>2 DEF RunningUnsaved
<1>13. ASSUME ~hasty' PROVE OnePlace'
  <2>1. /\ OnePlace /\ \A i \in DOMAIN m_task : m_task[i] # x
        /\ \A t \in Threads : pc[t] \in {"run", "fiber", "leaving"} => task[t] # x
        /\ x \in Fibers => saved[x] /\ m_s[x] # "TERM"
    BY <1>1, <1>13
  <2>2. \A i, j \in DOMAIN m_task' : m_task'[i] = m_task'[j] => i = j
    BY <1>4, <2>1 DEF OnePlace
  <2>3. \A t \in Threads, i \in DOMAIN m_task' :
          pc[t] \in {"run", "fiber", "leaving"} => task[t] # m_task'[i]
    BY <1>4, <2>1 DEF OnePlace
  <2>4. \A i \in DOMAIN m_task' : m_task'[i] \in Fibers =>
          saved[m_task'[i]] /\ m_s[m_task'[i]] # "TERM"
    BY <1>4, <2>1 DEF OnePlace
  <2> QED  BY <1>2, <2>1, <2>2, <2>3, <2>4 DEF OnePlace
<1> QED  BY <1>6, <1>7, <1>8, <1>9, <1>10, <1>11, <1>12, <1>13 DEF IInv

(* What the application schedules, for the first time or again.            *)
LEMMA ScheduleStep ==
  ASSUME IInv, ~undefined, (\E x \in fresh : ScheduleTask(x)) \/ Again
  PROVE  IInv'
<1>1. TypeOK /\ TasksHeld
  BY DEF IInv
<1>2. m_task \in Seq(Tasks \ fresh) /\ \A i \in DOMAIN m_task : m_task[i] \in Tasks \ fresh
  BY <1>1, LenProperties, ElementOfSeq DEF TypeOK
<1>3. ASSUME NEW x \in fresh, ScheduleTask(x)
      PROVE  IInv'
  <2>1. /\ schedule(x) /\ fresh' = fresh \ {x} /\ again' = again /\ hasty' = hasty
    BY <1>3 DEF ScheduleTask, againVars
  <2>2. x \in Tasks /\ again \in 0 .. MaxAgain /\ hasty \in BOOLEAN
    BY <1>1 DEF TypeOK, TasksHeld
  <2>3. /\ \A i \in DOMAIN m_task : m_task[i] # x
        /\ \A t \in Threads : pc[t] \in {"run", "fiber", "leaving"} => task[t] # x
        /\ x \in Fibers => saved[x] /\ m_s[x] # "TERM"
    BY <1>1, <1>2 DEF TasksHeld
  <2> QED  BY <2>1, <2>2, <2>3, Scheduled
<1>4. ASSUME NEW f \in Fibers, ScheduleAgain(f)
      PROVE  IInv'
  <2>1. /\ schedule(f) /\ fresh' = fresh /\ again < MaxAgain /\ again' = again + 1
        /\ hasty' = (hasty \/ ~saved[f] \/ f \in Range(task) \cup Range(m_task))
        /\ m_s[f] \in {"READY", "HOLD"}
    BY <1>4 DEF ScheduleAgain
  <2>2. f \in Tasks /\ f \notin fresh /\ again' \in 0 .. MaxAgain /\ hasty' \in BOOLEAN
    <3>1. f \notin fresh
      BY <1>1, <2>1 DEF TasksHeld
    <3>2. again' \in 0 .. MaxAgain
      BY <1>1, <2>1, TasksAssumption DEF TypeOK
    <3> QED  BY <2>1, <3>1, <3>2 DEF Tasks
  <2>3. ASSUME ~hasty'
        PROVE  /\ \A i \in DOMAIN m_task : m_task[i] # f
               /\ \A t \in Threads : task[t] # f
               /\ saved[f] /\ m_s[f] # "TERM"
    BY <1>1, <2>1, <2>3 DEF Range, TasksHeld
  <2>4. fresh' = fresh \ {f} /\ (hasty => hasty')
    BY <2>1, <2>2
  <2> QED  BY <2>1, <2>2, <2>3, <2>4, Scheduled
<1> QED  BY <1>3, <1>4 DEF Again

(* The inductive invariant holds in every reachable state.                 *)
LEMMA Invariance == Spec => []IInv
<1>1. Init => IInv
  BY InitIInv
<1>2. IInv /\ [Next]_vars => IInv'
  <2> SUFFICES ASSUME IInv, [Next]_vars PROVE IInv'
    OBVIOUS
  <2>1. CASE UNCHANGED vars
    <3> USE <2>1 DEF vars, config, threadVars, taskVars, fiberVars, againVars
    <3>1. TypeOK'
      BY DEF IInv, TypeOK
    <3>2. FiberOnOneThread' /\ SleeperIsTickled' /\ TasksHeld' /\ Unstarted'
      BY DEF IInv, FiberOnOneThread, SleeperIsTickled, TasksHeld, Unstarted
    <3>3. Idle' = Idle
      BY DEF Idle
    <3>4. ~undefined' => (~userCall' => MutexWorks') /\ (~hasty' => OnePlace') /\ RunningUnsaved'
      BY <3>3 DEF IInv, MutexWorks, OnePlace, RunningUnsaved
    <3> QED  BY <3>1, <3>2, <3>4 DEF IInv
  <2>2. CASE Next
    BY <2>2, RunStep, OtherStep, ScheduleStep DEF Next, App
  <2> QED  BY <2>1, <2>2
<1> QED  BY <1>1, <1>2, PTL DEF Spec
-----------------------------------------------------------------------------
(* m_idleThreadCount is the number of threads between its ++ and its --,   *)
(* whatever happens to the mutex, and what is queued was scheduled.        *)
THEOREM IdleIsExact == Spec => []TypeOK
<1>1. IInv => TypeOK
  BY DEF IInv
<1> QED  BY <1>1, Invariance, PTL

(* run() and swapIn: no fiber is on two threads while what happens is      *)
(* defined, and that ends only by userCall, by an m_rootId that was never  *)
(* set, or by a fiber scheduled again before its thread has left it.       *)
THEOREM FibersApart == Spec => []FiberOnOneThread
<1>1. IInv => FiberOnOneThread
  BY DEF IInv
<1> QED  BY <1>1, Invariance, PTL

(* schedule() tickles when the queue was empty: with tasks in the queue no *)
(* pool thread sleeps but until the tickle() that is due.                  *)
THEOREM TickleSuffices == Spec => []SleeperIsTickled
<1>1. IInv => SleeperIsTickled
  BY DEF IInv
<1> QED  BY <1>1, Invariance, PTL
=============================================================================
