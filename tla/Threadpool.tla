----------------------------- MODULE Threadpool -----------------------------
(***************************************************************************)
(* Threadpool/Threadpool.hpp: workers that take the tasks of a queue which *)
(* the owner filled before start(), and the owner's start, stop, quit and  *)
(* destructor.  The workers' loop runs under _mutex; stop() and quit()     *)
(* write _isrunning and _isquit and broadcast WITHOUT it, and the          *)
(* destructor destroys the mutex and the condition BEFORE it joins, so the *)
(* evaluation of the wait condition, going to sleep, and each access to    *)
(* the queue are steps of their own.                                       *)
(*                                                                         *)
(* Using a destroyed mutex is undefined; the model has what glibc does:    *)
(* pthread_mutex_destroy of a held mutex fails and changes nothing,        *)
(* otherwise later locks fail at once (nobody checks the result, so the    *)
(* caller goes on without the mutex) and so does pthread_cond_wait;        *)
(* pthread_cond_destroy blocks while threads are asleep on the condition.  *)
(***************************************************************************)
EXTENDS Integers, Sequences, FiniteSets

CONSTANTS Workers,      \* the elements of _v
          NumTasks      \* tasks the owner pushed before start(), 1 .. NumTasks

ASSUME WorkersAssumption == IsFiniteSet(Workers) /\ NumTasks \in Nat

VARIABLES q,                      \* _q: the tasks left
          isrunning, isquit,      \* _isrunning, _isquit
          wait_num,               \* _wait_num
          pc, job,                \* per worker: next statement; copied task
          holders,                \* workers inside the critical section
          mutexAlive,             \* _mutex has not been destroyed
          owner,                  \* where the owner's thread is
          done,                   \* history: tasks run, in order of completion
          takenAfterQuit,         \* history: pops since _isquit was set
          crashed                 \* undefined behaviour ended the process

workerVars == <<pc, job, holders, wait_num>>
vars == <<q, isrunning, isquit, wait_num, pc, job, holders, mutexAlive,
          owner, done, takenAfterQuit, crashed>>

TaskIds == 1 .. NumTasks
NoJob == 0

Init == /\ q = [i \in TaskIds |-> i]
        /\ isrunning = FALSE /\ isquit = FALSE
        /\ wait_num = 0
        /\ pc = [w \in Workers |-> "new"]
        /\ job = [w \in Workers |-> NoJob]
        /\ holders = {}
        /\ mutexAlive = TRUE
        /\ owner = "created"
        /\ done = <<>> /\ takenAfterQuit = 0
        /\ crashed = FALSE

Goto(w, from, to) == pc[w] = from /\ pc' = [pc EXCEPT ![w] = to]
Woken(pcs) == [w \in Workers |-> IF pcs[w] = "asleep" THEN "woken" ELSE pcs[w]]
-----------------------------------------------------------------------------
(* pthread_mutex_lock, by a worker at the top of its loop or returning     *)
(* from pthread_cond_wait; in the latter case _wait_num-- follows.         *)
Lock(w) == /\ pc[w] \in {"lock", "woken"}
           /\ mutexAlive => holders = {}
           /\ holders' = holders \cup {w}
           /\ wait_num' = IF pc[w] = "woken" THEN wait_num - 1 ELSE wait_num
           /\ pc' = [pc EXCEPT ![w] = "check"]
           /\ UNCHANGED <<q, isrunning, isquit, job, mutexAlive, owner, done,
                          takenAfterQuit, crashed>>

(* while(_isrunning && _q.empty()) { _wait_num++; ...                      *)
Check(w) == /\ pc[w] = "check"
            /\ IF isrunning /\ q = <<>>
               THEN /\ pc' = [pc EXCEPT ![w] = "wait"]
                    /\ wait_num' = wait_num + 1
               ELSE /\ pc' = [pc EXCEPT ![w] = "decide"]
                    /\ UNCHANGED wait_num
            /\ UNCHANGED <<q, isrunning, isquit, job, holders, mutexAlive, owner,
                           done, takenAfterQuit, crashed>>

(* pthread_cond_wait: gives up the mutex and sleeps, in one step; with a   *)
(* destroyed mutex it returns at once and the loop goes round.             *)
Wait(w) == /\ pc[w] = "wait"
           /\ IF mutexAlive
              THEN /\ pc' = [pc EXCEPT ![w] = "asleep"]
                   /\ holders' = holders \ {w}
                   /\ UNCHANGED wait_num
              ELSE /\ pc' = [pc EXCEPT ![w] = "check"]
                   /\ wait_num' = wait_num - 1
                   /\ UNCHANGED holders
           /\ UNCHANGED <<q, isrunning, isquit, job, mutexAlive, owner, done,
                          takenAfterQuit, crashed>>

(* Mutant of Decide: quit is looked at only by idle workers.               *)
DecideIdleOnly(w) ==
  /\ pc[w] = "decide"
  /\ IF ~isrunning /\ q = <<>>
     THEN pc' = [pc EXCEPT ![w] = "exited"] /\ holders' = holders \ {w}
     ELSE pc' = [pc EXCEPT ![w] = "front"] /\ UNCHANGED holders
  /\ UNCHANGED <<q, isrunning, isquit, wait_num, job, mutexAlive, owner, done,
                 takenAfterQuit, crashed>>

(* if((!_isrunning && _q.empty()) || _isquit) { unlock; break; }           *)
Decide(w) == /\ pc[w] = "decide"
             /\ IF (~isrunning /\ q = <<>>) \/ isquit
                THEN pc' = [pc EXCEPT ![w] = "exited"] /\ holders' = holders \ {w}
                ELSE pc' = [pc EXCEPT ![w] = "front"] /\ UNCHANGED holders
             /\ UNCHANGED <<q, isrunning, isquit, wait_num, job, mutexAlive, owner,
                            done, takenAfterQuit, crashed>>

(* An access to the std::queue is undefined when the queue is empty, or    *)
(* when another worker is in the critical section too.                     *)
UndefinedAccess(w) == q = <<>> \/ holders # {w}

Crash(w) == /\ pc[w] \in {"front", "pop"}
            /\ UndefinedAccess(w)
            /\ crashed' = TRUE
            /\ UNCHANGED <<q, isrunning, isquit, workerVars, mutexAlive, owner, done,
                           takenAfterQuit>>

(* Mutant of CopyFront: the mutex is given up between front() and pop().   *)
CopyFrontUnlock(w) == /\ Goto(w, "front", "pop")
                      /\ q # <<>>
                      /\ job' = [job EXCEPT ![w] = Head(q)]
                      /\ holders' = holders \ {w}
                      /\ UNCHANGED <<q, isrunning, isquit, wait_num, mutexAlive, owner,
                                     done, takenAfterQuit, crashed>>

(* task temp = _q.front()                                                  *)
CopyFront(w) == /\ Goto(w, "front", "pop")
                /\ q # <<>>
                /\ job' = [job EXCEPT ![w] = Head(q)]
                /\ UNCHANGED <<q, isrunning, isquit, wait_num, holders, mutexAlive, owner,
                               done, takenAfterQuit, crashed>>

(* _q.pop(); if(!_q.empty() && _wait_num > 0) signal; unlock               *)
Pop(w) == /\ pc[w] = "pop"
          /\ q # <<>>
          /\ q' = Tail(q)
          /\ holders' = holders \ {w}
          /\ LET asleep == {u \in Workers : pc[u] = "asleep"}
                 running == [pc EXCEPT ![w] = "running"]
             IN  IF q' # <<>> /\ wait_num > 0 /\ asleep # {}
                 THEN \E u \in asleep : pc' = [running EXCEPT ![u] = "woken"]
                 ELSE pc' = running
          /\ takenAfterQuit' = takenAfterQuit + IF isquit THEN 1 ELSE 0
          /\ UNCHANGED <<isrunning, isquit, wait_num, job, mutexAlive, owner, done,
                         crashed>>

(* temp(); sleep(1)                                                        *)
Run(w) == /\ Goto(w, "running", "lock")
          /\ done' = Append(done, job[w])
          /\ job' = [job EXCEPT ![w] = NoJob]
          /\ UNCHANGED <<q, isrunning, isquit, wait_num, holders, mutexAlive, owner,
                         takenAfterQuit, crashed>>

Work(w) == \/ Lock(w) \/ Check(w) \/ Wait(w) \/ Decide(w)
           \/ CopyFront(w) \/ Pop(w) \/ Crash(w) \/ Run(w)

(* pthread_cond_wait may return without any signal.                        *)
WakeSpuriously(w) == /\ Goto(w, "asleep", "woken")
                     /\ UNCHANGED <<q, isrunning, isquit, wait_num, job, holders,
                                    mutexAlive, owner, done, takenAfterQuit, crashed>>
-----------------------------------------------------------------------------
OwnerAt(from, to) == owner = from /\ owner' = to

(* start(): _isrunning = true, then every thread's start().                *)
Start == /\ OwnerAt("created", "starting")
         /\ isrunning' = TRUE
         /\ UNCHANGED <<q, isquit, workerVars, mutexAlive, done, takenAfterQuit,
                        crashed>>

Spawn(w) == /\ owner = "starting"
            /\ Goto(w, "new", "lock")
            /\ owner' = IF \A u \in Workers \ {w} : pc[u] # "new"
                        THEN "started" ELSE "starting"
            /\ UNCHANGED <<q, isrunning, isquit, wait_num, job, holders, mutexAlive,
                           done, takenAfterQuit, crashed>>

(* stop(): the flag, then if(_wait_num > 0 && _q.empty()) broadcast.       *)
StopFlag == /\ OwnerAt("started", "stopping")
            /\ isrunning
            /\ isrunning' = FALSE
            /\ UNCHANGED <<q, isquit, workerVars, mutexAlive, done, takenAfterQuit,
                           crashed>>

StopNotify == /\ OwnerAt("stopping", "started")
              /\ pc' = IF wait_num > 0 /\ q = <<>> THEN Woken(pc) ELSE pc
              /\ UNCHANGED <<q, isrunning, isquit, wait_num, job, holders, mutexAlive,
                             done, takenAfterQuit, crashed>>

(* quit(): the flag, then broadcast.                                       *)
QuitFlag == /\ OwnerAt("started", "quitting")
            /\ ~isquit
            /\ isquit' = TRUE
            /\ UNCHANGED <<q, isrunning, workerVars, mutexAlive, done, takenAfterQuit,
                           crashed>>

QuitNotify == /\ OwnerAt("quitting", "started")
              /\ pc' = Woken(pc)
              /\ UNCHANGED <<q, isrunning, isquit, wait_num, job, holders, mutexAlive,
                             done, takenAfterQuit, crashed>>

(* ~Threadpool(), after stop() or quit(): pthread_mutex_destroy            *)
DestroyMutex == /\ OwnerAt("started", "destroyCond")
                /\ isquit \/ ~isrunning
                /\ mutexAlive' = (holders # {})
                /\ UNCHANGED <<q, isrunning, isquit, workerVars, done,
                               takenAfterQuit, crashed>>

(* pthread_cond_destroy(&_cond)                                            *)
DestroyCond == /\ OwnerAt("destroyCond", "joining")
               /\ \A w \in Workers : pc[w] # "asleep"
               /\ UNCHANGED <<q, isrunning, isquit, workerVars, mutexAlive, done,
                              takenAfterQuit, crashed>>

(* i.join() for every thread.                                              *)
Join == /\ OwnerAt("joining", "joined")
        /\ \A w \in Workers : pc[w] = "exited"
        /\ UNCHANGED <<q, isrunning, isquit, workerVars, mutexAlive, done,
                       takenAfterQuit, crashed>>

Owner == \/ Start \/ (\E w \in Workers : Spawn(w))
         \/ StopFlag \/ StopNotify \/ QuitFlag \/ QuitNotify
         \/ DestroyMutex \/ DestroyCond \/ Join

Next == /\ ~crashed
        /\ Owner \/ \E w \in Workers : Work(w) \/ WakeSpuriously(w)

(* Every thread keeps running when it can, the owner included: test.cpp    *)
(* sleeps ten seconds, calls quit() and lets the pool go out of scope.     *)
(* Nothing makes a spurious wakeup happen.                                 *)
Fairness == /\ WF_vars(~crashed /\ Owner)
            /\ \A w \in Workers : SF_vars(~crashed /\ Work(w))

Spec == Init /\ [][Next]_vars
FairSpec == Spec /\ Fairness
-----------------------------------------------------------------------------
(* Types of the fields; _wait_num counts the workers between _wait_num++   *)
(* and _wait_num--.                                                        *)
TypeOK == /\ q \in Seq(TaskIds)
          /\ isrunning \in BOOLEAN /\ isquit \in BOOLEAN
          /\ pc \in [Workers -> {"new", "lock", "check", "wait", "asleep", "woken",
                                 "decide", "front", "pop", "running", "exited"}]
          /\ wait_num = Cardinality({w \in Workers : pc[w] \in {"wait", "asleep", "woken"}})
          /\ job \in [Workers -> TaskIds \cup {NoJob}]
          /\ holders \subseteq Workers

(* Types; and each task is in one place: in the queue, with one worker, or *)
(* done.  This needs the mutex; it survives the destructor only when       *)
(* quit() came first, because then no worker takes a task without it.      *)
TasksRunOnce ==
  TypeOK /\ (mutexAlive \/ isquit =>
    LET held == {w \in Workers : pc[w] = "running"}
    IN  /\ \A w \in held, i \in 1 .. Len(q) : job[w] # q[i]
        /\ \A w, u \in held : w # u => job[w] # job[u]
        /\ \A w \in held, i \in 1 .. Len(done) : job[w] # done[i]
        /\ Len(q) + Cardinality(held) + Len(done) = NumTasks
        /\ \A i, j \in 1 .. Len(done) : i # j => done[i] # done[j])

(* After quit() at most one more task is started, by the worker that was   *)
(* between its check and its pop.                                          *)
OneTaskAfterQuit == takenAfterQuit <= 1

(* What test.cpp relies on: a pool whose owner calls quit() while several  *)
(* tasks are left is destroyed, with every worker joined.                  *)
QuitWithTasksLeftEnds == (isquit /\ Len(q) > 1) ~> owner = "joined"
=============================================================================
