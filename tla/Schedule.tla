------------------------------ MODULE Schedule ------------------------------
(***************************************************************************)
(* Fiber/Schedule.hpp: threads that run the tasks of a queue, with the     *)
(* constructing thread as one of them when userCall is set, and a thread   *)
(* of the application that calls schedule() and stop().                    *)
(*                                                                         *)
(* A task is a callback or a fiber (Fiber.hpp); a fiber given to a thread  *)
(* runs until it ends or yields, and run() drops it either way.  One that  *)
(* has yielded may be scheduled again; its state, READY or HOLD, is set    *)
(* before its context is saved, and stays so while it runs the next time.  *)
(*                                                                         *)
(* stop() writes m_stop without the mutex and notifies nobody, so the      *)
(* evaluation of the wait predicate and going to sleep are separate steps. *)
(* When the root thread finds no task it unlocks, and swapIn of its own    *)
(* main fiber saves the current context where the context of start() was   *)
(* and goes on at the same place; it then evaluates the predicate, waits,  *)
(* and takes a task with a unique_lock that owns nothing.  glibc's         *)
(* pthread_cond_wait releases the mutex whoever has it and returns with it *)
(* locked, and nothing unlocks it.  Concurrent use of the std::queue, and  *)
(* resuming a frame of run() after run() has returned, are undefined; the  *)
(* model stops there (undefined = TRUE).                                   *)
(***************************************************************************)
EXTENDS Integers, Sequences, FiniteSets, Functions

CONSTANTS Pool,          \* the threads of m_threads
          Root,          \* the constructing thread, thread m_rootId
          Callbacks,     \* tasks scheduled as functions
          Fibers,        \* tasks scheduled as fibers
          MaxAgain       \* bound: fibers scheduled again

ASSUME ThreadsAssumption == IsFiniteSet(Pool) /\ Root \notin Pool
ASSUME TasksAssumption == /\ IsFiniteSet(Callbacks) /\ IsFiniteSet(Fibers)
                          /\ Callbacks \cap Fibers = {} /\ MaxAgain \in Nat

VARIABLES userCall,        \* m_userCall
          rootId,          \* m_rootId
          m_task,          \* the queue
          m_stop,
          mutex,           \* m_mutex is locked
          idle,            \* m_idleThreadCount
          pc, owns, task,  \* per thread: place, hold on the mutex, its task
          mainCtx,         \* what the context of Root's main fiber resumes
          app, tickling,   \* the application thread; it owes a tickle()
          fresh,           \* tasks not yet scheduled
          m_s,             \* per fiber: its state
          saved,           \* per fiber: its context is where it goes on
          again,           \* fibers scheduled again so far
          hasty,           \* history: one of them was queued or not yet away
          undefined

threadVars == <<mutex, idle, pc, owns, task>>
config == <<userCall, rootId>>
fiberVars == <<m_s, saved>>
againVars == <<again, hasty>>
taskVars == <<fresh, fiberVars, againVars>>
vars == <<config, m_task, m_stop, threadVars, mainCtx, app, tickling, taskVars, undefined>>

Threads == Pool \cup {Root}
Tasks == Callbacks \cup Fibers
NoTask == <<>>

(* Fiber::Fiber(cb): INIT, with a context that begins MainFunc.            *)
MakeContexts == m_s = [f \in Fibers |-> "INIT"] /\ saved = [f \in Fibers |-> TRUE]

(* Without userCall m_rootId is never set: the uninitialized value may be  *)
(* the id of a pool thread, or (here: Root) of none that runs.             *)
Init == /\ userCall \in BOOLEAN
        /\ rootId \in IF userCall THEN {Root} ELSE Threads
        /\ m_task = <<>> /\ m_stop = FALSE
        /\ mutex = FALSE /\ idle = 0
        /\ pc = [t \in Threads |-> "new"]
        /\ owns = [t \in Threads |-> "none"]
        /\ task = [t \in Threads |-> NoTask]
        /\ mainCtx = "start"
        /\ app = "created" /\ tickling = FALSE
        /\ fresh = Tasks
        /\ MakeContexts /\ again = 0 /\ hasty = FALSE
        /\ undefined = FALSE

Goto(t, from, to) == pc[t] = from /\ pc' = [pc EXCEPT ![t] = to]
NotifyAll(pcs) == [t \in Threads |-> IF pcs[t] = "asleep" THEN "woken" ELSE pcs[t]]
-----------------------------------------------------------------------------
(* Get_this: the constructor makes Root's main fiber, run() that of every  *)
(* thread which is not m_rootId.                                           *)
HasMain(t) == t = Root \/ t # rootId

(* run(): lock; ++m_idleThreadCount.  The thread m_rootId, without a task, *)
(* unlocks first and swaps with its main fiber, which a pool thread taken  *)
(* for the root does not have (run() skipped Get_this for it).             *)
Lock(t) == /\ Goto(t, "lock", "predicate")
           /\ ~mutex
           /\ IF t = rootId /\ m_task = <<>>
              THEN mainCtx' = "run" /\ undefined' = ~HasMain(t) /\ UNCHANGED <<mutex, owns>>
              ELSE /\ mutex' = TRUE /\ owns' = [owns EXCEPT ![t] = "lock"]
                   /\ UNCHANGED <<mainCtx, undefined>>
           /\ idle' = idle + 1
           /\ UNCHANGED <<config, m_task, m_stop, task, app, tickling, taskVars>>

(* Mutant of Predicate: m_stop is not looked at while waiting.             *)
PredicateTasksOnly(t) ==
  /\ pc[t] = "predicate"
  /\ pc' = [pc EXCEPT ![t] = IF m_task # <<>> THEN "take" ELSE "block"]
  /\ UNCHANGED <<config, m_task, m_stop, mutex, idle, owns, task, mainCtx, app, tickling,
                 taskVars, undefined>>

(* m_cond.wait's predicate: !m_task.empty() || m_stop                      *)
Predicate(t) == /\ pc[t] = "predicate"
                /\ pc' = [pc EXCEPT ![t] = IF m_task # <<>> \/ m_stop THEN "take" ELSE "block"]
                /\ UNCHANGED <<config, m_task, m_stop, mutex, idle, owns, task, mainCtx,
                               app, tickling, taskVars, undefined>>

Block(t) == /\ Goto(t, "block", "asleep")
            /\ mutex' = FALSE
            /\ owns' = [owns EXCEPT ![t] = IF @ = "raw" THEN "none" ELSE @]
            /\ UNCHANGED <<config, m_task, m_stop, idle, task, mainCtx, app, tickling,
                           taskVars, undefined>>

Relock(t) == /\ Goto(t, "woken", "predicate")
             /\ ~mutex
             /\ mutex' = TRUE
             /\ owns' = [owns EXCEPT ![t] = IF @ = "none" THEN "raw" ELSE @]
             /\ UNCHANGED <<config, m_task, m_stop, idle, task, mainCtx, app, tickling,
                            taskVars, undefined>>

SpuriousWakeup(t) == /\ Goto(t, "asleep", "woken")
                     /\ UNCHANGED <<config, m_task, m_stop, mutex, idle, owns, task,
                                    mainCtx, app, tickling, taskVars, undefined>>

(* The unique_lock goes out of scope; what it does not own it leaves.      *)
Unlock(t) == /\ mutex' = IF owns[t] = "lock" THEN FALSE ELSE mutex
             /\ owns' = [owns EXCEPT ![t] = "none"]

(* if(m_task.empty() && m_stop) break: a pool thread ends; the root        *)
(* thread's run() returns into MainFunc, which swaps to the main context.  *)
Break(t) == /\ pc[t] = "take" /\ m_task = <<>> /\ m_stop
            /\ idle' = idle - 1
            /\ Unlock(t)
            /\ pc' = [pc EXCEPT ![t] = "exited"]
            /\ undefined' = (t = Root /\ mainCtx = "run")
            /\ UNCHANGED <<config, m_task, m_stop, task, mainCtx, app, tickling, taskVars>>

(* front() of an empty queue; or a thread without the mutex and another,   *)
(* of the scheduler or of the application, may be in the queue together.   *)
TakeUndefined(t) == /\ pc[t] = "take" /\ ~(m_task = <<>> /\ m_stop)
                    /\ \/ m_task = <<>>
                       \/ \E u \in Threads \ {t} : pc[u] = "take"
                       \/ owns[t] = "none" /\ (fresh # {} \/ again < MaxAgain)
                    /\ undefined' = TRUE
                    /\ UNCHANGED <<config, m_task, m_stop, threadVars, mainCtx, app,
                                   tickling, taskVars>>

(* Mutant of Take: m_idleThreadCount is not decremented.                   *)
TakeStaysIdle(t) == /\ Goto(t, "take", "run")
                    /\ m_task # <<>>
                    /\ task' = [task EXCEPT ![t] = Head(m_task)]
                    /\ m_task' = Tail(m_task)
                    /\ Unlock(t)
                    /\ UNCHANGED <<config, m_stop, idle, mainCtx, app, tickling, taskVars,
                                   undefined>>

(* Mutant of Take: the task stays in the queue.                            *)
TakeNoPop(t) == /\ Goto(t, "take", "run")
                /\ m_task # <<>>
                /\ idle' = idle - 1
                /\ task' = [task EXCEPT ![t] = Head(m_task)]
                /\ Unlock(t)
                /\ UNCHANGED <<config, m_task, m_stop, mainCtx, app, tickling, taskVars, undefined>>

(* --m_idleThreadCount; task = m_task.front(); m_task.pop(); unlock        *)
Take(t) == /\ Goto(t, "take", "run")
           /\ m_task # <<>>
           /\ idle' = idle - 1
           /\ task' = [task EXCEPT ![t] = Head(m_task)]
           /\ m_task' = Tail(m_task)
           /\ Unlock(t)
           /\ UNCHANGED <<config, m_stop, mainCtx, app, tickling, taskVars, undefined>>

(* task.cb(); task.reset().                                                *)
RunCallback(t) == /\ Goto(t, "run", "ran")
                  /\ task[t] \in Callbacks
                  /\ task' = [task EXCEPT ![t] = NoTask]
                  /\ UNCHANGED <<config, m_task, m_stop, mutex, idle, owns, mainCtx, app,
                                 tickling, fresh, fiberVars, againVars, undefined>>

(* task.fiber->swapIn() saves the caller's context in the thread's main    *)
(* fiber.  The context of a fiber that has not been saved, or the end of   *)
(* MainFunc (which has no successor), is nothing to go on with.            *)
swapIn(t) == /\ Goto(t, "run", "fiber")
             /\ task[t] \in Fibers
             /\ undefined' = (~HasMain(t) \/ ~saved[task[t]] \/ m_s[task[t]] = "TERM")
             /\ saved' = [saved EXCEPT ![task[t]] = FALSE]
             /\ mainCtx' = IF t = Root THEN "run" ELSE mainCtx
             /\ UNCHANGED <<config, m_task, m_stop, mutex, idle, owns, task, app, tickling,
                            fresh, m_s, againVars>>

(* YeildtoReady, YeildtoHold: the state, and then swapOut.                 *)
Yield(t) == /\ Goto(t, "fiber", "leaving")
            /\ \E yielding \in {"READY", "HOLD"} : m_s' = [m_s EXCEPT ![task[t]] = yielding]
            /\ UNCHANGED <<config, m_task, m_stop, mutex, idle, owns, task, mainCtx, app,
                           tickling, fresh, saved, againVars, undefined>>

(* MainFunc: m_cb returns; TERM, and then swapOut.                         *)
MainFunc(t) == /\ Goto(t, "fiber", "leaving")
               /\ m_s' = [m_s EXCEPT ![task[t]] = "TERM"]
               /\ UNCHANGED <<config, m_task, m_stop, mutex, idle, owns, task, mainCtx, app,
                              tickling, fresh, saved, againVars, undefined>>

(* swapOut, into run(): task.reset().                                      *)
swapOut(t) == /\ Goto(t, "leaving", "ran")
              /\ saved' = [saved EXCEPT ![task[t]] = TRUE]
              /\ task' = [task EXCEPT ![t] = NoTask]
              /\ UNCHANGED <<config, m_task, m_stop, mutex, idle, owns, mainCtx, app,
                             tickling, fresh, m_s, againVars, undefined>>

RunTask(t) == RunCallback(t) \/ swapIn(t) \/ Yield(t) \/ MainFunc(t) \/ swapOut(t)

(* if(!m_task.empty() && m_idleThreadCount > 0) tickle()                   *)
TickleOthers(t) == /\ pc[t] = "ran"
                   /\ LET tickled == IF m_task # <<>> /\ idle > 0 THEN NotifyAll(pc) ELSE pc
                      IN  pc' = [tickled EXCEPT ![t] = "lock"]
                   /\ UNCHANGED <<config, m_task, m_stop, mutex, idle, owns, task, mainCtx,
                                  app, tickling, taskVars, undefined>>

Run(t) == \/ Lock(t) \/ Predicate(t) \/ Block(t) \/ Relock(t) \/ Break(t)
          \/ TakeUndefined(t) \/ Take(t) \/ RunTask(t) \/ TickleOthers(t)
-----------------------------------------------------------------------------
Calls(from, to) == app = from /\ ~tickling /\ app' = to

(* start(): the pool under the lock, then (in Root) the root fiber.  After *)
(* a stop() it would return at once; this application stops what it has    *)
(* started.                                                                *)
Start == /\ Calls("created", "ready")
         /\ ~mutex /\ ~m_stop
         /\ pc' = [t \in Threads |-> IF t \in Pool \/ userCall THEN "lock" ELSE "new"]
         /\ UNCHANGED <<config, m_task, m_stop, mutex, idle, owns, task, mainCtx, tickling,
                        taskVars, undefined>>

(* Mutant of schedule: every task but the first of an empty queue.         *)
scheduleInverted(x) ==
  /\ app \in {"created", "ready"} /\ ~tickling /\ ~mutex
  /\ tickling' = (m_task # <<>>)
  /\ m_task' = Append(m_task, x)
  /\ UNCHANGED <<config, m_stop, threadVars, mainCtx, app, fiberVars, undefined>>

(* schedule(): need_tickle = m_task.empty(); push; unlock ...              *)
schedule(x) ==
  /\ app \in {"created", "ready"} /\ ~tickling /\ ~mutex
  /\ tickling' = (m_task = <<>>)
  /\ m_task' = Append(m_task, x)
  /\ UNCHANGED <<config, m_stop, threadVars, mainCtx, app, fiberVars, undefined>>

(* ... of a new task ...                                                   *)
ScheduleTask(x) == /\ schedule(x)
                   /\ fresh' = fresh \ {x}
                   /\ UNCHANGED againVars

(* ... or of a fiber that getState() says has yielded.                     *)
ScheduleAgain(f) ==
  /\ m_s[f] \in {"READY", "HOLD"} /\ again < MaxAgain
  /\ schedule(f)
  /\ again' = again + 1
  /\ hasty' = (hasty \/ ~saved[f] \/ f \in Range(task) \cup Range(m_task))
  /\ UNCHANGED fresh

(* ... and, without the mutex, tickle().                                   *)
Tickle == /\ tickling /\ tickling' = FALSE
          /\ pc' = NotifyAll(pc)
          /\ UNCHANGED <<config, m_task, m_stop, mutex, idle, owns, task, mainCtx, app,
                         taskVars, undefined>>

(* stop(): m_stop = true; join every thread of the pool.                   *)
Stop == /\ Calls("ready", "joining")
        /\ m_stop' = TRUE
        /\ UNCHANGED <<config, m_task, threadVars, mainCtx, tickling, taskVars, undefined>>

Join == /\ Calls("joining", "joined")
        /\ \A t \in Pool : pc[t] = "exited"
        /\ UNCHANGED <<config, m_task, m_stop, threadVars, mainCtx, tickling, taskVars,
                       undefined>>

App == Start \/ (\E x \in fresh : ScheduleTask(x)) \/ Tickle \/ Join
Again == \E f \in Fibers : ScheduleAgain(f)

Next == /\ ~undefined
        /\ \/ \E t \in Threads : Run(t) \/ SpuriousWakeup(t)
           \/ App \/ Again \/ Stop

(* Threads that can go on do.  stop() need not be called, no wakeup has to *)
(* be spurious.                                                            *)
Fairness == /\ \A t \in Threads : SF_vars(~undefined /\ Run(t))
            /\ SF_vars(~undefined /\ App)

Spec == Init /\ [][Next]_vars
FairSpec == Spec /\ Fairness
-----------------------------------------------------------------------------
Pending == Range(m_task)

(* Types; m_idleThreadCount counts the threads between ++ and --, which is *)
(* what decides if a thread that is done with a task tickles.              *)
TypeOK == /\ m_task \in Seq(Tasks \ fresh) /\ m_stop \in BOOLEAN /\ mutex \in BOOLEAN
          /\ pc \in [Threads -> {"new", "lock", "predicate", "block", "asleep", "woken",
                                 "take", "run", "fiber", "leaving", "ran", "exited"}]
          /\ idle = Cardinality({t \in Threads : pc[t] \in
                        {"predicate", "block", "asleep", "woken", "take"}})
          /\ owns \in [Threads -> {"none", "lock", "raw"}]
          /\ m_s \in [Fibers -> {"INIT", "HOLD", "READY", "TERM"}]
          /\ saved \in [Fibers -> BOOLEAN] /\ again \in 0 .. MaxAgain /\ hasty \in BOOLEAN

(* No fiber runs on two threads, and without userCall nothing is undefined *)
(* but by an m_rootId that happens to be a pool thread's or by a fiber     *)
(* scheduled again while it is queued, runs or has just set its state.     *)
FiberOnOneThread ==
  /\ undefined => userCall \/ rootId # Root \/ hasty
  /\ \A t, u \in Threads :
       {pc[t], pc[u]} \subseteq {"fiber", "leaving"} /\ task[t] = task[u] => t = u \/ undefined

(* schedule() tickles only when the queue was empty.  That is enough as    *)
(* long as the mutex works: a pool thread sleeps while tasks are queued    *)
(* only between the push and the tickle() that follows it.  (With userCall *)
(* the root's wait gives up a mutex that it does not have.)                *)
SleeperIsTickled ==
  (~userCall /\ m_task # <<>> /\ \E t \in Pool : pc[t] = "asleep") => tickling

(* Without userCall every task that is scheduled, for the first time or    *)
(* again, is run to its end or until its fiber yields, stop() or not.      *)
ScheduledTasksRun ==
  \A x \in Tasks : (~userCall /\ app # "created" /\ x \in Pending \cup Range(task))
                     ~> (x \notin Pending \cup Range(task) \/ undefined)

(* stop() ends without userCall when no pool thread sleeps, or is about    *)
(* to, at the moment m_stop is written.                                    *)
StopEndsIfNoneSleeps ==
  (~userCall /\ m_stop /\ \A t \in Pool : pc[t] \notin {"block", "asleep"})
    ~> (app = "joined" \/ undefined)

(* "stop the scheduler", says Schedule.hpp:47 of stop().  The code does    *)
(* not keep it: nobody wakes the threads that sleep.                       *)
StopStopsTheScheduler ==
  (m_stop /\ ~userCall /\ rootId = Root) ~> \A t \in Pool : pc[t] = "exited"
=============================================================================
