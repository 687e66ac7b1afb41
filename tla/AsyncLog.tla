------------------------------ MODULE AsyncLog ------------------------------
(***************************************************************************)
(* log/: threads that log (Logger::log and the appenders of log.hpp), the  *)
(* queue of BlockQueue.hpp between the asynchronous appenders and the      *)
(* worker threads, and the queue's destructor, which runs at exit.         *)
(*                                                                         *)
(* One condition variable serves both sides.  push() reads m_flag before   *)
(* it has the mutex, the destructor writes it without the mutex, and run() *)
(* reads m_flag and m_num without it, so each of these is a step of its    *)
(* own, and so is a worker's going to sleep after its predicate was false. *)
(* A pop notifies nobody.  What a line looks like is up to LogFormat.      *)
(***************************************************************************)
EXTENDS Integers, Sequences, FiniteSets, LogFormat

CONSTANTS Loggers,       \* application threads that log
          m_pool,        \* worker threads
          MaxNum,        \* m_max
          MaxLines,      \* bound: events each application thread logs
          LevelOf,       \* the level of each thread's n-th event
          LoggerLevel,   \* Logger::m_level
          Appends,       \* m_appends: a sequence of [level, asyn, pieces]
          Patterns       \* the patterns whose reading is checked, as pieces

ASSUME LogSetsAssumption == /\ IsFiniteSet(Loggers) /\ IsFiniteSet(m_pool)
                            /\ Loggers \cap m_pool = {}
ASSUME LogSizesAssumption == /\ MaxNum \in Nat \ {0} /\ MaxLines \in Nat
                             /\ LevelOf \in [Loggers -> [1 .. MaxLines -> Nat]]
                             /\ LoggerLevel \in Nat
ASSUME AppendsAssumption ==
  /\ Len(Appends) \in Nat
  /\ \A i \in 1 .. Len(Appends) : /\ Appends[i].level \in Nat
                                  /\ Appends[i].asyn \in BOOLEAN

VARIABLES m_q, waitnum, m_flag,   \* fields of blockqueue; m_num is Len(m_q)
          place,                  \* per thread: next statement
          event, at, logged,      \* per logger: event, appender, events so far
          line,                   \* per worker: the line it popped
          out,                    \* per appender: what it has written
          accepted,               \* history: number of lines pushed
          late,                   \* history: those pushed when no worker was left
          exit                    \* the thread that runs ~blockqueue

queueVars == <<m_q, waitnum, accepted, late>>
loggerVars == <<event, at, logged>>
logVars == <<m_q, waitnum, m_flag, place, event, at, logged, line, out, accepted, late, exit>>

Threads == Loggers \cup m_pool
NoLine == <<>>
m_num == Len(m_q)

(* Each appender has a LogFormatter, made when the appender is; what it    *)
(* makes of the events that are logged is worked out once.                 *)
Events == {<<l, n, LevelOf[l][n]>> : l \in Loggers, n \in 1 .. MaxLines}
m_format == [i \in 1 .. Len(Appends) |->
               [e \in Events |-> format(init(Pattern(Appends[i].pieces)), e)]]
Formatted(l) == m_format[at[l]][event[l]]

(* The mutex is free: all other critical sections are single steps.        *)
MutexFree == \A w \in m_pool : place[w] # "blocking"

LogInit == /\ m_q = <<>> /\ waitnum = 0 /\ m_flag = TRUE
           /\ place = [t \in Threads |-> IF t \in m_pool THEN "run" ELSE "idle"]
           /\ event = [l \in Loggers |-> NoLine]
           /\ at = [l \in Loggers |-> 1]
           /\ logged = [l \in Loggers |-> 0]
           /\ line = [w \in m_pool |-> NoLine]
           /\ out = [i \in 1 .. Len(Appends) |-> <<>>]
           /\ accepted = 0 /\ late = 0
           /\ exit = "running"

(* Mutant of NotifyAll: notify_one.                                        *)
NotifyOne(places) ==
  LET asleep == {t \in Threads : places[t] = "asleep"}
  IN  [t \in Threads |-> IF asleep # {} /\ t = CHOOSE u \in asleep : TRUE
                         THEN "woken" ELSE places[t]]

NotifyAll(places) ==
  [t \in Threads |-> IF places[t] = "asleep" THEN "woken" ELSE places[t]]
-----------------------------------------------------------------------------
(* Logger::log: an event below the logger's level goes nowhere.            *)
Log(l) == /\ place[l] = "idle" /\ logged[l] < MaxLines
          /\ logged' = [logged EXCEPT ![l] = @ + 1]
          /\ IF LevelOf[l][logged'[l]] >= LoggerLevel
             THEN /\ event' = [event EXCEPT ![l] = <<l, logged'[l], LevelOf[l][logged'[l]]>>]
                  /\ at' = [at EXCEPT ![l] = 1]
                  /\ place' = [place EXCEPT ![l] = "append"]
             ELSE UNCHANGED <<event, at, place>>
          /\ UNCHANGED <<queueVars, m_flag, line, out, exit>>

(* for(auto& append : m_appends): past the last one, log returns.          *)
LogReturn(l) == /\ place[l] = "append" /\ at[l] > Len(Appends)
                /\ place' = [place EXCEPT ![l] = "idle"]
                /\ event' = [event EXCEPT ![l] = NoLine]
                /\ UNCHANGED <<queueVars, m_flag, at, logged, line, out, exit>>

(* An appender that takes no part: the event is below its level.           *)
AppendSkip(l) == /\ place[l] = "append" /\ at[l] <= Len(Appends)
                 /\ event[l][3] < Appends[at[l]].level
                 /\ at' = [at EXCEPT ![l] = @ + 1]
                 /\ UNCHANGED <<queueVars, m_flag, place, event, logged, line, out, exit>>

(* Stdout_LogAppend and Fileout_LogAppend write at once, under m_mutex.    *)
AppendSync(l) == /\ place[l] = "append" /\ at[l] <= Len(Appends)
                 /\ event[l][3] >= Appends[at[l]].level /\ ~Appends[at[l]].asyn
                 /\ out' = [out EXCEPT ![at[l]] = Append(@, Formatted(l))]
                 /\ at' = [at EXCEPT ![l] = @ + 1]
                 /\ UNCHANGED <<queueVars, m_flag, place, event, logged, line, exit>>

(* The Asyn_ appenders call push: if(m_flag == false) return.              *)
PushFlag(l) == /\ place[l] = "append" /\ at[l] <= Len(Appends)
               /\ event[l][3] >= Appends[at[l]].level /\ Appends[at[l]].asyn
               /\ IF m_flag THEN place' = [place EXCEPT ![l] = "push"] /\ UNCHANGED at
                            ELSE at' = [at EXCEPT ![l] = @ + 1] /\ UNCHANGED place
               /\ UNCHANGED <<queueVars, m_flag, event, logged, line, out, exit>>

(* ~blockqueue ends with the destructors of the mutex, the queue and the   *)
(* condition variable.                                                     *)
Destroyed == exit = "destroyed"

(* m_cv.wait(lock, m_num < m_max) finds the queue full.                    *)
PushBlock(l) == /\ place[l] \in {"push", "woken"} /\ MutexFree /\ ~Destroyed
                /\ m_num >= MaxNum
                /\ place' = [place EXCEPT ![l] = "asleep"]
                /\ UNCHANGED <<queueVars, m_flag, loggerVars, line, out, exit>>

WorkersGone == \A w \in m_pool : place[w] = "exited"

Push(l) == /\ place[l] \in {"push", "woken"} /\ MutexFree /\ ~Destroyed
           /\ m_num < MaxNum
           /\ m_q' = Append(m_q, <<at[l], Formatted(l)>>)
           /\ accepted' = accepted + 1
           /\ late' = IF WorkersGone THEN late + 1 ELSE late
           /\ place' = [IF waitnum > 0 THEN NotifyAll(place) ELSE place
                           EXCEPT ![l] = "append"]
           /\ at' = [at EXCEPT ![l] = @ + 1]
           /\ UNCHANGED <<waitnum, m_flag, event, logged, line, out, exit>>

(* A logger that has read m_flag before the exit locks what is destroyed:  *)
(* the behaviour is undefined, and the model says no more.                 *)
PushDestroyed(l) == /\ place[l] \in {"push", "woken"} /\ Destroyed
                    /\ exit' = "undefined"
                    /\ UNCHANGED <<queueVars, m_flag, place, loggerVars, line, out>>

Logging(l) == /\ exit # "undefined"
              /\ \/ Log(l) \/ LogReturn(l) \/ AppendSkip(l) \/ AppendSync(l)
                 \/ PushFlag(l) \/ PushBlock(l) \/ Push(l) \/ PushDestroyed(l)
-----------------------------------------------------------------------------
(* Mutant of RunCheck: if(m_flag == false) return.                         *)
RunCheckFlag(w) == /\ place[w] = "run"
                   /\ place' = [place EXCEPT ![w] = IF ~m_flag THEN "exited" ELSE "pop"]
                   /\ UNCHANGED <<queueVars, m_flag, loggerVars, line, out, exit>>

(* run(): if(m_flag == false && m_num == 0) return; else pop().            *)
RunCheck(w) == /\ place[w] = "run"
               /\ place' = [place EXCEPT ![w] = IF ~m_flag /\ m_num = 0 THEN "exited" ELSE "pop"]
               /\ UNCHANGED <<queueVars, m_flag, loggerVars, line, out, exit>>

(* pop() as far as m_cv.wait: ++waitnum unless w has been here before.     *)
Entered(w) == IF place[w] = "pop" THEN waitnum + 1 ELSE waitnum

(* Mutants of PopWait: the predicate looks at m_num only; and pop without  *)
(* ++waitnum.                                                              *)
PopWaitIgnoresFlag(w) == /\ place[w] \in {"pop", "woken"} /\ MutexFree
                         /\ m_num = 0
                         /\ waitnum' = Entered(w)
                         /\ place' = [place EXCEPT ![w] = "blocking"]
                         /\ UNCHANGED <<m_q, accepted, late, m_flag, loggerVars, line, out, exit>>
PopWaitUncounted(w) == /\ place[w] \in {"pop", "woken"} /\ MutexFree
                       /\ m_num = 0 /\ m_flag
                       /\ place' = [place EXCEPT ![w] = "blocking"]
                       /\ UNCHANGED <<queueVars, m_flag, loggerVars, line, out, exit>>

(* The predicate m_num > 0 || m_flag == false is false; w has the mutex.   *)
PopWait(w) == /\ place[w] \in {"pop", "woken"} /\ MutexFree
              /\ m_num = 0 /\ m_flag
              /\ waitnum' = Entered(w)
              /\ place' = [place EXCEPT ![w] = "blocking"]
              /\ UNCHANGED <<m_q, accepted, late, m_flag, loggerVars, line, out, exit>>

(* Inside the wait: the mutex is released and w sleeps.                    *)
PopBlock(w) == /\ place[w] = "blocking"
               /\ place' = [place EXCEPT ![w] = "asleep"]
               /\ UNCHANGED <<queueVars, m_flag, loggerVars, line, out, exit>>

(* --waitnum; if(m_flag == false && m_num == 0) return T()                 *)
PopNothing(w) == /\ place[w] \in {"pop", "woken"} /\ MutexFree
                 /\ m_num = 0 /\ ~m_flag
                 /\ waitnum' = Entered(w) - 1
                 /\ place' = [place EXCEPT ![w] = "run"]
                 /\ UNCHANGED <<m_q, accepted, late, m_flag, loggerVars, line, out, exit>>

(* --waitnum; the front line is popped.  No notify.                        *)
PopLine(w) == /\ place[w] \in {"pop", "woken"} /\ MutexFree
              /\ m_num > 0
              /\ waitnum' = Entered(w) - 1
              /\ line' = [line EXCEPT ![w] = Head(m_q)]
              /\ m_q' = Tail(m_q)
              /\ place' = [place EXCEPT ![w] = "work"]
              /\ UNCHANGED <<accepted, late, m_flag, loggerVars, out, exit>>

(* temp(): the line goes to the appender's stream.                         *)
Write(w) == /\ place[w] = "work"
            /\ out' = [out EXCEPT ![line[w][1]] = Append(@, line[w][2])]
            /\ line' = [line EXCEPT ![w] = NoLine]
            /\ place' = [place EXCEPT ![w] = "run"]
            /\ UNCHANGED <<queueVars, m_flag, loggerVars, exit>>

RunLoop(w) == \/ RunCheck(w) \/ PopWait(w) \/ PopBlock(w) \/ PopNothing(w)
              \/ PopLine(w) \/ Write(w)
-----------------------------------------------------------------------------
(* ~blockqueue: m_flag = false; m_cv.notify_all(); join every worker.      *)
ClearFlag == /\ exit = "running" /\ exit' = "cleared"
             /\ m_flag' = FALSE
             /\ UNCHANGED <<queueVars, place, loggerVars, line, out>>

ExitNotify == /\ exit = "cleared" /\ exit' = "notified"
              /\ place' = NotifyAll(place)
              /\ UNCHANGED <<queueVars, m_flag, loggerVars, line, out>>

ExitJoin == /\ exit = "notified" /\ exit' = "joined"
            /\ \A w \in m_pool : place[w] = "exited"
            /\ UNCHANGED <<queueVars, m_flag, place, loggerVars, line, out>>

(* The members are destroyed.  That threads still wait on the condition    *)
(* variable then makes the behaviour undefined.                            *)
ExitDestroy == /\ exit = "joined"
               /\ exit' = IF \E l \in Loggers : place[l] = "asleep"
                          THEN "undefined" ELSE "destroyed"
               /\ UNCHANGED <<queueVars, m_flag, place, loggerVars, line, out>>

Exit == ClearFlag \/ ExitNotify \/ ExitJoin \/ ExitDestroy

SpuriousWakeup(t) == /\ place[t] = "asleep" /\ exit # "undefined"
                     /\ place' = [place EXCEPT ![t] = "woken"]
                     /\ UNCHANGED <<queueVars, m_flag, loggerVars, line, out, exit>>

LogNext == \/ \E l \in Loggers : Logging(l)
           \/ \E w \in m_pool : RunLoop(w)
           \/ \E t \in Threads : SpuriousWakeup(t)
           \/ Exit

(* Threads that can go on do (for a lock: no thread is kept from it for    *)
(* ever).  Neither a spurious wakeup nor the exit of the program has to    *)
(* happen, but a destructor that has begun goes on.                        *)
LogFairness == /\ \A l \in Loggers : SF_logVars(Logging(l))
               /\ \A w \in m_pool : SF_logVars(RunLoop(w))
               /\ WF_logVars(ExitNotify \/ ExitJoin \/ ExitDestroy)

LogSpec == LogInit /\ [][LogNext]_logVars
LogFairSpec == LogSpec /\ LogFairness
-----------------------------------------------------------------------------
Asleep(S) == {t \in S : place[t] = "asleep"}
AsynAppends == {i \in 1 .. Len(Appends) : Appends[i].asyn}

InWait == {w \in m_pool : place[w] \in {"blocking", "asleep", "woken"}}

(* Types; the queue never exceeds m_max, and waitnum is the number of      *)
(* workers inside m_cv.wait.                                               *)
LogTypeOK == /\ m_num <= MaxNum
             /\ waitnum = Cardinality(InWait)
             /\ m_flag = (exit = "running")
             /\ \A l \in Loggers : place[l] \in {"idle", "append", "push", "asleep", "woken"}
             /\ \A w \in m_pool : place[w] \in {"run", "pop", "work", "exited"} \/ w \in InWait

InHands == {w \in m_pool : line[w] # NoLine}
Carried == {line[w] : w \in InHands}
Queued == {m_q[k] : k \in 1 .. m_num}
InFiles == UNION {{<<i, out[i][k]>> : k \in 1 .. Len(out[i])} : i \in AsynAppends}

(* No line is twice in the queue, in a file or in the hands of workers,    *)
(* and none is in two of these places.                                     *)
OnePlace ==
  /\ IsInjective(m_q)
  /\ \A i \in AsynAppends : IsInjective(out[i])
  /\ \A w, u \in InHands : line[w] = line[u] => w = u
  /\ Queued \cap Carried = {} /\ Queued \cap InFiles = {} /\ Carried \cap InFiles = {}

(* No two events look the same in the file of an asynchronous appender.    *)
EventsTold == \A i \in AsynAppends : \A d, e \in Events : m_format[i][d] = m_format[i][e] => d = e

(* Types; a line accepted by push is in the queue, in the hands of one     *)
(* worker, or written, once; and when the last worker has gone, only those *)
(* lines are left in the queue, for good, that were pushed afterwards, by  *)
(* loggers that had read m_flag in time: of what was accepted while a      *)
(* worker was there the shutdown loses none.                               *)
LinesWrittenOnce ==
  /\ LogTypeOK
  /\ OnePlace
  /\ Cardinality(InFiles \cup Queued \cup Carried) = accepted
  /\ WorkersGone => Carried = {} /\ m_num = late

(* What an appender has written are events in the form that the comments  *)
(* give its pattern, and all Patterns are read as they are meant: no       *)
(* character is lost or taken for part of a name where text, directives    *)
(* and formats of times follow each other.                                 *)
PatternsRead == \A p \in Patterns : WellSpelled(p) =>
                  \A e \in Events : format(init(Pattern(p)), e) = Meant(p, e)
LinesMeant == [i \in 1 .. Len(Appends) |->
                 IF WellSpelled(Appends[i].pieces)
                 THEN {Meant(Appends[i].pieces, e) : e \in Events}
                 ELSE {m_format[i][e] : e \in Events}]
FormatsRead ==
  /\ PatternsRead
  /\ \A i \in 1 .. Len(Appends) : \A k \in 1 .. Len(out[i]) : out[i][k] \in LinesMeant[i]

(* A worker sleeps only while the queue is empty, although loggers wait on *)
(* the same condition variable and pops notify nobody.                     *)
NoWorkerSleepsOnWork == Asleep(m_pool) # {} => m_num = 0

(* What push has accepted is written eventually, shutdown or not, as long  *)
(* as some worker is left.  (A logger that read m_flag before the exit can *)
(* still push after the last worker has gone; that line is never written.) *)
AcceptedLinesWritten ==
  \A n \in 1 .. MaxLines * Cardinality(Loggers) * Cardinality(AsynAppends) :
     (accepted >= n /\ \E w \in m_pool : place[w] # "exited")
       ~> Cardinality(InFiles) >= n

(* The destructor ends, every worker joined, unless a worker was about to  *)
(* sleep at the moment of its notify_all.                                  *)
ShutdownEnds ==
  (exit = "notified" /\ \A w \in m_pool : place[w] \notin {"blocking", "asleep"})
    ~> exit = "joined"
=============================================================================
