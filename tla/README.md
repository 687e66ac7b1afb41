# Linux-Codelab in TLA+

Linux-Codelab is a collection of small Linux programs: queues between threads,
a thread pool, an asynchronous logger, a fiber scheduler, a process pool, an
epoll reactor that serves HTTP, and a dozen client/server exercises.  What makes
them hard is not the amount of code but the order in which it runs: threads that
sleep on conditions, processes that inherit descriptors, a kernel and peers that
move between two system calls.  This directory models that, checks it with TLC,
and proves, for any numbers of threads, clients, tasks and slots, the safety
properties that TLC can only sample, all but one of them.

## Components

| component | state | operations | interacts with | hard part | module |
|---|---|---|---|---|---|
| `consumer_productor` | queue, two waiter counters, one mutex, two conditions | `push`, `pop` | thread loops of `cp_thread.hpp` | wakeups decided by counters | `BlockQueue`, `BoundedFIFO`, `BlockQueueProofs` |
| `cp_ring_queue` | slots, two indices, two semaphores, a mutex per side | `push`, `pop` | thread loops of `cp_thread.hpp` | a slot copied after it was given back | `RingQueue`, `RingQueueProofs` |
| `Threadpool` | task queue, `_isrunning`, `_isquit`, `_wait_num` | `start`, `stop`, `quit`, destructor, worker loop | owner thread | unlocked flags, mutex destroyed before the join | `Threadpool`, `PoolProofs` |
| `log` | queue, `m_num`, `waitnum`, `m_flag`, appenders, loggers, a pattern's items | `Logger::log`, `push`, `pop`, `run`, destructor, `LogFormatter::init`, `format` | any thread that logs | one condition for both sides, exit; an index that runs ahead of its loop | `AsyncLog`, `LogFormat` (partly), `PoolProofs` |
| `Fiber` | task queue, idle counter, `m_stop`, root thread, fibers with state and context | `schedule`, `tickle`, `start`, `run`, `stop`; `swapIn`, `swapOut`, `YeildtoReady`, `YeildtoHold`, `MainFunc` | the application, fibers | stop without a wakeup, a wait without the mutex, a state set before the context is saved | `Schedule` (partly), `ScheduleProofs` |
| `processpool` | children, pipes, who holds which write end | `CreateProcess`, `SendTaskCode`, destructor, child loop | kernel | end of file needs every copy closed | `ProcessPool`, `PoolProofs` |
| `Reactor` | connections, epoll masks and ready list, buffers | `looponce`, `accept`, `_recv`, `_send`, `del` | kernel, peers | edges, deletion inside handlers | `Reactor`, `ReactorProofs` |
| `Reactor/http_service.hpp` | input and output buffer | `get_full_message`, `service`, `_service` | `Reactor` | requests that arrive in pieces, bodies | `HttpService`, used by `Reactor`; `ReactorProofs` |
| `Tcp_serialize_unserialize` | streams, `restr` | `Encode`, `Decode`, `Recv`, `_start`, client loop | peers, a thread each | framing over cut streams | `TcpCalc`, `TcpCalcProofs` |
| `Tcp_autoconnect` | `status`, descriptor, tries | `_start`, `re_connect`, the server's threads | each other, whoever kills and starts the server | retries, late failures of `send` | `AutoConnect`, `PeerProofs` |
| `Udp_message_router` | user table, flag of the client's threads | join, relay, quit, `sendtoserver`, `recvtoserver` | lossy datagrams | order, loss and repetition | `UdpRouter`, `PeerProofs` |
| `select_server`, `epoll_server` | descriptor set | accept, receive, send, erase or close | kernel, peers | descriptors not closed, or reused; one thread that a `send` can block | `EchoServers`, `EchoServersProofs` |
| `http_server`, `Tcp_echo_server`, `Tcp_inet_all` | descriptors | a thread per connection: receive, answer, end | kernel, peers | the end of a connection, errors | `EchoServers`, `EchoServersProofs` |
| `Udp_echo_server` | none | print a datagram | | nothing to relate | not modelled |
| `shm`, `namepipe` | a shared segment, a FIFO | attach, read, write | each other | one writer, one reader in step | not modelled |
| `mystdio`, `myshell`, `progress`, `cache`, the servers' `log.hpp` | local | sequential | none | none | not modelled |

What makes each component correct, in one sentence: no item, task, line or
request is lost or handled twice; a thread sleeps only when there is nothing for
it to do; what has begun to stop does stop.  Where the code keeps less than that,
the property says exactly what is kept, and *What the models show* says what is not.

## How the models are built

Every module models one component, with the kernel or the peers it depends on.
The size of a step is the question that matters most:

* What runs under a mutex is one action when every access to the same fields is
  under it (`BlockQueue`: all of `push` after the lock).  Waiting on a condition
  is never part of it: a thread goes to `asleep` and gives up the mutex, a
  broadcast or a spurious wakeup makes it `woken`, and only later it gets the
  mutex and evaluates its condition again.
* Where a flag is written, or a predicate evaluated, without the mutex, the steps
  are split there (`Threadpool` StopFlag/StopNotify and Check/Wait, `AsyncLog`
  PushFlag, RunCheck, PopWait/PopBlock, ClearFlag/ExitNotify, `Schedule`
  ScheduleTask/Tickle, Predicate/Block, and Yield/swapOut: another thread can see
  the state of a fiber before its context is saved; `UdpRouter` QuitFlag/QuitSend).
* `RingQueue` splits between the semaphore and mutex calls, and between the
  reference that `pop` takes and the copy it returns.
* `ProcessPool`, `Reactor` and the servers and clients have one action per system
  call, because other processes, the kernel and the peers act in between: `recv`
  and `send` are two steps everywhere, and in `Reactor` also a `send` that finds no
  room (`SendAgain`) and the `EPOLL_CTL_MOD` that follows it (`UpdataRw`).
* `HttpService` and `LogFormat` are pure: operators and recursive functions for
  what the code computes from a buffer or a pattern.  `Reactor` and `AsyncLog`
  use them where the code calls them.

Undefined behaviour is not explored: `crashed`, `undefined`, `process` and `exit`
record that it has been reached, and the behaviour ends.  Where a choice was needed, the
module's comment gives it (`Threadpool`: what glibc does with a destroyed mutex;
`Schedule`: what it does with a mutex the waiter does not own, and the values an
uninitialized `m_rootId` can have).

Operators marked *mutant* are not part of the system.  Each is a plausible bug
(a dropped test, an index that is not wrapped, a signal for a broadcast); put in
place of the definition that follows it, it must make TLC find a property
violated.  `PROJECT.json` names which.

## Modules and their correspondence to the code

`PROJECT.json`, "map", gives the lines of every definition.  Where one module of
proofs is about several components their common names differ by a prefix:
`ProcessSpec`, `ProcessTypeOK`, ... in `ProcessPool`, `RouterSpec`, ... in
`UdpRouter`, `LogSpec`, ... in `AsyncLog`, where `place` is what the others call
`pc`.  In short:

* **BlockQueue** (`blockqueue.hpp`): `q`, `con_wait_num`, `pro_wait_num` are the
  fields; `PushWait`/`Push` and `PopWait`/`Pop` are the two ways through the
  loops; `CallPush`, `CallPop`, `TaskStart` are `cp_thread.hpp`.  The source calls
  pushers "consumers"; the counters keep those names.
* **BoundedFIFO** is what callers may rely on: calls take effect at one instant.
  `BlockQueue!FIFO` instantiates it; `calling` is the set of threads whose `pc`
  is not `outside`.
* **RingQueue** (`ring_queue.hpp`): an item is its own ticket, since `c_thread`
  pushes a counter that `push` increments.
* **Threadpool** (`Threadpool.hpp`): `holders` is who is in the critical section;
  it can exceed one thread only after the destructor destroyed the mutex.
* **AsyncLog** (`log/BlockQueue.hpp`, `log.hpp`): `at` is the position in the loop
  over `m_appends`, `m_pool` the worker threads; an event is `<<logger, number,
  level>>`, a line the appender it is for and what `LogFormat` makes of the event.
  The destructor goes on to that of its members (`ExitDestroy`); a logger that still
  waits on the condition variable then, or locks the mutex afterwards
  (`PushDestroyed`), makes the behaviour undefined.  `late` counts the lines pushed
  when no worker was left.
* **LogFormat** (`log.hpp`, `LogFormatter` and its items): `init` turns a pattern, a
  sequence of characters, into items, `format` an event and the items into a line;
  `Turn` is one turn of the loop, `DirectiveAt` the inner loop that looks for the
  end of a name and of a date format.  What is checked against (`Meant`) has tables
  of its own, taken from the comments above `LogFormatter` and `init` and from what
  `strftime`'s letters mean, and uses nothing of the code's reading or writing: a
  pattern is given as the pieces its author meant, spelled out (`Spelled`) for the
  code, and what the code writes is compared with what the pieces mean.
* **Schedule** (`Schedule.hpp`, `Fiber.hpp`): `mainCtx` is what the context of the
  root thread's main fiber would resume; `owns` is whether a thread's
  `unique_lock` owns the mutex ("lock"), holds it without owning it ("raw"), or not.
  `m_s` is a fiber's state, `saved` whether its context is where it will go on;
  `hasty` records that a fiber was scheduled again while it was queued or had not
  let go of its thread.
* **ProcessPool** (`processpool.hpp`, `processpool.cpp`): `writers[i]` is the set of
  processes with the write end of pipe `i` open; `sent` counts the codes sent, from
  which `CodesDoneInOrder` says in closed form what each child has done, is doing or
  has in its pipe.  `NoChildLeft` includes that only the parent, and children that
  have not closed what they inherited, hold a write end.
* **Reactor** (`Reactor.hpp`, `handle.hpp`, `Listen.hpp`, `connect.hpp`,
  `epoll.hpp`): `at` is what the one thread is doing; `ready`, `peer`, `arrived`,
  `room`, `refused` belong to the kernel and the peers; `arrived` and `inbuff` are
  sequences of the pieces of `HttpService`.  Of what `recv` returns only the pieces
  before the first zero byte get into `inbuff` (`Appended`), as `inbuff() += buff`
  appends a C string.
* **HttpService** (`http_service.hpp`): `Complete` and `Erase` are
  `get_full_message`, `service` its loop; the result says how many answers were
  written, what is left of the buffer, and whether the service ended the process
  (`stoi` threw), its defined behaviour (an unknown file type) or went round for ever
  (a request of size 0).  The pieces are a request's method, the rest of its head, the
  empty line behind it, the units of a body, one of which may be a zero byte, and
  the line break behind a body.  A Content-Length is any integer, in pieces, or `NaN`: -1
  leaves the empty line in the buffer, -2 the head without its method, and so on; what the
  model leaves out is a negative length that ends within the empty line.
* **TcpCalc** (`Tcp_serialize_unserialize/`): both programs from their first
  socket on; a stream is a sequence of pieces of requests and answers; `restr` is the local of `Recv`, `job` the request
  `_start` works on.  `short` records that a client's one `recv` returned less
  than an answer, `lost` what `Recv` discarded.  `free` is the number of descriptors
  the server has left (any, at first), which only decreases; without one `accept` fails, `start` goes
  round its loop, and the client stays where it is.
* **EchoServers** (`select_server/`, `epoll_server/`, `http_server/`,
  `Tcp_echo_server/`, `Tcp_inet_all/`): the five servers have one skeleton (accept,
  receive, answer, see the end), so one module has them all, and `kind`, chosen
  initially, says which one runs; the actions that only some of them have say so in
  their guards.  `watched` is `_set`, the interest list of epoll or the descriptors
  that have a thread, `conn` the kernel's descriptor table, `todo` what is left of
  a turn.  `recv` (`Receive`, `ReceiveRequest`) puts the answer into `hand`, from where
  `send` takes it: at once (`Sent`), after the client has read (`SendBlocks`,
  `blocked`: the sockets are blocking ones), or not (`SendFails`, `SendKills`).  While a
  server of one thread has something in hand it does nothing else.
* **AutoConnect** (`Tcp_autoconnect/`): `status` is `_s`, `tries` the `i` of
  `re_connect`; of a connection, `near` and `far` are its two ends, `reset` says
  that an RST has reached the client, and `left` is the `n` of the server's thread.
* **UdpRouter** (`Udp_message_router/`): `users` is the set of the server, `running`
  the flag of a client's two threads, `sender` and `receiver` where they are;
  `faults` records what the network and the server have done wrong.

## Runs

| run | instance | states | shows |
|---|---|---|---|
| `block_queue` | 2 + 2 threads, 2 tasks, capacity 2 | 7 042 | types, exact counters, no lost wakeup, refinement of `BoundedFIFO`, sleepers wake |
| `ring_queue` | 2 + 2 threads, 2 slots, pushes for two turns | 14 270 | slots accounted for, unclaimed items intact, what `pop` may return, every item claimed |
| `threadpool` | 3 workers, 3 tasks | 83 460 | tasks run once, at most one after `quit`, a pool that quits with tasks left is destroyed |
| `async_log` | 2 loggers, 2 workers, queue of 1, 2 lines each, 2 appenders | 64 499 | patterns read as meant, lines written once and none left by the exit but late ones, no worker sleeps on work, accepted lines are written, when the exit ends |
| `schedule` | 2 pool threads and the root, 1 callback, 1 fiber that may be scheduled again, with and without `userCall` | 156 327 | a fiber on one thread, a sleeper is tickled, tasks run, when `stop` ends |
| `schedule_stop` | the same, 1 callback | | **violated**: `stop()` does not stop sleeping threads |
| `process_pool` | 4 children, up to 7 codes, pipes of 2, 1 failure | 3 019 | codes in order, no child left, the destructor ends |
| `reactor` | 1 descriptor, 2 clients, 2 requests of any of nine kinds | 747 215 | requests and answers in step, no edge lost, closed for a reason, requests answered |
| `tcp_calc` | 2 clients, 3 requests each, none to 2 descriptors left | 73 504 | framing holds while answers arrive whole, requests answered |
| `echo_servers` | all five servers, 3 clients, 2 descriptors, 1 message each | 329 140 | no message lost, what is watched, no stale event, clients served |
| `udp_router` | 2 clients, 1 line, 1 fault of any kind | 370 427 | when a leaver stays in the table, when a client that quits ends |
| `auto_connect` | the code's 10 tries and 5 reads, 2 connections, 3 unread greetings | 24 054 | one connection at a time, reconnecting or giving up |

Why these bounds are enough: a wakeup can only be lost between two threads of one
side and one of the other; two slots and two turns suffice for a slot to be reused
under a late copy; as many descriptors as clients, or fewer, are all an `accept` can
find; four children are the fewest where a write end is inherited by
one child that is closed before and one that is closed after it; an answer larger
than the send buffer forces the interrupted send; fewer descriptors than clients
force EMFILE and reuse; a third request is
the first that can reach the calculator together with the one before it.  Two
requests of every pair of kinds are what the HTTP service can confuse, as it keeps
nothing between two of them but the buffer.  The negative lengths are one that leaves
the empty line, one that leaves a head which is found again for ever, and one that
no input is as long as.  Patterns of up to four pieces hold
every neighbour a directive can have on both sides.  One fiber scheduled once more
is enough for two threads to have it.  One fault is what the exemptions of
`LeaversErased` and `QuitEnds` name: each of them is a single loss, overtaking or
restart (a repetition alone excuses nothing).  The theorem has any number of them.  Bounds that are no part of the code
(`MaxPushes`, `MaxLines`, `MaxAgain`, `MaxSends`, `MaxFailures`, `MaxChunks`, `MaxClients`,
`MaxRequests`, `MaxTalks`, `MaxFaults`, `MaxWaiting`) are
guards of the actions they bound; `MaxDescriptors` bounds the descriptors that
`TcpCalc` begins with.  Symmetry is not used, because most runs check
liveness.

Deadlock is checked for `block_queue`, the only component that never ends.  The
others stop by design (a bound is used up, a pool is joined, clients leave), or
may hang, which is what their liveness properties are about.

## Fairness

Every thread or process that can take a step eventually takes one.  That is weak
fairness where a step once possible stays possible, and strong fairness where
another thread's turn at a mutex can make it impossible for a moment
(`Threadpool`, `AsyncLog`, `Schedule`).  Nothing obliges an environment: spurious
wakeups, failing calls, the call of `stop`, the exit of the program, clients that
connect, send or leave, a fiber that is scheduled again, a server that is killed or
started carry no fairness (`TcpCalc`, `EchoServers`: only the server's threads have
any).  In `UdpRouter` what the network does not lose it delivers: the server handles
and each client receives as long as something is on its way to it.

Whether clients read what they are sent matters to whoever sends.  In `Reactor`
they are assumed to (weak fairness of `ClientReads`), as no answer could be finished
otherwise; nobody else depends on it, the sockets being non-blocking.  In `EchoServers`
the sockets are blocking ones and nothing obliges a client to read:
`ClientsServed` has the premise, for each client, that its server is not held up for
ever in a `send`, by anybody if the server has one thread, by that client itself if
it has one for each.  Without the premise the property is false, as one client that
sends and never reads stops `select_server` and `epoll_server` for all.  A `send` that
can go on again and again returns in the end (strong fairness of `SendReturns`), since
an answer is finite.

## What is proved

TLAPS checks the theorems below from the assumptions the modules state about their
constants, all of which the code justifies: finite and disjoint sets of threads,
positive capacities, a server that is not one of its clients.  Nothing is assumed
about how many threads, clients, items, messages, retries or faults there are, so
that the bounds of the runs play no part.  Each component has one argument: an
inductive invariant (`IInv`, or with its prefix), which TLC checked on the run's instance before it was
proved; `Init => IInv`; one lemma per actor, with one case per action, for
`IInv /\ [Next]_vars => IInv'`; `Spec => []IInv`; and `IInv =>` each property.

| module | theorems | assumptions | what makes `IInv` inductive |
|---|---|---|---|
| `BlockQueueProofs` | `TypeCorrect`, `CountersExact`, `NoWakeupLost`, `Implementation` | `ThreadsAssumption`, `TasksAssumption`, `CapAssumption` | the counters are exact |
| `RingQueueProofs` | `SlotsAreAccounted`, `UnclaimedStaysIntact`, `ReturnsClaimOrWholeTurnsLater` | `ThreadsAssumption`, `SizesAssumption` | two counts: of all slots and of the unclaimed items |
| `PoolProofs` | Threadpool: `EachTaskOnce`, `QuitIsSeen` | `WorkersAssumption` | who can be in the critical section once the mutex is gone |
| | ProcessPool: `CodesGoRound`, `ChildrenAreReaped` | `SizesAssumption` | both counters follow from `sent`; who can hold a write end |
| | AsyncLog: `WorkersAreWoken`, `LinesKept` | `LogSetsAssumption`, `LogSizesAssumption`, `AppendsAssumption` | `waitnum` counts the workers in the wait; a logger is past every line it has pushed |
| `ReactorProofs` | `TypesCorrect`, `EdgesAreKept`, `ClosesForAReason`, `AnswersKeepStep` | `SetsAssumption`, `SizesAssumption`, `RequestsAssumption` | where an edge can be; where the streams of a connection can be cut |
| `ScheduleProofs` | `IdleIsExact`, `FibersApart`, `TickleSuffices` | `ThreadsAssumption`, `TasksAssumption` | the mutex works without `userCall`; a task not rescheduled in haste is in one place |
| `TcpCalcProofs` | `TypesCorrect`, `FramingIsEnough` | `MaxRequestsAssumption` | where a client's last request can be |
| `EchoServersProofs` | `AnswersBalance`, `WatchesConnections` | `ServerAssumption` | what is left of a turn is still readable |
| `PeerProofs` | AutoConnect: `ConnectsOnce` | `AutoAssumption` | closed before every retry; resets come from closed ends |
| | UdpRouter: `WhoLeavesIsErased` | `RouterAssumption` | after a quit: on its way, or out of the table, or failed |

**BlockQueue.**  `IInv` is `TypeOK /\ WaitersCounted /\ NoLostWakeup`.
`NoLostWakeup` is not inductive alone: from a state with a sleeping popper and
`pro_wait_num = 0`, `push` would skip its broadcast.  With `WaitersCounted` a
non-empty wait set has a positive counter (`SleepersCounted`), so that the
broadcast happens and leaves nobody of the other side asleep (`BroadcastWakes`);
and a thread that gets as far as changing the queue has just found that its own
side has nobody asleep.  `Implementation` is the refinement `Spec => FIFO!Spec`:
the initial state and every step map to the abstract queue or to a stutter.

**RingQueue.**  Every slot is free in `_room`, full in `_data`, or with a thread
between its wait and its post; and what has been stored and not claimed is counted
by `_data`, the pushers about to post and the poppers about to claim
(`UnclaimedCounted`).  From the two counts a pusher inside its critical section has
a slot that no unclaimed item is in, although poppers that have posted `_room` may
not have copied theirs yet.  What such a popper refers to holds its item or a later
one whose number is the same modulo `_cap` (`References`, `Contents`).

**Threadpool** (`PoolProofs`).  While the mutex lives one worker is inside (`Exclusion`).  The
destructor destroys it when nobody holds it; if `quit()` came first, nobody is then
between its check and its pop, and nobody gets there again.  So in all those states
`front()` and `pop()` see the same head, and, as the queue is always the rest
`n + 1 .. NumTasks` of the tasks (`QueueIsRest`), a task that leaves it is new to
the workers and to `done` (`TasksPlaced`).

**ProcessPool** (`PoolProofs`).  `CodesDoneInOrder` says of every child that what it
has done, is doing and has in its pipe are, in this order, the codes `c`, `c + N`,
`c + 2N`, ... of all that were sent.  Whose turn it is and which code is next are two
counters that wrap at different times; both agree with `sent` (`CountersInStep`), and
a send appends just the next of the closed form (`WhoseTurn`, `NextRemainder` and
the lemmas on division before them).  `NoChildLeft` needs to know who can hold a write end: children
that have not closed what they inherited, and the parent until it has come past that
channel (`EndsOfParent`); a child has seen the end of its file only if nobody does.

**AsyncLog** (`PoolProofs`).  `WorkersAreWoken`: a worker goes into `m_cv.wait` over an
empty queue and with the mutex, a push needs the mutex, and a push that finds
`waitnum > 0` wakes everybody; that `waitnum` is never too small is what `LogTypeOK`
counts.  `LinesKept`: a line is for an appender that its logger has not passed, so
it is new (`PastLines`), and each later step takes it out of one of queue, hands and
files and puts it into the next.  A worker leaves only while the queue is empty, so that
when the last one has gone nothing is carried and the queue holds just what has been
pushed since (`LateInv`).  Of what follows once a logger uses the destroyed queue
nothing is said: the model ends there.  The theorem has one hypothesis, `EventsTold`: no two
events look the same in the file of an asynchronous appender.  The run's patterns
satisfy it; a pattern without any field does not, and of its lines nobody could say
which one is missing.

**Reactor.**  `TypesCorrect` needs that a service of an input is defined: `service` is a
recursive function on inputs, and `ServiceUnfolds` shows that it satisfies its
equation.  `EdgesAreKept` follows from where an edge is while the loop turns: on the
ready list, in the batch, or with the thread, which keeps it until `recv` or `send`
has said EAGAIN (`EdgesKept`).  `AnswersKeepStep` is about the streams: the input
buffer, what has arrived and what is unsent are together the requests from some j-th
on (`Layout`), the first of them without its method if the line break behind the
body before it was missing; what was answered or waits in `outbuff` is for the
requests before it; and no whole request stays in the buffer (`Told`).  That a service
takes whole requests off the front and writes an answer for each one that has one
due is shown for inputs of any length.  All this holds of a connection until it asks
something that is not plain (a zero byte in a body, a negative length), and other
connections do not touch it: the theorem is about any set of requests, plain or not,
and about those connections whose own are all plain.  The rest of the invariant
(`TypesCorrect`, `EdgesAreKept`, `ClosesForAReason`) holds with any requests.

**Schedule.**  `TypeOK` holds whatever happens.  The rest distinguishes states by
what has gone wrong, since nothing is claimed once behaviour is undefined.  Without
`userCall` the constructing thread never runs, and then the mutex excludes
(`MutexWorks`): a thread at its wait has found the queue empty under the mutex that
`schedule` needs, which is why a sleeper implies a tickle that is due.  As long as
no fiber was scheduled again in haste every task is queued once or with one thread,
and a fiber that waits to be run has a saved context and has not ended (`OnePlace`);
with haste it still holds that a running fiber's context is not saved, so that a
second `swapIn` of it is where behaviour becomes undefined (`RunningUnsaved`).

**TcpCalc.**  While a client's answers arrive whole it has at most one request
anywhere (`OneAtATime`: unsent, on its way to `Decode`, being worked on, or
answered), so that what `Recv` has and what is still to come concatenate to that
request, and `Decode` finds it neither early nor twice.  The two streams of one
client do not touch another's, but the server's death does: it implies that some
client had a short `recv`.

**EchoServers.**  A turn of `select_server` or `epoll_server` is a list made before
its first descriptor is handled.  `StillReadable` says that it stays valid: handling
one descriptor disposes of no other's connection.  `OnePlace` (a client is in the
backlog once or has a descriptor) keeps an accept from giving two descriptors to one
client.

**AutoConnect** (`PeerProofs`).  `OneConnection` is not inductive alone: that the server has no
second connection needs that a reset is only ever sent by an end that is closed,
and that `re_connect` begins without an open descriptor.

**UdpRouter** (`PeerProofs`).  `QuitOrOut` says where a quit can be once it has been sent.  A join
can put a client back only if it was handled after the quit, and then the quit
overtook it; so the property needs no exemption for repeated joins.

The library's induction theorems take an operator as a parameter, which the provers
cannot instantiate.  Where induction over data is needed (`LeastNumber` in
`ReactorProofs`, and in `EchoServersProofs`) it is done by the least counterexample: the
natural numbers are well-founded, so that a set of lengths for which a statement
fails has a least element, and its recursion leads to a shorter one.

Only model-checked:

* `SleepersWake`, `EveryItemClaimed` and all other liveness properties: they need
  fairness and `ENABLED`, which the provers do not handle;
* `FormatsRead`: that patterns are read as they are spelled.  It composes
  operators that fold over sequences (`FlattenSeq`, `SelectSeq` with a `LAMBDA`) with
  three recursive functions that are local to their operators, so that each needs a
  proof of its own that it satisfies its equation.

## What the models show about the code

* `Schedule::stop` (`Schedule.hpp:204-211`) never ends when a thread is asleep:
  nobody notifies (run `schedule_stop`).  `StopEndsIfNoneSleeps` is what remains.
* `ring_queue::pop` copies its slot after `sem_post(&_room)`: it may return an item
  that was pushed a whole number of turns later, so that one item is returned
  twice and another never (`ReturnsClaimOrLater` allows it; a property asking for
  the claimed item fails).
* `Threadpool`: after `quit()` with an empty queue a worker sleeps for ever and the
  destructor with it; with `stop()` alone and then the destructor, workers use a
  destroyed mutex and may take a task twice (`TasksRunOnce` therefore requires
  `mutexAlive \/ isquit`).
* `AsyncLog`: a `pop` wakes no logger that waits for room; a line pushed by a logger
  that had read `m_flag` before the exit, after the last worker has gone, is never
  written, and once the singleton is destroyed such a logger locks a destroyed mutex;
  the exit hangs when its notification falls between a worker's predicate and its
  sleep.  `LinesWrittenOnce` says that these late lines are the only ones the exit
  leaves.
* `Schedule` with `userCall`: the root thread waits with a lock it does not own, so
  that the mutex of another thread is released.  A fiber that yields is dropped by
  `run`; whoever schedules it again by its state can do so before its context is
  saved, or while it runs (`swapIn` does not set `m_s`), and then two threads have
  it.  `FiberOnOneThread` says that nothing else leads there.
* `LogFormat`: `%d` without a format of its own prints no date, the default of
  `DateFormatItem` being never used; `%%` writes the percent sign and then reads the
  second one again as the beginning of a directive; a name takes all letters that
  follow it, so that `%message` is an unknown directive.  That a bare `%d` writes
  nothing contradicts the comments at `log.hpp:85` and `:527`, which list it as the
  time (`Meant` has it so).  `WellSpelled` excludes exactly these spellings: a piece is a
  text without percent signs, a documented letter by itself or a time with a format
  of documented conversions, and no text behind a letter begins with a letter or a
  brace.  Everything else is read as meant.
* `ProcessPool`: after a failed `fork` the parent is killed when it sends to that
  channel; if it does not, the destructor's `waitpid(-1)` waits for ever unless the
  failed channel is the last, because the children behind it still have open pipes.
* `Reactor`: once a send buffer was full, the connection stays registered for
  writing and is closed at the next writable event, healthy or not; a failing send
  within `_recv` leaves `_recv` with a deleted `Connect`; a reset between two calls
  ends the process with SIGPIPE.
* `TcpCalc`: the server keeps nothing of the stream between two calls of `Recv`, and
  the client takes one `recv` for a whole answer.  Either is harmless while the
  other side does what it does; `FramingHolds` says so.  Once an answer has
  arrived in two pieces the client is ahead, two requests can meet in one `recv`,
  one of them is lost, and `stoi` may end the server for every client.
* `HttpService`: a body is taken to be followed by a line break.  A client that sends
  none, as HTTP has it, either waits for its answer until it sends something else,
  or that is cut by two bytes and read as a method nobody knows; `AnswersInStep`
  counts exactly what is then due: an answer for every `GET` that has arrived whole,
  the line break behind an unclosed body being stood in for by the next request.  A
  length that is no number, an unknown file type or a missing `404.html` ends the
  process or its defined behaviour.
* `HttpService`, `Reactor`: a zero byte in a body ends what `inbuff() += buff`
  appends, so that the rest of that portion of the stream, the requests behind the
  body included, is lost; a negative `Content-Length` makes the request shorter than
  its head, of size 0 (answered for ever, the one thread never returns) or, an `int`
  compared with a `size_t`, longer than any input.  Both put requests and answers of
  that connection out of step for good.
* `AutoConnect`: what is sent before the client learns of the end is lost, and a
  server that stays away for ten tries ends the client for good.
* `UdpRouter`: a lost quit, or one that overtakes a datagram sent before it (a join
  that the network repeats included), leaves a client in the table for ever, as
  nothing else erases it; a client that says quit ends only when
  a datagram comes back to it.
* `TcpCalc`: the server closes no descriptor of a client, so that in the end `accept`
  fails for good; who connects then waits in the backlog without an answer.
* `EchoServers`: a client of `select_server` or `epoll_server` that sends and does not
  read its answers blocks the one thread in `send`, and all others wait with it.
* `EchoServers`: `http_server` spins on a connection whose client has left and never
  closes it; a reset in one thread of `Tcp_inet_all` ends all connections.
* `EchoServers`: `select_server` never closes a connection, so that after as many
  clients as it has descriptors the next accept puts -1 into its set;
  `epoll_server` closes, and in the same situation tries again until a client leaves.

## Not modelled, and why

* Of `log`: appenders and loggers that come and go at run time (`addAppend`,
  `delAppend`, `reopen`, `get_logger`), which needs the ownership that their
  `shared_ptr`s express and that no program of the repository uses.
* Of `Fiber`: `reset` and `call`, which nothing calls, and the counters.
* What is in an answer: the arithmetic and JSON of the calculator, file contents and
  headers of the HTTP servers, the text of a relayed datagram.  Buffers filled to
  the last byte, which some `recv` calls leave unterminated, and zero bytes in what
  is sent to other servers than `Reactor`, which cut a message short.
* `Udp_echo_server` keeps no state and answers nothing; `shm` and `namepipe` are a
  writer and a reader that a FIFO keeps in step; `mystdio`, `myshell`, `progress`
  and `cache` are sequential exercises; the servers' copies of `log.hpp` write one
  line at a time.
* A negative `Content-Length` that ends within the empty line behind a head.
* Memory management other than the deletions named above.

`PROJECT.json`, "hazards", lists what no property covers, with the reason.

## Plan

All components that hold state shared between threads, processes or peers have their
module, and every safety property that a run checks is proved except `FormatsRead`.
What is left, in this order:

1. `FormatsRead`, with the recursive functions of `LogFormat` as definitions of their
   own, each with its equation proved as the lemma `ServiceUnfolds` proves that of
   `service`.
2. Appenders and loggers that come and go at run time, with the ownership their
   `shared_ptr`s express.
3. An abstract specification of what an asynchronous logger promises, with `AsyncLog`
   shown to implement it.
