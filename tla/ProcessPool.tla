----------------------------- MODULE ProcessPool -----------------------------
(***************************************************************************)
(* processpool/: a parent that forks N children, each behind a pipe, sends *)
(* them work codes in turn, and in its destructor closes the pipes one by  *)
(* one and waits for the child behind each.                                *)
(*                                                                         *)
(* A child sees end-of-file only when NO process holds the write end of    *)
(* its pipe any more, and fork() hands every open write end on to the      *)
(* later children; who holds which write end is therefore state.           *)
(* A failed fork() is not noticed: its channel has the pid -1 and no       *)
(* reader, so that sending to it kills the parent (SIGPIPE) and waiting    *)
(* for it waits for any child.                                             *)
(*                                                                         *)
(* The names common to all specifications begin with Process here: so the  *)
(* proofs about this module and about Threadpool can share a module.       *)
(***************************************************************************)
EXTENDS Integers, Sequences, FiniteSets

CONSTANTS N,          \* _n, the number of processes asked for
          NumWorks,   \* works::_n
          MaxSends,   \* bound: the codes the pool's owner sends
          PipeCap,    \* codes that fit into a pipe before write blocks
          MaxFailures \* bound: calls of pipe or fork that fail

ASSUME SizesAssumption == /\ N \in Nat \ {0} /\ NumWorks \in Nat \ {0}
                          /\ MaxSends \in Nat /\ PipeCap \in Nat \ {0}
                          /\ MaxFailures \in Nat

VARIABLES parent,     \* "creating", "sending", "closing", "waiting", "ended", "dead"
          created,    \* length of _v
          failed,     \* channels whose fork failed (pid -1)
          child,      \* per channel: what its child does
          writers,    \* per channel: the processes with its write end open
          pipe,       \* per channel: the codes in the pipe
          turn,       \* the static c of getNextprocess
          workid,     \* the static workid of getNextworkid
          sent,       \* history: how many codes were written
          worked,     \* per channel: the codes its child has worked on
          k           \* the channel the destructor is at

poolVars == <<created, failed>>
sendVars == <<turn, workid, sent>>
processVars == <<parent, poolVars, child, writers, pipe, sendVars, worked, k>>

Channels == 0 .. N - 1
Parent == N            \* a process other than the children

ProcessInit == /\ parent = "creating"
               /\ created = 0 /\ failed = {}
               /\ child = [i \in Channels |-> "none"]
               /\ writers = [i \in Channels |-> {}]
               /\ pipe = [i \in Channels |-> <<>>]
               /\ turn = 0 /\ workid = 0 /\ sent = 0
               /\ worked = [i \in Channels |-> <<>>]
               /\ k = 0

(* A process ends or is killed: the kernel closes what it had open.        *)
CloseAll(p) == writers' = [i \in Channels |-> writers[i] \ {p}]
-----------------------------------------------------------------------------
(* pipe(fd); fork(): the child has every write end the parent has.         *)
Fork == /\ parent = "creating" /\ created < N
        /\ LET new == [writers EXCEPT ![created] = {Parent}]
           IN  writers' = [i \in Channels |-> IF Parent \in new[i]
                                              THEN new[i] \cup {created} ELSE new[i]]
        /\ child' = [child EXCEPT ![created] = "booting"]
        /\ created' = created + 1
        /\ UNCHANGED <<parent, failed, pipe, sendVars, worked, k>>

(* fork() returns -1 and the parent goes on as after a successful fork.    *)
ForkFails == /\ parent = "creating" /\ created < N
             /\ Cardinality(failed) < MaxFailures
             /\ writers' = [writers EXCEPT ![created] = {Parent}]
             /\ failed' = failed \cup {created}
             /\ created' = created + 1
             /\ UNCHANGED <<parent, child, pipe, sendVars, worked, k>>

(* pipe() fails: exit(Pipe_error), without the destructor.                 *)
PipeFails == /\ parent = "creating" /\ created < N /\ MaxFailures > 0
             /\ parent' = "dead"
             /\ CloseAll(Parent)
             /\ UNCHANGED <<poolVars, child, pipe, sendVars, worked, k>>

CreateDone == /\ parent = "creating" /\ created = N
              /\ parent' = "sending"
              /\ UNCHANGED <<poolVars, child, writers, pipe, sendVars, worked, k>>

(* Mutant of Boot: only the child's own write end is closed.               *)
BootOwnOnly(i) == /\ child[i] = "booting"
                  /\ child' = [child EXCEPT ![i] = "reading"]
                  /\ writers' = [writers EXCEPT ![i] = @ \ {i}]
                  /\ UNCHANGED <<parent, poolVars, pipe, sendVars, worked, k>>

(* In the child: close(wfd) and the write end of every channel in _v.      *)
Boot(i) == /\ child[i] = "booting"
           /\ child' = [child EXCEPT ![i] = "reading"]
           /\ CloseAll(i)
           /\ UNCHANGED <<parent, poolVars, pipe, sendVars, worked, k>>

(* Mutant of Work: one read() takes all that is in the pipe.               *)
WorkOnAll(i) ==
  /\ child[i] = "reading" /\ pipe[i] # <<>>
  /\ worked' = [worked EXCEPT ![i] = Append(@, Head(pipe[i]))]
  /\ pipe' = [pipe EXCEPT ![i] = <<>>]
  /\ UNCHANGED <<parent, poolVars, child, writers, sendVars, k>>

(* read() returns a code: the child works on it.                           *)
WorkOn(i) == /\ child[i] = "reading" /\ pipe[i] # <<>>
             /\ worked' = [worked EXCEPT ![i] = Append(@, Head(pipe[i]))]
             /\ pipe' = [pipe EXCEPT ![i] = Tail(@)]
             /\ UNCHANGED <<parent, poolVars, child, writers, sendVars, k>>

(* read() returns 0: exit(0).                                              *)
EndOfFile(i) == /\ child[i] = "reading" /\ pipe[i] = <<>> /\ writers[i] = {}
                /\ child' = [child EXCEPT ![i] = "zombie"]
                /\ CloseAll(i)
                /\ UNCHANGED <<parent, poolVars, pipe, sendVars, worked, k>>
-----------------------------------------------------------------------------
(* c %= _n; return c++                                                     *)
getNextprocess(i) == i = turn % N /\ turn' = i + 1

(* workid %= _n; return workid++                                           *)
getNextworkid(code) == code = workid % NumWorks /\ workid' = code + 1

(* SendTaskCode: the write blocks while the pipe is full.                  *)
Send == /\ parent = "sending" /\ sent < MaxSends
        /\ \E i \in Channels \ failed, code \in 0 .. NumWorks - 1 :
             /\ getNextprocess(i) /\ getNextworkid(code)
             /\ Len(pipe[i]) < PipeCap
             /\ pipe' = [pipe EXCEPT ![i] = Append(@, code)]
             /\ sent' = sent + 1
        /\ UNCHANGED <<parent, poolVars, child, writers, worked, k>>

(* write() to a pipe without a reader: SIGPIPE ends the parent.            *)
SendKills == /\ parent = "sending" /\ sent < MaxSends
             /\ turn % N \in failed
             /\ parent' = "dead"
             /\ CloseAll(Parent)
             /\ UNCHANGED <<poolVars, child, pipe, sendVars, worked, k>>

(* The owner has sent what it wants (main: ten codes) and leaves its scope.*)
SendDone == /\ parent = "sending"
            /\ parent' = "closing"
            /\ UNCHANGED <<poolVars, child, writers, pipe, sendVars, worked, k>>

(* ~processpool: close(i.getwfd()) ...                                     *)
CloseNext == /\ parent = "closing" /\ k < N
             /\ writers' = [writers EXCEPT ![k] = @ \ {Parent}]
             /\ parent' = "waiting"
             /\ UNCHANGED <<poolVars, child, pipe, sendVars, worked, k>>

(* Mutant of WaitChild: WNOHANG, whatever it returns.                      *)
WaitNoHang == /\ parent = "waiting" /\ k \notin failed
              /\ child' = [child EXCEPT ![k] = IF @ = "zombie" THEN "reaped" ELSE @]
              /\ parent' = "closing" /\ k' = k + 1
              /\ UNCHANGED <<poolVars, writers, pipe, sendVars, worked>>

(* ... waitpid(pid): reaps the child, or fails at once if it is reaped.    *)
WaitChild == /\ parent = "waiting" /\ k \notin failed
             /\ child[k] \in {"zombie", "reaped"}
             /\ child' = [child EXCEPT ![k] = "reaped"]
             /\ parent' = "closing" /\ k' = k + 1
             /\ UNCHANGED <<poolVars, writers, pipe, sendVars, worked>>

(* ... waitpid(-1): any child, or at once when there is none to wait for.  *)
WaitAny == /\ parent = "waiting" /\ k \in failed
           /\ IF \A i \in Channels : child[i] \in {"none", "reaped"}
              THEN UNCHANGED child
              ELSE \E i \in Channels : /\ child[i] = "zombie"
                                       /\ child' = [child EXCEPT ![i] = "reaped"]
           /\ parent' = "closing" /\ k' = k + 1
           /\ UNCHANGED <<poolVars, writers, pipe, sendVars, worked>>

End == /\ parent = "closing" /\ k = N
       /\ parent' = "ended"
       /\ CloseAll(Parent)
       /\ UNCHANGED <<poolVars, child, pipe, sendVars, worked, k>>

Child(i) == Boot(i) \/ WorkOn(i) \/ EndOfFile(i)
ParentStep == \/ Fork \/ CreateDone \/ Send \/ SendKills \/ SendDone
              \/ CloseNext \/ WaitChild \/ WaitAny \/ End

ProcessNext == \/ ParentStep \/ ForkFails \/ PipeFails
               \/ \E i \in Channels : Child(i)

(* Every process is scheduled; nothing has to fail.                        *)
ProcessFairness == WF_processVars(ParentStep) /\ \A i \in Channels : WF_processVars(Child(i))

ProcessSpec == ProcessInit /\ [][ProcessNext]_processVars
ProcessFairSpec == ProcessSpec /\ ProcessFairness
-----------------------------------------------------------------------------
(* Types.                                                                  *)
ProcessTypeOK == /\ parent \in {"creating", "sending", "closing", "waiting", "ended", "dead"}
                 /\ created \in 0 .. N /\ failed \subseteq Channels /\ k \in 0 .. N
                 /\ child \in [Channels -> {"none", "booting", "reading", "zombie", "reaped"}]
                 /\ writers \in [Channels -> SUBSET (Channels \cup {Parent})]
                 /\ pipe \in [Channels -> Seq(0 .. NumWorks - 1)]
                 /\ worked \in [Channels -> Seq(0 .. NumWorks - 1)]
                 /\ turn \in 0 .. N /\ workid \in 0 .. NumWorks
                 /\ sent \in 0 .. MaxSends

(* Types; and the codes go round, whatever the two counters have wrapped   *)
(* to: the m-th code sent, from 0, is m % NumWorks and goes to the child   *)
(* m % N.  Every code is worked on once and in order: what a child has     *)
(* done and what is still in its pipe are the codes it was sent, and a     *)
(* child that has ended has left nothing.                                  *)
CodesOf(i) == worked[i] \o pipe[i]
CodesDoneInOrder ==
  /\ ProcessTypeOK
  /\ \A i \in Channels :
       /\ \A n \in 1 .. Len(CodesOf(i)) : CodesOf(i)[n] = (i + N * (n - 1)) % NumWorks
       /\ i + N * Len(CodesOf(i)) \in sent .. sent + N - 1
       /\ child[i] \in {"zombie", "reaped"} => pipe[i] = <<>>

(* No child is left behind.  A write end is open in no process but the     *)
(* parent, until its destructor has come to the channel or it has died,    *)
(* and children that have not got round yet to closing what they           *)
(* inherited: so the child that reads sees the end of its file; and no     *)
(* child outlives a destructor that has ended or is left a zombie, even    *)
(* when a fork had failed.                                                 *)
NotClosedYet(i) == parent \notin {"ended", "dead"} /\ k <= i /\ (parent = "waiting" => k < i)
NoEndLeftOpen ==
  \A i \in Channels : \A p \in writers[i] :
    IF p = Parent THEN NotClosedYet(i) ELSE child[p] = "booting"
NoChildLeft ==
  /\ NoEndLeftOpen
  /\ parent = "ended" => \A i \in Channels : child[i] \in {"none", "reaped"}

(* When no fork or pipe failed, the destructor ends: no two processes wait *)
(* for each other.                                                         *)
DestructorEnds == (created = N /\ failed = {}) ~> parent = "ended"
=============================================================================
