------------------------------ MODULE RingQueue ------------------------------
(***************************************************************************)
(* cp_ring_queue: the ring buffer of ring_queue.hpp, guarded by two        *)
(* counting semaphores and one mutex per side, and the loops of            *)
(* cp_thread.hpp.  The source calls the pushing side "consumer" and the    *)
(* popping side "productor"; its names are kept.                           *)
(*                                                                         *)
(* What c_thread pushes is the static counter temp, passed by reference    *)
(* and incremented inside push, so the k-th item is the number k: a value  *)
(* is its own ticket.  pop takes a REFERENCE to the slot under the mutex   *)
(* and copies it only in the return statement, after the mutex and the     *)
(* room semaphore have been given up; claim and copy are separate steps.   *)
(***************************************************************************)
EXTENDS Integers, FiniteSets

CONSTANTS Pushers, Poppers,  \* threads running c_thread and p_thread
          Cap,               \* _cap
          NoThread,          \* "mutex not held"
          MaxPushes          \* bound on temp: no push starts beyond it

ASSUME ThreadsAssumption == /\ IsFiniteSet(Pushers) /\ IsFiniteSet(Poppers)
                            /\ Pushers \cap Poppers = {}
                            /\ NoThread \notin Pushers \cup Poppers
ASSUME SizesAssumption == Cap \in Nat \ {0} /\ MaxPushes \in Nat

VARIABLES v,                \* _v, slots 0 .. Cap-1
          consumer_index,   \* _consumer_index: next slot to write
          productor_index,  \* _productor_index: next slot to read
          room, data,       \* _room and _data: the semaphores' values
          consumer_mutex, productor_mutex,   \* who holds them
          temp,             \* cp_thread::temp, the next item
          pc,               \* per thread: the next statement
          ref,              \* per popper: the slot its reference names
          got,              \* per popper: the value pop returned last
          taken, claim      \* history: claims so far, and each popper's own

vars == <<v, consumer_index, productor_index, room, data, consumer_mutex,
          productor_mutex, temp, pc, ref, got, taken, claim>>

Threads == Pushers \cup Poppers
Slots == 0 .. Cap - 1
NoItem == -1

(* Mutant of Init: the room semaphore starts one too high.                 *)
InitRoomOffByOne ==
        /\ v = [i \in Slots |-> NoItem]
        /\ consumer_index = 0 /\ productor_index = 0
        /\ room = Cap + 1 /\ data = 0
        /\ consumer_mutex = NoThread /\ productor_mutex = NoThread
        /\ temp = 0
        /\ pc = [t \in Threads |-> "outside"]
        /\ ref = [t \in Poppers |-> 0]
        /\ got = [t \in Poppers |-> NoItem]
        /\ taken = 0 /\ claim = [t \in Poppers |-> NoItem]

Init == /\ v = [i \in Slots |-> NoItem]
        /\ consumer_index = 0 /\ productor_index = 0
        /\ room = Cap /\ data = 0
        /\ consumer_mutex = NoThread /\ productor_mutex = NoThread
        /\ temp = 0
        /\ pc = [t \in Threads |-> "outside"]
        /\ ref = [t \in Poppers |-> 0]
        /\ got = [t \in Poppers |-> NoItem]
        /\ taken = 0 /\ claim = [t \in Poppers |-> NoItem]

Goto(t, from, to) == pc[t] = from /\ pc' = [pc EXCEPT ![t] = to]

popVars == <<productor_index, productor_mutex, ref, got, taken, claim>>
pushVars == <<consumer_index, consumer_mutex, temp>>

(* sem_wait(&_room)                                                        *)
PushWait(t) == /\ Goto(t, "outside", "lock")
               /\ room > 0 /\ temp < MaxPushes
               /\ room' = room - 1
               /\ UNCHANGED <<v, data, pushVars, popVars>>

(* lock; _v[_consumer_index++] = data                                      *)
PushStore(t) == /\ Goto(t, "lock", "advance")
                /\ consumer_mutex = NoThread
                /\ consumer_mutex' = t
                /\ v' = [v EXCEPT ![consumer_index] = temp]
                /\ consumer_index' = consumer_index + 1
                /\ UNCHANGED <<room, data, temp, popVars>>

(* _consumer_index %= _cap; data++; unlock                                 *)
PushAdvance(t) == /\ Goto(t, "advance", "post")
                  /\ consumer_index' = consumer_index % Cap
                  /\ temp' = temp + 1
                  /\ consumer_mutex' = NoThread
                  /\ UNCHANGED <<v, room, data, popVars>>

(* Mutant of PushPost: the semaphore is posted only when it stands at 0.   *)
PushPostIfEmpty(t) == /\ Goto(t, "post", "outside")
                      /\ data' = IF data = 0 THEN 1 ELSE data
                      /\ UNCHANGED <<v, room, pushVars, popVars>>

(* sem_post(&_data)                                                        *)
PushPost(t) == /\ Goto(t, "post", "outside")
               /\ data' = data + 1
               /\ UNCHANGED <<v, room, pushVars, popVars>>

(* sem_wait(&_data)                                                        *)
PopWait(t) == /\ Goto(t, "outside", "lock")
              /\ data > 0
              /\ data' = data - 1
              /\ UNCHANGED <<v, room, pushVars, popVars>>

(* lock; const T& temp = _v[_productor_index++]                            *)
PopRefer(t) == /\ Goto(t, "lock", "advance")
               /\ productor_mutex = NoThread
               /\ productor_mutex' = t
               /\ ref' = [ref EXCEPT ![t] = productor_index]
               /\ productor_index' = productor_index + 1
               /\ claim' = [claim EXCEPT ![t] = taken]
               /\ taken' = taken + 1
               /\ UNCHANGED <<v, room, data, pushVars, got>>

(* Mutant of PopAdvance: the index wraps one slot early.                   *)
PopAdvanceEarly(t) == /\ Goto(t, "advance", "post")
                      /\ productor_index' =
                           IF productor_index >= Cap - 1 THEN 0 ELSE productor_index
                      /\ productor_mutex' = NoThread
                      /\ UNCHANGED <<v, room, data, pushVars, ref, got, taken, claim>>

(* _productor_index %= _cap; unlock                                        *)
PopAdvance(t) == /\ Goto(t, "advance", "post")
                 /\ productor_index' = productor_index % Cap
                 /\ productor_mutex' = NoThread
                 /\ UNCHANGED <<v, room, data, pushVars, ref, got, taken, claim>>

(* Mutant of PopPost: the slot is never given back.                        *)
PopNoPost(t) == /\ Goto(t, "post", "copy")
                /\ UNCHANGED <<v, room, data, pushVars, popVars>>

(* sem_post(&_room)                                                        *)
PopPost(t) == /\ Goto(t, "post", "copy")
              /\ room' = room + 1
              /\ UNCHANGED <<v, data, pushVars, popVars>>

(* return temp: the slot is read here.                                     *)
PopCopy(t) == /\ Goto(t, "copy", "outside")
              /\ got' = [got EXCEPT ![t] = v[ref[t]]]
              /\ UNCHANGED <<v, room, data, pushVars, productor_index,
                             productor_mutex, ref, taken, claim>>

CThread(t) == PushWait(t) \/ PushStore(t) \/ PushAdvance(t) \/ PushPost(t)
PThread(t) == PopWait(t) \/ PopRefer(t) \/ PopAdvance(t) \/ PopPost(t) \/ PopCopy(t)

(* With MaxPushes pushed and popped everything waits: only the bound stops *)
(* the threads.                                                            *)
Next == \/ \E t \in Pushers : CThread(t)
        \/ \E t \in Poppers : PThread(t)

(* A thread that can go on does: sem_post wakes a waiter, the mutexes are  *)
(* held for two statements.                                                *)
Fairness == /\ \A t \in Pushers : WF_vars(CThread(t))
            /\ \A t \in Poppers : WF_vars(PThread(t))

Spec == Init /\ [][Next]_vars
FairSpec == Spec /\ Fairness
-----------------------------------------------------------------------------
At(S, places) == {t \in S : pc[t] \in places}

(* Types; both indices may be one past the end, but only between the       *)
(* increment and the %= of the thread that holds the side's mutex.         *)
TypeOK == /\ v \in [Slots -> Int]
          /\ consumer_index \in 0 .. Cap /\ productor_index \in 0 .. Cap
          /\ room \in 0 .. Cap /\ data \in 0 .. Cap
          /\ consumer_mutex \in Pushers \cup {NoThread}
          /\ productor_mutex \in Poppers \cup {NoThread}
          /\ temp \in Nat /\ taken \in Nat
          /\ pc \in [Threads -> {"outside", "lock", "advance", "post", "copy"}]
          /\ ref \in [Poppers -> Slots]
          /\ got \in [Poppers -> Int] /\ claim \in [Poppers -> Int]

(* Types; and the semaphores account for every slot: a slot is free,       *)
(* filled, or with the one thread between its sem_wait and its sem_post.   *)
SlotsAccounted ==
  TypeOK /\ room + data + Cardinality(At(Threads, {"lock", "advance", "post"})) = Cap

(* No item is overwritten before a popper has claimed it, and none is      *)
(* claimed before it was written: the unclaimed items are in the ring, in  *)
(* order, each in the slot the next claims will refer to.                  *)
UnclaimedIntact == /\ taken <= temp
                   /\ \A k \in taken .. temp - 1 : v[k % Cap] = k

(* What pop returns.  The copy comes after sem_post(&_room), so the slot   *)
(* may have been reused: the value is the claimed item or one that was     *)
(* pushed a whole number of turns later, never an older or a torn one.     *)
ReturnsClaimOrLater ==
  \A t \in Poppers : pc[t] = "outside" /\ claim[t] # NoItem =>
     /\ got[t] \in claim[t] .. temp
     /\ (got[t] - claim[t]) % Cap = 0

(* Every item pushed is eventually claimed by a popper.                    *)
EveryItemClaimed == \A k \in 0 .. MaxPushes - 1 : temp > k ~> taken > k
=============================================================================
