---------------------------- MODULE BoundedFIFO ----------------------------
(***************************************************************************)
(* What a blocking bounded queue promises to its callers, with no mutex,   *)
(* no condition variable and no counter: a call of push or pop takes       *)
(* effect at one instant between its invocation and its return, a push     *)
(* only while there is room and a pop only while there is an item, and     *)
(* items leave in the order they entered.                                  *)
(* BlockQueue (consumer_productor/blockqueue.hpp) is shown to implement it.*)
(***************************************************************************)
EXTENDS Naturals, Sequences

CONSTANTS Pushers, Poppers,  \* the calling threads
          Items, NoItem,     \* what is queued, and the absence of an item
          Cap                \* how many items the queue holds

VARIABLES buf,     \* the items in the queue, oldest first
          calling, \* the threads inside a call of push or pop
          hand     \* per thread: the item it pushes, or popped and still has

vars == <<buf, calling, hand>>

Threads == Pushers \cup Poppers

Init == /\ buf = <<>>
        /\ calling = {}
        /\ hand = [t \in Threads |-> NoItem]

Invoke(t) == /\ t \notin calling
             /\ hand[t] = NoItem
             /\ calling' = calling \cup {t}
             /\ IF t \in Pushers
                THEN \E item \in Items : hand' = [hand EXCEPT ![t] = item]
                ELSE UNCHANGED hand
             /\ UNCHANGED buf

Enqueue(t) == /\ t \in Pushers \cap calling
              /\ Len(buf) < Cap
              /\ buf' = Append(buf, hand[t])
              /\ calling' = calling \ {t}
              /\ hand' = [hand EXCEPT ![t] = NoItem]

Dequeue(t) == /\ t \in Poppers \cap calling
              /\ buf # <<>>
              /\ buf' = Tail(buf)
              /\ calling' = calling \ {t}
              /\ hand' = [hand EXCEPT ![t] = Head(buf)]

Consume(t) == /\ t \in Poppers \ calling
              /\ hand[t] # NoItem
              /\ hand' = [hand EXCEPT ![t] = NoItem]
              /\ UNCHANGED <<buf, calling>>

Next == \E t \in Threads :
           Invoke(t) \/ Enqueue(t) \/ Dequeue(t) \/ Consume(t)

Spec == Init /\ [][Next]_vars
=============================================================================
