--------------------------- MODULE RingQueueProofs ---------------------------
(***************************************************************************)
(* Proofs about RingQueue, for any finite sets of threads and any number   *)
(* of slots.  Two counts carry the argument.  The semaphores and the       *)
(* threads between their sem_wait and their sem_post account for every     *)
(* slot; and the items that are stored and not yet claimed are those that  *)
(* _data counts, those whose pusher has yet to post it and those whose     *)
(* popper has waited for it and has yet to claim it.  Together they keep a *)
(* pusher a whole turn away from the oldest unclaimed item.                *)
(***************************************************************************)
EXTENDS RingQueue, FiniteSetTheorems, TLAPS

(* A side's mutex is held between the increment of its index and the %= ,  *)
(* and pushers have nothing to copy.                                       *)
Mutexes == /\ \A t \in Pushers : pc[t] = "advance" <=> consumer_mutex = t
           /\ \A t \in Poppers : pc[t] = "advance" <=> productor_mutex = t
           /\ \A t \in Pushers : pc[t] # "copy"

(* The indices are the counts of items modulo _cap; what the pusher in its *)
(* critical section has stored is the next item.                           *)
Indices ==
  /\ IF consumer_mutex = NoThread
     THEN consumer_index = temp % Cap
     ELSE consumer_index = (temp % Cap) + 1 /\ v[temp % Cap] = temp
  /\ IF productor_mutex = NoThread
     THEN productor_index = taken % Cap
     ELSE productor_index = ((taken - 1) % Cap) + 1

(* An item that has been stored and not been claimed is in _data, or its   *)
(* pusher has yet to post, or a popper that has waited has yet to claim it.*)
UnclaimedCounted ==
  temp - taken = data + Cardinality(At(Pushers, {"post"})) + Cardinality(At(Poppers, {"lock"}))

(* An item is stored only where its number says.                           *)
Contents == \A i \in Slots : v[i] # NoItem => v[i] \in 0 .. temp /\ v[i] % Cap = i

(* Until its copy a popper refers to the slot of the item it has claimed,  *)
(* in which there is that item or a later one.                             *)
References ==
  \A t \in Poppers :
    /\ claim[t] # NoItem => claim[t] \in 0 .. taken - 1
    /\ pc[t] \in {"advance", "post", "copy"} =>
         claim[t] # NoItem /\ ref[t] = claim[t] % Cap /\ v[ref[t]] >= claim[t]

(* The inductive invariant.                                                *)
IInv == /\ SlotsAccounted /\ UnclaimedIntact /\ ReturnsClaimOrLater
        /\ Mutexes /\ Indices /\ UnclaimedCounted /\ Contents /\ References
-----------------------------------------------------------------------------
(* Division with remainder by _cap.                                        *)
LEMMA Division ==
  ASSUME NEW k \in Int
  PROVE  k % Cap \in 0 .. Cap - 1 /\ k \div Cap \in Int /\ k = Cap * (k \div Cap) + (k % Cap)
BY SizesAssumption

(* An index taken modulo _cap is one of _arr.                              *)
LEMMA ItsSlot ==
  ASSUME NEW k \in Int
  PROVE  k % Cap \in Slots
BY Division DEF Slots

(* A greater multiple of _cap is greater by at least _cap.                 *)
LEMMA Multiples ==
  ASSUME NEW m \in Int, NEW n \in Int, m < n
  PROVE  Cap * m + Cap <= Cap * n
<1> USE SizesAssumption
<1>1. n - m >= 1
  OBVIOUS
<1>2. Cap * (n - m) >= Cap
  BY <1>1
<1> QED  BY <1>2

(* The remainder is the only one.                                          *)
LEMMA Remainder ==
  ASSUME NEW k \in Int, NEW q \in Int, NEW r \in 0 .. Cap - 1, k = Cap * q + r
  PROVE  k % Cap = r /\ k \div Cap = q
<1> USE SizesAssumption
<1> DEFINE d == k \div Cap  m == k % Cap
<1>1. d \in Int /\ m \in 0 .. Cap - 1 /\ k = Cap * d + m
  BY Division
<1> HIDE DEF d, m
<1>2. Cap * d \in Int /\ Cap * q \in Int
  BY <1>1
<1>3. ~(d < q)
  BY <1>1, <1>2, Multiples
<1>4. ~(q < d)
  BY <1>1, <1>2, Multiples
<1>5. d = q
  BY <1>1, <1>3, <1>4
<1>6. m = r
  BY <1>1, <1>2, <1>5
<1> QED  BY <1>5, <1>6 DEF d, m

(* One slot further.                                                       *)
LEMMA NextSlot ==
  ASSUME NEW k \in Int
  PROVE  ((k % Cap) + 1) % Cap = (k + 1) % Cap
<1> USE SizesAssumption
<1> DEFINE d == k \div Cap  m == k % Cap
<1>1. d \in Int /\ m \in 0 .. Cap - 1 /\ k = Cap * d + m
  BY Division
<1> HIDE DEF d, m
<1>2. Cap * d \in Int /\ Cap * (d + 1) = Cap * d + Cap
  BY <1>1
<1>3. CASE m + 1 < Cap
  <2>1. (m + 1) % Cap = m + 1
    <3>1. m + 1 \in 0 .. Cap - 1 /\ m + 1 = Cap * 0 + (m + 1)
      BY <1>1, <1>3
    <3> QED  BY <3>1, Remainder
  <2>2. (k + 1) % Cap = m + 1
    <3>1. k + 1 \in Int /\ m + 1 \in 0 .. Cap - 1 /\ k + 1 = Cap * d + (m + 1)
      BY <1>1, <1>2, <1>3
    <3> QED  BY <3>1, <1>1, Remainder
  <2> QED  BY <2>1, <2>2 DEF m
<1>4. CASE m + 1 = Cap
  <2>1. (m + 1) % Cap = 0
    <3>1. 0 \in 0 .. Cap - 1 /\ m + 1 = Cap * 1 + 0
      BY <1>1, <1>4
    <3> QED  BY <3>1, Remainder
  <2>2. (k + 1) % Cap = 0
    <3>1. k + 1 \in Int /\ 0 \in 0 .. Cap - 1 /\ k + 1 = Cap * (d + 1) + 0
      BY <1>1, <1>2, <1>4
    <3> QED  BY <3>1, <1>1, Remainder
  <2> QED  BY <2>1, <2>2 DEF m
<1> QED  BY <1>1, <1>3, <1>4

(* Items that are less than a turn apart have different slots.             *)
LEMMA DifferentSlots ==
  ASSUME NEW j \in Int, NEW k \in Int, j < k, k - j < Cap
  PROVE  j % Cap # k % Cap
<1> USE SizesAssumption
<1> SUFFICES ASSUME j % Cap = k % Cap PROVE FALSE
  OBVIOUS
<1> DEFINE d == j \div Cap  e == k \div Cap  m == k % Cap
<1>1. d \in Int /\ e \in Int /\ m \in 0 .. Cap - 1 /\ j = Cap * d + m /\ k = Cap * e + m
  BY Division
<1> HIDE DEF d, e, m
<1>2. Cap * d \in Int /\ Cap * e \in Int
  BY <1>1
<1>3. Cap * e - Cap * d < Cap /\ Cap * e - Cap * d > 0
  BY <1>1, <1>2
<1>4. ~(d < e)
  BY <1>1, <1>2, <1>3, Multiples
<1>5. ~(e < d)
  BY <1>1, <1>2, <1>3, Multiples
<1> QED  BY <1>1, <1>3, <1>4, <1>5

(* All items less than a turn before k have other slots than k.            *)
LEMMA LessThanATurn ==
  ASSUME NEW j \in Int, NEW k \in Int, k - j < Cap
  PROVE  \A i \in j .. k - 1 : i % Cap # k % Cap /\ i % Cap \in Slots
<1> TAKE i \in j .. k - 1
<1>1. i \in Int /\ i < k /\ k - i < Cap
  BY SizesAssumption
<1> QED  BY <1>1, DifferentSlots, ItsSlot

(* Items of one slot are whole turns apart.                                *)
LEMMA WholeTurns ==
  ASSUME NEW j \in Int, NEW k \in Int, j % Cap = k % Cap
  PROVE  (k - j) % Cap = 0
<1> USE SizesAssumption
<1> DEFINE d == j \div Cap  e == k \div Cap  m == k % Cap
<1>1. d \in Int /\ e \in Int /\ m \in 0 .. Cap - 1 /\ j = Cap * d + m /\ k = Cap * e + m
  BY Division
<1> HIDE DEF d, e, m
<1>2. Cap * d \in Int /\ Cap * e \in Int /\ Cap * (e - d) = Cap * e - Cap * d
  BY <1>1
<1>3. k - j \in Int /\ 0 \in 0 .. Cap - 1 /\ k - j = Cap * (e - d) + 0
  BY <1>1, <1>2
<1> QED  BY <1>1, <1>3, Remainder
-----------------------------------------------------------------------------
(* A thread that goes on leaves one place and is then at another.          *)
LEMMA Moved ==
  ASSUME pc \in [Threads -> {"outside", "lock", "advance", "post", "copy"}],
         NEW S \in SUBSET Threads, NEW places, NEW t \in Threads, NEW from, NEW to,
         Goto(t, from, to), to \in {"outside", "lock", "advance", "post", "copy"}
  PROVE  /\ Cardinality(At(S, places)) \in Nat /\ Cardinality(At(S, places))' \in Nat
         /\ t \notin S \/ (from \in places <=> to \in places) =>
              Cardinality(At(S, places))' = Cardinality(At(S, places))
         /\ t \in S /\ from \in places /\ to \notin places =>
              Cardinality(At(S, places))' = Cardinality(At(S, places)) - 1
         /\ t \in S /\ from \notin places /\ to \in places =>
              Cardinality(At(S, places))' = Cardinality(At(S, places)) + 1
<1>1. /\ IsFiniteSet(At(S, places))
      /\ IsFiniteSet(At(S, places)')
  <2>1. IsFiniteSet(Threads)
    BY ThreadsAssumption, FS_Union DEF Threads
  <2>2. At(S, places) \in SUBSET Threads /\ At(S, places)' \in SUBSET Threads
    BY DEF At
  <2> QED  BY <2>1, <2>2, FS_Subset
<1>2. /\ Cardinality(At(S, places)) \in Nat
      /\ Cardinality(At(S, places))' \in Nat
  BY <1>1, FS_CardinalityType
<1>3. ASSUME t \notin S \/ (from \in places <=> to \in places)
      PROVE  At(S, places)' = At(S, places)
  BY <1>3 DEF At, Goto
<1>4. ASSUME t \in S, from \in places, to \notin places
      PROVE  t \in At(S, places) /\ At(S, places)' = At(S, places) \ {t}
  BY <1>4 DEF At, Goto
<1>5. ASSUME t \in S, from \notin places, to \in places
      PROVE  t \notin At(S, places) /\ At(S, places)' = At(S, places) \cup {t}
  BY <1>5 DEF At, Goto
<1>6. /\ t \in At(S, places) =>
            Cardinality(At(S, places) \ {t}) = Cardinality(At(S, places)) - 1
      /\ t \notin At(S, places) =>
            Cardinality(At(S, places) \cup {t}) = Cardinality(At(S, places)) + 1
  BY <1>1, FS_RemoveElement, FS_AddElement
<1> QED  BY <1>2, <1>3, <1>4, <1>5, <1>6

(* The constructor establishes the invariant.                              *)
LEMMA InitIInv == Init => IInv
<1> SUFFICES ASSUME Init PROVE IInv
  OBVIOUS
<1> USE SizesAssumption, ThreadsAssumption DEF Init, Threads, NoItem, Slots
<1>1. TypeOK
  BY DEF TypeOK
<1>2. \A S \in SUBSET Threads : \A places : "outside" \notin places => At(S, places) = {}
  BY DEF At
<1>3. SlotsAccounted /\ UnclaimedCounted
  <2>1. /\ At(Threads, {"lock", "advance", "post"}) = {}
        /\ At(Pushers, {"post"}) = {} /\ At(Poppers, {"lock"}) = {}
    BY <1>2
  <2>2. /\ Cardinality(At(Threads, {"lock", "advance", "post"})) = 0
        /\ Cardinality(At(Pushers, {"post"})) = 0 /\ Cardinality(At(Poppers, {"lock"})) = 0
    BY <2>1, FS_EmptySet, Zenon
  <2> QED  BY <1>1, <2>2 DEF SlotsAccounted, UnclaimedCounted
<1>4. 0 % Cap = 0
  <2>1. 0 \in 0 .. Cap - 1 /\ 0 = Cap * 0 + 0
    OBVIOUS
  <2> QED  BY <2>1, Remainder
<1>5. Mutexes /\ Indices /\ Contents /\ References
  BY <1>4 DEF Mutexes, Indices, Contents, References
<1>6. UnclaimedIntact /\ ReturnsClaimOrLater
  BY DEF UnclaimedIntact, ReturnsClaimOrLater
<1> QED  BY <1>3, <1>5, <1>6 DEF IInv
-----------------------------------------------------------------------------
(* The semaphores never exceed _cap, and no item is claimed that is not    *)
(* there: what the two counts say.                                         *)
LEMMA Counts ==
  ASSUME IInv
  PROVE  /\ \A t \in Pushers : pc[t] = "lock" => temp - taken < Cap
         /\ \A t \in Poppers : pc[t] = "lock" => taken < temp
<1> USE ThreadsAssumption, SizesAssumption DEF IInv, SlotsAccounted, TypeOK
<1> DEFINE posting == At(Pushers, {"post"})
           claiming == At(Poppers, {"lock"})
           inside == At(Threads, {"lock", "advance", "post"})
<1>1. /\ IsFiniteSet(posting) /\ IsFiniteSet(claiming) /\ IsFiniteSet(inside)
      /\ posting \cup claiming \in SUBSET inside /\ posting \cap claiming = {}
  <2>1. IsFiniteSet(Threads)
    BY FS_Union DEF Threads
  <2>2. posting \in SUBSET Threads /\ claiming \in SUBSET Threads /\ inside \in SUBSET Threads
    BY DEF At, Threads
  <2>3. posting \cup claiming \in SUBSET inside /\ posting \cap claiming = {}
    BY DEF At, Threads
  <2> QED  BY <2>1, <2>2, <2>3, FS_Subset
<1> HIDE DEF posting, claiming, inside
<1>2. /\ Cardinality(posting) \in Nat /\ Cardinality(claiming) \in Nat
      /\ Cardinality(inside) \in Nat
      /\ Cardinality(posting \cup claiming) = Cardinality(posting) + Cardinality(claiming)
  <2>1. Cardinality(posting \cap claiming) = 0
    BY <1>1, FS_EmptySet
  <2>2. /\ Cardinality(posting) \in Nat /\ Cardinality(claiming) \in Nat
        /\ Cardinality(inside) \in Nat
    BY <1>1, FS_CardinalityType
  <2> QED  BY <1>1, <2>1, <2>2, FS_Union
<1>3. ASSUME NEW t \in Pushers, pc[t] = "lock"
      PROVE  temp - taken < Cap
  <2>1. t \in inside /\ t \notin posting \cup claiming
    BY <1>3 DEF At, Threads, posting, claiming, inside
  <2>2. Cardinality(posting \cup claiming) < Cardinality(inside)
    BY <1>1, <1>2, <2>1, FS_Subset
  <2>3. room + data + Cardinality(inside) = Cap
    BY DEF inside
  <2>4. temp - taken = data + Cardinality(posting) + Cardinality(claiming)
    BY DEF UnclaimedCounted, posting, claiming
  <2> QED  BY <1>2, <2>2, <2>3, <2>4
<1>4. ASSUME NEW t \in Poppers, pc[t] = "lock"
      PROVE  taken < temp
  <2>1. t \in claiming
    BY <1>4 DEF At, claiming
  <2>2. Cardinality(claiming) # 0
    BY <1>1, <2>1, FS_EmptySet
  <2>3. temp - taken = data + Cardinality(posting) + Cardinality(claiming)
    BY DEF UnclaimedCounted, posting, claiming
  <2> QED  BY <1>2, <2>2, <2>3
<1> QED  BY <1>3, <1>4

(* The two counts after a step.                                            *)
LEMMA CountsStep ==
  ASSUME IInv, Next
  PROVE  /\ (room + data + Cardinality(At(Threads, {"lock", "advance", "post"})) = Cap)'
         /\ UnclaimedCounted'
<1> DEFINE inside == Cardinality(At(Threads, {"lock", "advance", "post"}))
           posting == Cardinality(At(Pushers, {"post"}))
           claiming == Cardinality(At(Poppers, {"lock"}))
           counted == room + data + inside = Cap /\ temp - taken = data + posting + claiming
<1> USE ThreadsAssumption DEF IInv, SlotsAccounted, TypeOK
<1>1. ASSUME NEW t \in Threads, NEW from, NEW to, Goto(t, from, to),
             from \in {"outside", "lock", "advance", "post", "copy"},
             to \in {"outside", "lock", "advance", "post", "copy"}
      PROVE  LET in(S, places, a) == IF t \in S /\ a \in places THEN 1 ELSE 0
                 delta(S, places) == in(S, places, to) - in(S, places, from)
             IN  /\ inside \in Nat /\ posting \in Nat /\ claiming \in Nat
                 /\ inside' = inside + delta(Threads, {"lock", "advance", "post"})
                 /\ posting' = posting + delta(Pushers, {"post"})
                 /\ claiming' = claiming + delta(Poppers, {"lock"})
  <2>1. Pushers \in SUBSET Threads /\ Poppers \in SUBSET Threads
    BY DEF Threads
  <2> QED  BY <1>1, <2>1, Moved
<1>2. counted
  BY DEF UnclaimedCounted
<1> HIDE DEF inside, posting, claiming
<1>3. ASSUME NEW t \in Pushers, CThread(t) PROVE counted'
  <2>1. t \in Threads /\ t \notin Poppers
    BY DEF Threads
  <2>2. CASE PushWait(t)
    BY <1>1, <1>2, <2>1, <2>2 DEF PushWait, popVars, pushVars
  <2>3. CASE PushStore(t)
    BY <1>1, <1>2, <2>1, <2>3 DEF PushStore, popVars
  <2>4. CASE PushAdvance(t)
    BY <1>1, <1>2, <2>1, <2>4 DEF PushAdvance, popVars
  <2>5. CASE PushPost(t)
    BY <1>1, <1>2, <2>1, <2>5 DEF PushPost, popVars, pushVars
  <2> QED  BY <1>3, <2>2, <2>3, <2>4, <2>5 DEF CThread
<1>4. ASSUME NEW t \in Poppers, PThread(t) PROVE counted'
  <2>1. t \in Threads /\ t \notin Pushers
    BY DEF Threads
  <2>2. CASE PopWait(t)
    BY <1>1, <1>2, <2>1, <2>2 DEF PopWait, popVars, pushVars
  <2>3. CASE PopRefer(t)
    BY <1>1, <1>2, <2>1, <2>3 DEF PopRefer, pushVars
  <2>4. CASE PopAdvance(t)
    BY <1>1, <1>2, <2>1, <2>4 DEF PopAdvance, pushVars
  <2>5. CASE PopPost(t)
    BY <1>1, <1>2, <2>1, <2>5 DEF PopPost, popVars, pushVars
  <2>6. CASE PopCopy(t)
    <3>1. Goto(t, "copy", "outside") /\ UNCHANGED <<room, data, temp, taken>>
      BY <2>6 DEF PopCopy, pushVars
    <3> QED  BY <1>1, <1>2, <2>1, <3>1
  <2> QED  BY <1>4, <2>2, <2>3, <2>4, <2>5, <2>6 DEF PThread
<1> QED  BY <1>3, <1>4 DEF Next, UnclaimedCounted, inside, posting, claiming

(* Every step keeps the types.                                             *)
LEMMA TypeStep ==
  ASSUME IInv, Next
  PROVE  TypeOK'
<1> USE SizesAssumption DEF IInv, SlotsAccounted, TypeOK, Threads
<1> DEFINE rest == /\ v \in [Slots -> Int]
                   /\ consumer_index \in 0 .. Cap /\ productor_index \in 0 .. Cap
                   /\ room \in Nat /\ data \in Nat
                   /\ consumer_mutex \in Pushers \cup {NoThread}
                   /\ productor_mutex \in Poppers \cup {NoThread}
                   /\ temp \in Nat /\ taken \in Nat
                   /\ pc \in [Threads -> {"outside", "lock", "advance", "post", "copy"}]
                   /\ ref \in [Poppers -> Slots]
                   /\ got \in [Poppers -> Int] /\ claim \in [Poppers -> Int]
<1>1. \A k \in Int : k % Cap \in 0 .. Cap - 1
  BY Division
<1>2. ASSUME NEW t \in Pushers, CThread(t) PROVE rest'
  <2>1. CASE PushWait(t)
    BY <2>1 DEF PushWait, Goto, popVars, pushVars
  <2>2. CASE PushStore(t)
    <3>1. consumer_index = temp % Cap
      BY <2>2 DEF PushStore, Indices
    <3>2. consumer_index' \in 0 .. Cap
      BY <1>1, <2>2, <3>1 DEF PushStore
    <3>3. v' \in [Slots -> Int]
      <4>1. v' = [v EXCEPT ![consumer_index] = temp] /\ temp \in Int
        BY <2>2 DEF PushStore
      <4> QED  BY <4>1
    <3> QED  BY <2>2, <3>2, <3>3 DEF PushStore, Goto, popVars
  <2>3. CASE PushAdvance(t)
    <3>1. consumer_index' \in 0 .. Cap
      BY <1>1, <2>3 DEF PushAdvance
    <3> QED  BY <2>3, <3>1 DEF PushAdvance, Goto, popVars
  <2>4. CASE PushPost(t)
    BY <2>4 DEF PushPost, Goto, popVars, pushVars
  <2> QED  BY <1>2, <2>1, <2>2, <2>3, <2>4 DEF CThread
<1>3. ASSUME NEW t \in Poppers, PThread(t) PROVE rest'
  <2>1. CASE PopWait(t)
    BY <2>1 DEF PopWait, Goto, popVars, pushVars
  <2>2. CASE PopRefer(t)
    <3>1. productor_index = taken % Cap
      BY <2>2 DEF PopRefer, Indices
    <3>2. productor_index \in Slots /\ productor_index' \in 0 .. Cap
      BY <1>1, <2>2, <3>1 DEF PopRefer, Slots
    <3> QED  BY <2>2, <3>2 DEF PopRefer, Goto, pushVars
  <2>3. CASE PopAdvance(t)
    <3>1. productor_index' \in 0 .. Cap
      BY <1>1, <2>3 DEF PopAdvance
    <3> QED  BY <2>3, <3>1 DEF PopAdvance, Goto, pushVars
  <2>4. CASE PopPost(t)
    BY <2>4 DEF PopPost, Goto, popVars, pushVars
  <2>5. CASE PopCopy(t)
    BY <2>5 DEF PopCopy, Goto, pushVars
  <2> QED  BY <1>3, <2>1, <2>2, <2>3, <2>4, <2>5 DEF PThread
<1>4. rest'
  BY <1>2, <1>3 DEF Next
<1>5. room' <= Cap /\ data' <= Cap
  <2>1. Cardinality(At(Threads, {"lock", "advance", "post"}))' \in Nat
    <3>1. At(Threads, {"lock", "advance", "post"})' \in SUBSET Threads
      BY DEF At
    <3>2. IsFiniteSet(Threads)
      BY FS_Union, ThreadsAssumption DEF Threads
    <3>3. IsFiniteSet(At(Threads, {"lock", "advance", "post"})')
      BY <3>1, <3>2, FS_Subset
    <3> QED  BY <3>3, FS_CardinalityType
  <2>2. (room + data + Cardinality(At(Threads, {"lock", "advance", "post"})) = Cap)'
    BY CountsStep
  <2> QED  BY <1>4, <2>1, <2>2
<1> QED  BY <1>4, <1>5

(* Both mutexes exclude: their owner is the one thread behind the lock.    *)
LEMMA MutexesStep ==
  ASSUME IInv, Next
  PROVE  Mutexes'
<1> USE ThreadsAssumption DEF IInv, SlotsAccounted, TypeOK, Mutexes, Goto, Threads
<1>1. ASSUME NEW t \in Pushers, CThread(t) PROVE Mutexes'
  BY <1>1 DEF CThread, PushWait, PushStore, PushAdvance, PushPost, popVars, pushVars
<1>2. ASSUME NEW t \in Poppers, PThread(t) PROVE Mutexes'
  BY <1>2 DEF PThread, PopWait, PopRefer, PopAdvance, PopPost, PopCopy, popVars, pushVars
<1> QED  BY <1>1, <1>2 DEF Next

(* A push or pop moves its index along with its count, in two steps.       *)
LEMMA IndicesStep ==
  ASSUME IInv, Next
  PROVE  Indices'
<1> USE ThreadsAssumption, SizesAssumption DEF IInv, SlotsAccounted, TypeOK, Indices
<1>1. ASSUME NEW t \in Pushers, CThread(t) PROVE Indices'
  <2>1. CASE PushWait(t) \/ PushPost(t)
    BY <2>1 DEF PushWait, PushPost, popVars, pushVars
  <2>2. CASE PushStore(t)
    <3>1. consumer_index = temp % Cap /\ consumer_index \in Slots
      BY <2>2, Division DEF PushStore, Slots
    <3>2. t # NoThread
      OBVIOUS
    <3> QED  BY <2>2, <3>1, <3>2 DEF PushStore, popVars
  <2>3. CASE PushAdvance(t)
    <3>1. consumer_mutex = t /\ t # NoThread
      BY <2>3 DEF PushAdvance, Goto, Mutexes
    <3>2. consumer_index' = (temp + 1) % Cap
      BY <2>3, <3>1, NextSlot DEF PushAdvance
    <3> QED  BY <2>3, <3>2 DEF PushAdvance, popVars
  <2> QED  BY <1>1, <2>1, <2>2, <2>3 DEF CThread
<1>2. ASSUME NEW t \in Poppers, PThread(t) PROVE Indices'
  <2>1. CASE PopWait(t) \/ PopPost(t) \/ PopCopy(t)
    BY <2>1 DEF PopWait, PopPost, PopCopy, popVars, pushVars
  <2>2. CASE PopRefer(t)
    <3>1. productor_index = taken % Cap /\ t # NoThread /\ taken' - 1 = taken
      BY <2>2 DEF PopRefer
    <3>2. productor_index' = ((taken' - 1) % Cap) + 1
      BY <2>2, <3>1 DEF PopRefer
    <3> QED  BY <2>2, <3>1, <3>2 DEF PopRefer, pushVars
  <2>3. CASE PopAdvance(t)
    <3>1. productor_mutex = t /\ t # NoThread
      BY <2>3 DEF PopAdvance, Goto, Mutexes
    <3>2. (((taken - 1) % Cap) + 1) % Cap = ((taken - 1) + 1) % Cap
      BY NextSlot
    <3>3. (taken - 1) + 1 = taken
      OBVIOUS
    <3>4. productor_index' = taken % Cap
      BY <2>3, <3>1, <3>2, <3>3 DEF PopAdvance
    <3> QED  BY <2>3, <3>4 DEF PopAdvance, pushVars
  <2> QED  BY <1>2, <2>1, <2>2, <2>3 DEF PThread
<1> QED  BY <1>1, <1>2 DEF Next

(* What a push stores is less than a turn ahead of the unclaimed items,    *)
(* and behind every item that has been claimed.                            *)
LEMMA IntactStep ==
  ASSUME IInv, Next
  PROVE  UnclaimedIntact' /\ Contents'
<1> USE SizesAssumption DEF IInv, SlotsAccounted, TypeOK
<1>1. ASSUME NEW t \in Pushers, CThread(t) PROVE UnclaimedIntact' /\ Contents'
  <2>1. CASE PushWait(t) \/ PushPost(t)
    BY <2>1 DEF PushWait, PushPost, popVars, pushVars, UnclaimedIntact, Contents
  <2>2. CASE PushStore(t)
    <3> DEFINE slot == temp % Cap
    <3>1. slot = consumer_index
      BY <2>2 DEF PushStore, Indices
    <3>2. slot \in Slots
      <4>1. temp \in Int
        OBVIOUS
      <4> QED  BY <4>1, ItsSlot
    <3>3. v' = [v EXCEPT ![slot] = temp] /\ temp' = temp /\ taken' = taken
      BY <2>2, <3>1 DEF PushStore, popVars
    <3>4. temp - taken < Cap
      BY <2>2, Counts DEF PushStore, Goto
    <3>5. \A k \in taken .. temp - 1 : k % Cap # slot /\ k % Cap \in Slots
      <4>1. taken \in Int /\ temp \in Int
        OBVIOUS
      <4> QED  BY <4>1, <3>4, LessThanATurn
    <3>6. UnclaimedIntact'
      <4> HIDE DEF slot
      <4> QED  BY <3>2, <3>3, <3>5 DEF UnclaimedIntact
    <3>7. Contents'
      BY <3>2, <3>3 DEF Contents, NoItem
    <3> QED  BY <3>6, <3>7
  <2>3. CASE PushAdvance(t)
    <3>1. v[temp % Cap] = temp
      BY <2>3, ThreadsAssumption DEF PushAdvance, Goto, Mutexes, Indices
    <3>2. v' = v /\ temp' = temp + 1 /\ taken' = taken
      BY <2>3 DEF PushAdvance, popVars
    <3>3. UnclaimedIntact'
      BY <3>1, <3>2, SMTT(30) DEF UnclaimedIntact
    <3>4. Contents'
      BY <3>2 DEF Contents
    <3> QED  BY <3>3, <3>4
  <2> QED  BY <1>1, <2>1, <2>2, <2>3 DEF CThread
<1>2. ASSUME NEW t \in Poppers, PThread(t) PROVE UnclaimedIntact' /\ Contents'
  <2>1. CASE PopRefer(t)
    <3>1. taken < temp
      BY <2>1, Counts DEF PopRefer, Goto
    <3>2. v' = v /\ temp' = temp /\ taken' = taken + 1
      BY <2>1 DEF PopRefer, pushVars
    <3> QED  BY <3>1, <3>2 DEF UnclaimedIntact, Contents
  <2>2. CASE ~PopRefer(t)
    <3>1. v' = v /\ temp' = temp /\ taken' = taken
      BY <1>2, <2>2 DEF PThread, PopWait, PopAdvance, PopPost, PopCopy, popVars, pushVars
    <3> QED  BY <3>1 DEF UnclaimedIntact, Contents
  <2> QED  BY <2>1, <2>2
<1> QED  BY <1>1, <1>2 DEF Next

(* What a popper refers to is overwritten only by later items.             *)
LEMMA ReturnsStep ==
  ASSUME IInv, Next
  PROVE  References' /\ ReturnsClaimOrLater'
<1> USE SizesAssumption, ThreadsAssumption DEF IInv, SlotsAccounted, TypeOK
<1>1. ASSUME NEW t \in Pushers, CThread(t) PROVE References' /\ ReturnsClaimOrLater'
  <2>1. /\ UNCHANGED <<ref, got, claim, taken>> /\ temp' \in Nat /\ temp <= temp'
        /\ \A u \in Poppers : pc'[u] = pc[u]
    BY <1>1 DEF CThread, PushWait, PushStore, PushAdvance, PushPost, popVars, pushVars,
                Goto, Threads
  <2>2. \A i \in Slots : v'[i] = v[i] \/ v'[i] = temp
    BY <1>1 DEF CThread, PushWait, PushStore, PushAdvance, PushPost
  <2>3. References'
    <3>1. taken <= temp
      BY DEF UnclaimedIntact
    <3> QED  BY <2>1, <2>2, <3>1 DEF References
  <2>4. ReturnsClaimOrLater'
    BY <2>1 DEF ReturnsClaimOrLater, References
  <2> QED  BY <2>3, <2>4
<1>2. ASSUME NEW t \in Poppers, PThread(t) PROVE References' /\ ReturnsClaimOrLater'
  <2>1. CASE PopRefer(t)
    <3>1. v[taken % Cap] = taken
      BY <2>1, Counts DEF PopRefer, Goto, UnclaimedIntact
    <3>2. productor_index = taken % Cap
      BY <2>1 DEF PopRefer, Indices
    <3>3. References'
      BY <2>1, <3>1, <3>2 DEF PopRefer, Goto, pushVars, References, Threads, NoItem
    <3>4. ReturnsClaimOrLater'
      BY <2>1 DEF PopRefer, Goto, pushVars, ReturnsClaimOrLater, Threads
    <3> QED  BY <3>3, <3>4
  <2>2. CASE PopCopy(t)
    <3> DEFINE slot == ref[t]
    <3>1. /\ claim[t] \in 0 .. taken - 1 /\ slot \in Slots
          /\ slot = claim[t] % Cap /\ v[slot] >= claim[t]
      BY <2>2 DEF PopCopy, Goto, References
    <3>2. v[slot] \in claim[t] .. temp /\ v[slot] % Cap = claim[t] % Cap
      BY <3>1 DEF Contents, NoItem
    <3>3. (v[slot] - claim[t]) % Cap = 0
      BY <3>1, <3>2, WholeTurns
    <3>4. got' = [got EXCEPT ![t] = v[slot]] /\ UNCHANGED <<v, ref, claim, taken, temp>>
      BY <2>2 DEF PopCopy, pushVars
    <3>5. pc' = [pc EXCEPT ![t] = "outside"]
      BY <2>2 DEF PopCopy, Goto
    <3> HIDE DEF slot
    <3>6. References'
      BY <3>4, <3>5 DEF References, Threads
    <3>7. ReturnsClaimOrLater'
      BY <3>2, <3>3, <3>4, <3>5 DEF ReturnsClaimOrLater, Threads
    <3> QED  BY <3>6, <3>7
  <2>3. CASE PopWait(t) \/ PopAdvance(t) \/ PopPost(t)
    <3>1. UNCHANGED <<v, ref, got, claim, taken, temp>>
      BY <2>3 DEF PopWait, PopAdvance, PopPost, popVars, pushVars
    <3>2. \A u \in Poppers :
            /\ pc'[u] = "outside" => pc[u] = "outside"
            /\ pc'[u] \in {"advance", "post", "copy"} => pc[u] \in {"advance", "post", "copy"}
      BY <2>3 DEF PopWait, PopAdvance, PopPost, Goto, Threads
    <3> QED  BY <3>1, <3>2 DEF References, ReturnsClaimOrLater
  <2> QED  BY <1>2, <2>1, <2>2, <2>3 DEF PThread
<1> QED  BY <1>1, <1>2 DEF Next

(* A step that changes nothing breaks nothing.                             *)
LEMMA Stutter == IInv /\ UNCHANGED vars => IInv'
BY DEF IInv, SlotsAccounted, TypeOK, UnclaimedIntact, ReturnsClaimOrLater, Mutexes, Indices,
       UnclaimedCounted, Contents, References, At, vars

(* The inductive invariant holds in every reachable state.                 *)
LEMMA Invariance == Spec => []IInv
<1>1. IInv /\ [Next]_vars => IInv'
  BY CountsStep, TypeStep, MutexesStep, IndicesStep, IntactStep, ReturnsStep, Stutter
  DEF IInv, SlotsAccounted
<1> QED  BY InitIInv, <1>1, PTL DEF Spec
-----------------------------------------------------------------------------
(* The semaphores account for every slot: _room and _data never exceed     *)
(* _cap, and the indices never leave _v.                                   *)
THEOREM SlotsAreAccounted == Spec => []SlotsAccounted
<1>1. IInv => SlotsAccounted
  BY DEF IInv
<1> QED  BY Invariance, <1>1, PTL

(* push never overwrites an item nobody has claimed, and pop never refers  *)
(* to a slot before it is written, however many threads there are on each  *)
(* side and however late they post.                                        *)
THEOREM UnclaimedStaysIntact == Spec => []UnclaimedIntact
<1>1. IInv => UnclaimedIntact
  BY DEF IInv
<1> QED  BY Invariance, <1>1, PTL

(* pop's late copy returns the claimed item or one pushed whole turns      *)
(* later, in spite of the sem_post(&_room) before it.                      *)
THEOREM ReturnsClaimOrWholeTurnsLater == Spec => []ReturnsClaimOrLater
<1>1. IInv => ReturnsClaimOrLater
  BY DEF IInv
<1> QED  BY Invariance, <1>1, PTL
=============================================================================
