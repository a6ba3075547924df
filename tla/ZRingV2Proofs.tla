---------------------------- MODULE ZRingV2Proofs ----------------------------
(***************************************************************************)
(* Proofs about ZRingV2 for every capacity, counter width and set of       *)
(* ticks: push() and pop() never meet in a slot, and the ring with its     *)
(* reset() implements the FIFO that can be emptied.                        *)
(***************************************************************************)
EXTENDS ZRingV2, DataLemmas

(***************************************************************************)
(* The arithmetic of the counters and slots, from DataLemmas.          *)
(***************************************************************************)

LEMMA Sizes ==
  /\ IsRing(Capacity, CounterMod)
  /\ Capacity \in Nat \ {0} /\ CounterMod \in Nat \ {0}
  /\ Counter = Counters(CounterMod)
  BY RingV2Assumption DEF IsRing, Counters, Counter

LEMMA Translation ==
  ASSUME NEW a, NEW b
  PROVE  /\ Dist(a, b) = Behind(CounterMod, a, b)
         /\ Inc(a) = Succ(CounterMod, a)
         /\ Slot(a) = a % Capacity
  BY DEF Dist, Inc, Slot, Behind, Succ

LEMMA DistZero ==
  ASSUME NEW a \in Counter, NEW b \in Counter
  PROVE  /\ Dist(a, b) \in Nat
         /\ a # b => Dist(a, b) > 0
         /\ a = b => Dist(a, b) = 0
  BY BehindZero, Sizes, Translation

\* The leading counter moves away, the trailing one closes in.
LEMMA DistIncLeft ==
  ASSUME NEW a \in Counter, NEW b \in Counter, Dist(a, b) < Capacity
  PROVE  Dist(Inc(a), b) = Dist(a, b) + 1
  BY BehindSuccLeft, Sizes, Translation

LEMMA DistIncRight ==
  ASSUME NEW a \in Counter, NEW b \in Counter, a # b
  PROVE  Dist(a, Inc(b)) = Dist(a, b) - 1
  BY BehindSuccRight, Sizes, Translation

LEMMA IncCounter ==
  ASSUME NEW c \in Counter
  PROVE  Inc(c) \in Counter
  BY SuccValue, Sizes, Translation

LEMMA SlotOfCounter ==
  ASSUME NEW c \in Counter
  PROVE  Slot(c) \in 0 .. Capacity - 1
<1>1. c \in Nat
  BY DEF Counter
<1> QED
  BY <1>1, SlotRange, Sizes, Translation

\* The slots at head and at tail differ while the ring is neither empty nor full.
LEMMA SlotsDiffer ==
  ASSUME NEW h \in Counter, NEW t \in Counter, 0 < Dist(h, t), Dist(h, t) < Capacity
  PROVE  Slot(h) # Slot(t)
  BY SlotsApart, Sizes, Translation
-----------------------------------------------------------------------------
(***************************************************************************)
(* Type correctness.                                                       *)
(***************************************************************************)

LEMMA TypeInit == Init => TypeOK
  BY Sizes DEF Init, TypeOK, Counter, Bools

LEMMA TypeStep == TypeOK /\ [Next]_vars => TypeOK'
<1> SUFFICES ASSUME TypeOK, [Next]_vars PROVE TypeOK'
  OBVIOUS
<1> USE DEF TypeOK, Bools, prodVars, consVars
<1>1. ASSUME NEW v \in Values, PushEnter(v) PROVE TypeOK'
  BY <1>1 DEF PushEnter
<1>2. CASE PushLoadTail
  BY <1>2 DEF PushLoadTail
<1>3. CASE PushWrite
  BY <1>3 DEF PushWrite
<1>4. CASE PushPublish
  BY <1>4, IncCounter DEF PushPublish
<1>5. CASE PopEnter
  BY <1>5 DEF PopEnter
<1>6. CASE PopLoadHead
  BY <1>6 DEF PopLoadHead
<1>7. CASE PopRead
  <2>1. Slot(tail) \in 0 .. Capacity - 1
    BY SlotOfCounter
  <2> QED
    BY <1>7, <2>1 DEF PopRead
<1>8. CASE PopAdvance
  BY <1>8, IncCounter DEF PopAdvance
<1>9. CASE Reset
  BY <1>9, Sizes DEF Reset, Counter
<1>10. CASE UNCHANGED vars
  BY <1>10 DEF vars
<1> QED
  BY <1>1, <1>2, <1>3, <1>4, <1>5, <1>6, <1>7, <1>8, <1>9, <1>10 DEF Next
-----------------------------------------------------------------------------
(***************************************************************************)
(* The invariant.  A test holds until the thread that made it moves its    *)
(* own index: the other thread's moves only make more room, or add a tick. *)
(***************************************************************************)

LEMMA InvInit == Init => RingInv
<1> SUFFICES ASSUME Init PROVE RingInv
  OBVIOUS
<1>1. TypeOK
  BY TypeInit
<1>2. Depth = 0
  BY <1>1, DistZero DEF Init, TypeOK, Depth
<1> QED
  BY <1>1, <1>2, Sizes DEF Init, RingInv, ProducerInv, ConsumerInv

LEMMA DepthNat ==
  ASSUME TypeOK
  PROVE  Depth \in Nat /\ Capacity \in Nat /\ ((Depth = 0) <=> (head = tail))
  BY DistZero, Sizes DEF TypeOK, Depth

LEMMA InvNext == RingInv /\ [Next]_vars => RingInv'
<1> SUFFICES ASSUME RingInv, [Next]_vars PROVE RingInv'
  OBVIOUS
<1> USE DEF RingInv
<1>t. TypeOK'
  BY TypeStep
<1>n. Depth \in Nat /\ Capacity \in Nat
  BY DepthNat
<1>1. ASSUME NEW v \in Values, PushEnter(v) PROVE RingInv'
  BY <1>1, <1>t DEF PushEnter, consVars, ProducerInv, ConsumerInv, Depth
<1>2. CASE PushLoadTail
  <2>1. UNCHANGED <<buffer, head, pushArg, consVars>> /\ prodPc = "load" /\ prodPc' # "publish"
    BY <1>2 DEF PushLoadTail
  <2>2. Depth' = Depth
    BY <2>1 DEF consVars, Depth
  <2>3. prodPc' = "write" => Depth < Capacity
    <3>1. prodPc' = "write" => ~(Depth >= Capacity)
      BY <1>2 DEF PushLoadTail, Depth
    <3> QED
      BY <3>1, <1>n
  <2>4. ConsumerInv'
    BY <2>1 DEF consVars, ConsumerInv
  <2>5. ProducerInv'
    BY <2>1, <2>2, <2>3 DEF ProducerInv
  <2> QED
    BY <1>t, <2>2, <2>4, <2>5
<1>3. CASE PushWrite
  <2>1. head' = head /\ tail' = tail /\ pushArg' = pushArg /\ consPc' = consPc /\ value' = value
        /\ prodPc = "write" /\ prodPc' = "publish"
        /\ buffer' = [buffer EXCEPT ![Slot(head)] = pushArg]
    BY <1>3 DEF PushWrite, consVars
  <2>2. Depth' = Depth
    BY <2>1 DEF Depth
  <2>3. Slot(head) \in 0 .. Capacity - 1 /\ Slot(tail) \in 0 .. Capacity - 1
    BY SlotOfCounter DEF TypeOK
  <2>4. ProducerInv'
    BY <2>1, <2>2, <2>3 DEF ProducerInv, TypeOK
  <2>5. consPc = "advance" => Slot(head) # Slot(tail)
    <3>1. consPc = "advance" => 0 < Dist(head, tail) /\ Dist(head, tail) < Capacity
      BY <2>1, DepthNat DEF ProducerInv, ConsumerInv, Depth
    <3> QED
      BY <3>1, SlotsDiffer DEF TypeOK
  <2>6. ConsumerInv'
    BY <2>1, <2>3, <2>5 DEF ConsumerInv, TypeOK
  <2> QED
    BY <1>t, <2>2, <2>4, <2>6
<1>4. CASE PushPublish
  <2>1. /\ UNCHANGED <<buffer, consVars, pushArg>>
        /\ prodPc = "publish" /\ prodPc' = "idle" /\ head' = Inc(head)
    BY <1>4 DEF PushPublish
  <2>2. Depth < Capacity /\ pushArg \in Values
    BY <2>1 DEF ProducerInv
  <2>3. Depth' = Depth + 1
    BY <2>1, <2>2, DistIncLeft DEF TypeOK, Depth, consVars
  <2>4. head' # tail'
    <3>1. head' \in Counter /\ tail' \in Counter /\ Dist(head', tail') = Depth'
      BY <1>t DEF TypeOK, Depth
    <3> QED
      BY <1>n, <2>3, <3>1, DistZero
  <2>5. ProducerInv' /\ ConsumerInv'
    BY <2>1, <2>2, <2>4 DEF ProducerInv, ConsumerInv, consVars
  <2> QED
    BY <1>n, <1>t, <2>2, <2>3, <2>5
<1>5. CASE PopEnter
  BY <1>5, <1>t DEF PopEnter, prodVars, ProducerInv, ConsumerInv, Depth
<1>6. CASE PopLoadHead
  BY <1>6, <1>t DEF PopLoadHead, prodVars, ProducerInv, ConsumerInv, Depth
<1>7. CASE PopRead
  BY <1>7, <1>t DEF PopRead, prodVars, ProducerInv, ConsumerInv, Depth
<1>8. CASE PopAdvance
  <2>1. /\ UNCHANGED <<buffer, prodVars>>
        /\ consPc = "advance" /\ consPc' = "idle" /\ tail' = Inc(tail)
    BY <1>8 DEF PopAdvance
  <2>2. head # tail
    BY <2>1 DEF ConsumerInv
  <2>3. Depth' = Depth - 1
    BY <2>1, <2>2, DistIncRight DEF TypeOK, Depth, prodVars
  <2>4. Depth' <= Capacity /\ (Depth < Capacity => Depth' < Capacity)
    BY <1>n, <2>3
  <2>5. ProducerInv' /\ ConsumerInv'
    BY <2>1, <2>4 DEF ProducerInv, ConsumerInv, prodVars
  <2> QED
    BY <1>t, <2>4, <2>5
<1>9. CASE Reset
  <2>1. head' = tail' /\ head' \in Counter /\ tail' \in Counter
        /\ prodPc' = "idle" /\ consPc' = "idle"
    BY <1>9, <1>t DEF Reset, TypeOK
  <2>2. Depth' = 0
    BY <2>1, DistZero DEF Depth
  <2> QED
    BY <1>n, <1>t, <2>1, <2>2 DEF ProducerInv, ConsumerInv
<1>10. CASE UNCHANGED vars
  BY <1>10, <1>t DEF vars, prodVars, consVars, ProducerInv, ConsumerInv, Depth
<1> QED
  BY <1>1, <1>2, <1>3, <1>4, <1>5, <1>6, <1>7, <1>8, <1>9, <1>10 DEF Next

\* Every variable keeps its type and the inductive invariant holds.
THEOREM Invariance == Spec => []RingInv
  BY InvInit, InvNext, PTL DEF Spec

\* The copy into a slot and the copy out of a slot never overlap, also with
\* resets between the operations.
THEOREM RaceFree == Spec => []NoSlotRace
<1>1. RingInv => NoSlotRace
  <2> SUFFICES ASSUME RingInv, prodPc = "write", consPc = "read"
               PROVE  Slot(head) # Slot(tail)
    BY DEF NoSlotRace
  <2>1. head \in Counter /\ tail \in Counter
    BY DEF RingInv, TypeOK
  <2>2. 0 < Dist(head, tail) /\ Dist(head, tail) < Capacity
    BY <2>1, DepthNat DEF RingInv, ProducerInv, ConsumerInv, Depth
  <2> QED
    BY <2>1, <2>2, SlotsDiffer
<1> QED
  BY <1>1, Invariance, PTL
-----------------------------------------------------------------------------
(***************************************************************************)
(* The ring implements the bounded FIFO that can be emptied.               *)
(***************************************************************************)

Slots == Values \cup {NoTick}

LEMMA QueueContents == Queue = Contents(buffer, Capacity, tail, Behind(CounterMod, head, tail))
  BY DEF Queue, Contents, Depth, Dist, Slot, Behind

LEMMA NextQueueContents ==
  Queue' = Contents(buffer', Capacity, tail', Behind(CounterMod, head', tail'))
  BY DEF Queue, Contents, Depth, Dist, Slot, Behind

LEMMA RingTypes ==
  ASSUME TypeOK
  PROVE  /\ IsBuffer(buffer, Capacity, Slots)
         /\ head \in Counters(CounterMod) /\ tail \in Counters(CounterMod)
         /\ tail \in Nat
  BY Sizes DEF TypeOK, Slots, IsBuffer, Counters

\* The mapped queue is a sequence, as long as the ring is deep.
LEMMA QueueIsSeq ==
  ASSUME TypeOK
  PROVE  /\ Queue \in Seq(Slots)
         /\ Len(Queue) = Depth /\ Depth \in Nat
<1>1. Depth \in Nat /\ Depth = Behind(CounterMod, head, tail)
  BY DistZero DEF TypeOK, Depth, Dist, Behind
<1> QED
  BY <1>1, RingTypes, ContentsIsSeq, QueueContents

LEMMA WriteKeepsQueue ==
  ASSUME RingInv, PushWrite
  PROVE  Queue' = Queue
<1>1. Behind(CounterMod, head, tail) < Capacity
  BY Translation DEF RingInv, ProducerInv, PushWrite, Depth
<1>2. /\ buffer' = [buffer EXCEPT ![head % Capacity] = pushArg]
      /\ head' = head /\ tail' = tail
  BY DEF PushWrite, consVars, Slot
<1>3. \A i \in 0 .. Capacity - 1 : i # head % Capacity => buffer'[i] = buffer[i]
  BY <1>2 DEF RingInv, TypeOK
<1>4. /\ IsBuffer(buffer, Capacity, Slots)
      /\ head \in Counters(CounterMod) /\ tail \in Counters(CounterMod)
  BY RingTypes DEF RingInv
<1>5. Contents(buffer', Capacity, tail, Behind(CounterMod, head, tail))
        = Contents(buffer, Capacity, tail, Behind(CounterMod, head, tail))
  BY <1>1, <1>3, <1>4, Sizes, WriteKeepsContents
<1> QED
  BY <1>2, <1>5, QueueContents, NextQueueContents

LEMMA PublishAppends ==
  ASSUME RingInv, PushPublish
  PROVE  Len(Queue) < Capacity /\ Queue' = Append(Queue, pushArg)
<1>1. TypeOK
  BY DEF RingInv
<1>2. Depth < Capacity /\ Behind(CounterMod, head, tail) < Capacity
  BY Translation DEF RingInv, ProducerInv, PushPublish, Depth
<1>3. head' = Succ(CounterMod, head) /\ tail' = tail /\ buffer' = buffer
  BY Translation DEF PushPublish, consVars
<1>4. buffer[head % Capacity] = pushArg
  BY DEF RingInv, ProducerInv, PushPublish, Slot
<1>5. Queue' = Append(Queue, pushArg)
  BY <1>1, <1>2, <1>3, <1>4, RingTypes, Sizes, SuccAppends, QueueContents, NextQueueContents
<1> QED
  BY <1>1, <1>2, <1>5, QueueIsSeq

LEMMA AdvanceTakesHead ==
  ASSUME RingInv, PopAdvance
  PROVE  /\ Queue # <<>>
         /\ value = Head(Queue)
         /\ Queue' = Tail(Queue)
<1>1. TypeOK
  BY DEF RingInv
<1>2. head # tail
  BY DEF RingInv, ConsumerInv, PopAdvance
<1>3. head' = head /\ tail' = Succ(CounterMod, tail) /\ buffer' = buffer
  BY Translation DEF PopAdvance, prodVars
<1>4. value = buffer[tail % Capacity]
  BY DEF RingInv, ConsumerInv, PopAdvance, Slot
<1> QED
  BY <1>1, <1>2, <1>3, <1>4, RingTypes, Sizes, SuccTakesHead, QueueContents, NextQueueContents

LEMMA QueueStays == UNCHANGED <<buffer, head, tail>> => Queue' = Queue
  BY DEF Queue, Depth

LEMMA AbstractInit == Init => Abstract!Init
<1> SUFFICES ASSUME Init PROVE Abstract!Init
  OBVIOUS
<1>1. Queue = <<>>
  <2>1. TypeOK
    BY TypeInit
  <2>2. Depth = 0
    BY <2>1, DepthNat DEF Init
  <2>3. Queue \in Seq(Slots) /\ Len(Queue) = 0
    BY <2>1, <2>2, QueueIsSeq
  <2> QED
    BY <2>3, EmptySeq
<1> QED
  BY <1>1 DEF Init, Abstract!Init

\* A reset leaves an empty queue.
LEMMA ResetEmpties ==
  ASSUME TypeOK', Reset
  PROVE  Queue' = <<>>
<1>1. head' \in Counters(CounterMod) /\ tail' \in Counters(CounterMod) /\ head' = tail'
  BY Sizes DEF TypeOK, Reset
<1>2. Behind(CounterMod, head', tail') = 0
  BY <1>1, BehindZero, Sizes
<1>3. IsBuffer(buffer', Capacity, Slots) /\ tail' \in Nat
  BY <1>1, Sizes DEF TypeOK, Slots, IsBuffer, Counters
<1>4. Queue' \in Seq(Slots) /\ Len(Queue') = 0
  BY <1>2, <1>3, ContentsIsSeq, NextQueueContents
<1> QED
  BY <1>4, EmptySeq

\* Every step of the ring is a call, a return, the emptying or a stutter of
\* the FIFO.
LEMMA AbstractStep ==
  RingInv /\ RingInv' /\ [Next]_vars => [Abstract!Next \/ Abstract!Clear]_(Abstract!vars)
<1> SUFFICES ASSUME RingInv, RingInv', [Next]_vars
             PROVE  [Abstract!Next \/ Abstract!Clear]_(Abstract!vars)
  OBVIOUS
<1> USE DEF Abstract!Next, Abstract!vars
<1>0. TypeOK /\ TypeOK' /\ pushRet # "pending" /\ popRet # "pending"
  BY DEF RingInv, TypeOK, Bools
<1>d. /\ Depth \in Nat /\ Depth <= Capacity
      /\ Len(Queue) = Depth /\ Queue \in Seq(Slots)
      /\ (Depth = 0) <=> (head = tail)
  BY <1>0, DepthNat, QueueIsSeq DEF RingInv
<1>1. ASSUME NEW v \in Values, PushEnter(v) PROVE Abstract!PushCall(v)
  BY <1>0, <1>1, QueueStays DEF PushEnter, consVars, Abstract!PushCall
<1>2. CASE PushLoadTail
  <2>1. CASE Dist(head, tail) >= Capacity
    <3>1. Len(Queue) = Capacity
      BY <1>d, <2>1, Sizes DEF Depth
    <3> QED
      BY <1>2, <2>1, <3>1, QueueStays DEF PushLoadTail, consVars, Abstract!PushFull
  <2>2. CASE ~(Dist(head, tail) >= Capacity)
    BY <1>2, <2>2, QueueStays DEF PushLoadTail, consVars
  <2> QED
    BY <2>1, <2>2
<1>3. CASE PushWrite
  BY <1>3, WriteKeepsQueue DEF PushWrite, consVars
<1>4. CASE PushPublish
  BY <1>4, PublishAppends DEF PushPublish, consVars, Abstract!PushOk
<1>5. CASE PopEnter
  BY <1>0, <1>5, QueueStays DEF PopEnter, prodVars, Abstract!PopCall
<1>6. CASE PopLoadHead
  <2>1. CASE tail = head
    <3>1. Queue = <<>>
      BY <1>d, <2>1, EmptySeq
    <3> QED
      BY <1>0, <1>6, <2>1, <3>1, QueueStays DEF PopLoadHead, prodVars, Abstract!PopEmpty
  <2>2. CASE tail # head
    BY <1>6, <2>2, QueueStays DEF PopLoadHead, prodVars
  <2> QED
    BY <2>1, <2>2
<1>7. CASE PopRead
  BY <1>7, QueueStays DEF PopRead, prodVars
<1>8. CASE PopAdvance
  BY <1>8, AdvanceTakesHead DEF PopAdvance, prodVars, Abstract!PopOk
<1>9. CASE Reset
  BY <1>0, <1>9, ResetEmpties DEF Reset, Abstract!Clear
<1>10. CASE UNCHANGED vars
  BY <1>10, QueueStays DEF vars, prodVars, consVars
<1> QED
  BY <1>1, <1>2, <1>3, <1>4, <1>5, <1>6, <1>7, <1>8, <1>9, <1>10 DEF Next

\* The ring without cached indices is a bounded FIFO that reset() empties.
THEOREM Refinement == Spec => IsResettableFifo
  BY Invariance, AbstractInit, AbstractStep, PTL DEF Spec, IsResettableFifo, Abstract!ResettableSpec
=============================================================================
