---------------------------- MODULE ZRingProofs -----------------------------
(***************************************************************************)
(* Proofs about ZRing for every capacity, counter width and set of ticks:  *)
(* the invariants the runs check, and that the ring implements Fifo.       *)
(***************************************************************************)
EXTENDS ZRing, DataLemmas

(***************************************************************************)
(* The arithmetic of the counters and slots, from DataLemmas.          *)
(***************************************************************************)

LEMMA Sizes ==
  /\ IsRing(Capacity, CounterMod)
  /\ Capacity \in Nat \ {0} /\ CounterMod \in Nat \ {0}
  /\ Counter = Counters(CounterMod)
  BY RingAssumption DEF IsRing, Counters, Counter

LEMMA Translation ==
  ASSUME NEW a, NEW b
  PROVE  /\ Dist(a, b) = Behind(CounterMod, a, b)
         /\ Inc(a) = Succ(CounterMod, a)
         /\ Slot(a) = a % Capacity
  BY DEF Dist, Inc, Slot, Behind, Succ

LEMMA DistZero ==
  ASSUME NEW a \in Counter, NEW b \in Counter
  PROVE  /\ Dist(a, b) \in Nat
         /\ a # b => Dist(a, b) > 0
         /\ a = b => Dist(a, b) = 0
  BY BehindZero, Sizes, Translation

\* The leading counter moves away, the trailing one closes in.
LEMMA DistIncLeft ==
  ASSUME NEW a \in Counter, NEW b \in Counter, Dist(a, b) < Capacity
  PROVE  Dist(Inc(a), b) = Dist(a, b) + 1
  BY BehindSuccLeft, Sizes, Translation

LEMMA DistIncRight ==
  ASSUME NEW a \in Counter, NEW b \in Counter, a # b
  PROVE  Dist(a, Inc(b)) = Dist(a, b) - 1
  BY BehindSuccRight, Sizes, Translation

LEMMA IncCounter ==
  ASSUME NEW c \in Counter
  PROVE  Inc(c) \in Counter
  BY SuccValue, Sizes, Translation

LEMMA SlotOfCounter ==
  ASSUME NEW c \in Counter
  PROVE  Slot(c) \in 0 .. Capacity - 1
<1>1. c \in Nat
  BY DEF Counter
<1> QED
  BY <1>1, SlotRange, Sizes, Translation

\* The slots at head and at tail differ while the ring is neither empty nor full.
LEMMA SlotsDiffer ==
  ASSUME NEW h \in Counter, NEW t \in Counter, 0 < Dist(h, t), Dist(h, t) < Capacity
  PROVE  Slot(h) # Slot(t)
  BY SlotsApart, Sizes, Translation
-----------------------------------------------------------------------------
(***************************************************************************)
(* Type correctness.                                                       *)
(***************************************************************************)

LEMMA TypeInit == Init => TypeOK
  BY Sizes DEF Init, TypeOK, Counter, Bools

LEMMA TypeStep == TypeOK /\ [Next]_vars => TypeOK'
<1> SUFFICES ASSUME TypeOK, [Next]_vars PROVE TypeOK'
  OBVIOUS
<1> USE DEF TypeOK, Bools, prodVars, consVars
<1>1. ASSUME NEW v \in Values, PushEnter(v) PROVE TypeOK'
  BY <1>1 DEF PushEnter
<1>2. CASE PushRefresh
  BY <1>2 DEF PushRefresh
<1>3. CASE PushWrite
  BY <1>3 DEF PushWrite
<1>4. CASE PushPublish
  BY <1>4, IncCounter DEF PushPublish
<1>5. CASE PopEnter
  BY <1>5 DEF PopEnter
<1>6. CASE PopRefresh
  BY <1>6 DEF PopRefresh
<1>7. CASE PopRead
  <2>1. Slot(tail) \in 0 .. Capacity - 1
    BY SlotOfCounter
  <2> QED
    BY <1>7, <2>1 DEF PopRead
<1>8. CASE PopAdvance
  BY <1>8, IncCounter DEF PopAdvance
<1>9. CASE EmptyLoadHead
  BY <1>9 DEF EmptyLoadHead
<1>10. CASE EmptyLoadTail
  BY <1>10 DEF EmptyLoadTail
<1>11. CASE UNCHANGED vars
  BY <1>11 DEF vars
<1> QED
  BY <1>1, <1>2, <1>3, <1>4, <1>5, <1>6, <1>7, <1>8, <1>9, <1>10, <1>11
     DEF Next, ProducerStep, ConsumerStep

\* Every variable keeps its type, the counters their width.
THEOREM TypeCorrect == Spec => []TypeOK
  BY TypeInit, TypeStep, PTL DEF Spec
-----------------------------------------------------------------------------
(***************************************************************************)
(* The invariant.  It is inductive because each conjunct about one         *)
(* thread's window survives the other thread's only move on the indices:   *)
(* head advances only past a test that leaves Dist(head, cached_tail)      *)
(* below Capacity, tail only while cached_head shows a tick behind it.     *)
(***************************************************************************)

LEMMA InvInit == Init => RingInv
<1> SUFFICES ASSUME Init PROVE RingInv
  OBVIOUS
<1>1. TypeOK
  BY TypeInit
<1>2. 0 \in Counter
  BY Sizes DEF Counter
<1>3. Dist(0, 0) = 0
  BY <1>2, DistZero
<1> QED
  BY <1>1, <1>3, Sizes
     DEF Init, RingInv, CachesInWindow, NonEmptyIsStable, ProducerInv, ConsumerInv, Depth

\* Past its fullness tests the producer has a free slot ...
LEMMA WriterHasRoom ==
  ASSUME RingInv, prodPc \in {"write", "publish"}
  PROVE  Depth \in Nat /\ Depth < Capacity
<1>1. head \in Counter /\ tail \in Counter /\ cached_tail \in Counter
  BY DEF RingInv, TypeOK
<1>2. Depth \in Nat /\ Dist(head, cached_tail) \in Nat
  BY <1>1, DistZero DEF Depth
<1>3. Depth <= Dist(head, cached_tail) /\ Dist(head, cached_tail) < Capacity
  BY <1>2, Sizes DEF RingInv, CachesInWindow, ProducerInv
<1> QED
  BY <1>2, <1>3, Sizes

\* ... and past its emptiness tests the consumer has a tick.
LEMMA ReaderHasTick ==
  ASSUME RingInv, consPc \in {"read", "advance"}
  PROVE  /\ Depth \in Nat /\ 0 < Depth
         /\ head # tail
<1>1. head \in Counter /\ tail \in Counter /\ cached_head \in Counter
  BY DEF RingInv, TypeOK
<1>2. /\ Depth \in Nat /\ Dist(cached_head, tail) \in Nat
      /\ cached_head # tail => Dist(cached_head, tail) > 0
      /\ head = tail => Depth = 0
  BY <1>1, DistZero DEF Depth
<1>3. Dist(cached_head, tail) <= Depth /\ cached_head # tail
  BY DEF RingInv, CachesInWindow, ConsumerInv
<1> QED
  BY <1>2, <1>3

LEMMA InvNext == RingInv /\ [Next]_vars => RingInv'
<1> SUFFICES ASSUME RingInv, [Next]_vars PROVE RingInv'
  OBVIOUS
<1> USE DEF RingInv, TypeOK
<1>t. TypeOK'
  BY TypeStep
<1>1. ASSUME NEW v \in Values, PushEnter(v) PROVE RingInv'
  <2> USE <1>1 DEF PushEnter, consVars
  <2>1. CachesInWindow' /\ NonEmptyIsStable' /\ ConsumerInv'
    BY DEF CachesInWindow, NonEmptyIsStable, ConsumerInv, Depth
  <2>2. ProducerInv'
    <3>1. Dist(head, cached_tail) \in Nat /\ Capacity \in Nat
      BY DistZero, Sizes
    <3>2. /\ pushArg' \in Values /\ prodPc' # "publish"
          /\ prodPc' = "write" => ~(Dist(head, cached_tail) >= Capacity)
          /\ head' = head /\ cached_tail' = cached_tail
      OBVIOUS
    <3> QED
      BY <3>1, <3>2 DEF ProducerInv
  <2> QED
    BY <1>t, <2>1, <2>2
<1>2. CASE PushRefresh
  <2> USE <1>2 DEF PushRefresh, consVars
  <2>0. Depth \in Nat /\ Depth <= Capacity
    BY DistZero DEF CachesInWindow, Depth
  <2>a. Depth' = Depth /\ Dist(head', cached_tail') = Depth
    BY DEF Depth
  <2>1. CachesInWindow'
    BY <2>0, <2>a, Sizes DEF CachesInWindow
  <2>2. NonEmptyIsStable' /\ ConsumerInv'
    BY DEF NonEmptyIsStable, ConsumerInv, Depth
  <2>3. ProducerInv'
    BY <2>0, <2>a, Sizes DEF ProducerInv, Depth
  <2> QED
    BY <1>t, <2>1, <2>2, <2>3
<1>3. CASE PushWrite
  <2> USE <1>3 DEF PushWrite, consVars
  <2>1. CachesInWindow' /\ NonEmptyIsStable'
    BY DEF CachesInWindow, NonEmptyIsStable, Depth
  <2>2. ProducerInv'
    <3>1. Slot(head) \in 0 .. Capacity - 1
      BY SlotOfCounter
    <3> QED
      BY <3>1 DEF ProducerInv
  <2>3. ConsumerInv'
    <3>1. consPc = "advance" => 0 < Dist(head, tail) /\ Dist(head, tail) < Capacity
      BY WriterHasRoom, ReaderHasTick DEF Depth
    <3>2. consPc = "advance" => Slot(head) # Slot(tail)
      BY <3>1, SlotsDiffer
    <3>3. Slot(tail) \in 0 .. Capacity - 1
      BY SlotOfCounter
    <3> QED
      BY <3>2, <3>3 DEF ConsumerInv, Depth
  <2> QED
    BY <1>t, <2>1, <2>2, <2>3
<1>4. CASE PushPublish
  <2> USE <1>4 DEF PushPublish, consVars
  <2>0. /\ Depth \in Nat /\ Dist(head, cached_tail) \in Nat
        /\ Dist(cached_head, tail) \in Nat /\ Dist(seenHead, tail) \in Nat
        /\ Dist(head, cached_tail) < Capacity /\ Depth < Capacity
    BY DistZero, WriterHasRoom DEF ProducerInv, Depth
  <2>1. /\ Dist(head', cached_tail') = Dist(head, cached_tail) + 1
        /\ Depth' = Depth + 1
    BY <2>0, DistIncLeft DEF Depth
  <2>2. CachesInWindow'
    BY <2>0, <2>1, Sizes DEF CachesInWindow
  <2>3. NonEmptyIsStable' /\ ConsumerInv'
    BY <2>0, <2>1 DEF NonEmptyIsStable, ConsumerInv
  <2>4. ProducerInv'
    BY DEF ProducerInv
  <2> QED
    BY <1>t, <2>2, <2>3, <2>4
<1>5. CASE PopEnter
  BY <1>5, <1>t DEF PopEnter, prodVars,
     CachesInWindow, NonEmptyIsStable, ProducerInv, ConsumerInv, Depth
<1>6. CASE PopRefresh
  <2> USE <1>6 DEF PopRefresh, prodVars
  <2>0. Depth \in Nat
    BY DistZero DEF Depth
  <2>1. CachesInWindow'
    BY <2>0, Sizes DEF CachesInWindow, Depth
  <2>2. NonEmptyIsStable' /\ ProducerInv' /\ ConsumerInv'
    BY DEF NonEmptyIsStable, ProducerInv, ConsumerInv, Depth
  <2> QED
    BY <1>t, <2>1, <2>2
<1>7. CASE PopRead
  BY <1>7, <1>t DEF PopRead, prodVars,
     CachesInWindow, NonEmptyIsStable, ProducerInv, ConsumerInv, Depth
<1>8. CASE PopAdvance
  <2> USE <1>8 DEF PopAdvance, prodVars
  <2>0. /\ Dist(cached_head, tail) \in Nat /\ Depth \in Nat
        /\ Dist(head, cached_tail) \in Nat
        /\ cached_head # tail /\ Dist(cached_head, tail) > 0
    BY DistZero DEF ConsumerInv, Depth
  <2>1. head # tail
    BY ReaderHasTick
  <2>a. Depth' = Depth - 1 /\ Dist(cached_head', tail') = Dist(cached_head, tail) - 1
    BY <2>0, <2>1, DistIncRight DEF Depth
  <2>2. CachesInWindow'
    BY <2>0, <2>a, Sizes DEF CachesInWindow
  <2>3. NonEmptyIsStable' /\ ProducerInv' /\ ConsumerInv'
    BY DEF NonEmptyIsStable, ProducerInv, ConsumerInv
  <2> QED
    BY <1>t, <2>2, <2>3
<1>9. CASE EmptyLoadHead
  <2> USE <1>9 DEF EmptyLoadHead, prodVars
  <2>1. Depth \in Nat
    BY DistZero DEF Depth
  <2> QED
    BY <1>t, <2>1 DEF CachesInWindow, NonEmptyIsStable, ProducerInv, ConsumerInv, Depth
<1>10. CASE EmptyLoadTail
  <2> USE <1>10 DEF EmptyLoadTail, prodVars
  <2>1. NonEmptyIsStable'
    BY DistZero DEF NonEmptyIsStable, ConsumerInv, Depth
  <2> QED
    BY <1>t, <2>1 DEF CachesInWindow, ProducerInv, ConsumerInv, Depth
<1>11. CASE UNCHANGED vars
  BY <1>11 DEF vars, prodVars, consVars,
     Bools, CachesInWindow, NonEmptyIsStable, ProducerInv, ConsumerInv, Depth
<1> QED
  BY <1>1, <1>2, <1>3, <1>4, <1>5, <1>6, <1>7, <1>8, <1>9, <1>10, <1>11
     DEF Next, ProducerStep, ConsumerStep

THEOREM Invariance == Spec => []RingInv
  BY InvInit, InvNext, PTL DEF Spec

\* The cached indices stay inside the window of the last Capacity ticks.
THEOREM CachesCorrect == Spec => []CachesInWindow
<1>1. RingInv => CachesInWindow
  BY DEF RingInv
<1> QED
  BY <1>1, Invariance, PTL

\* A ring that empty() reported non-empty stays so until the consumer pops.
THEOREM NonEmptyCorrect == Spec => []NonEmptyIsStable
<1>1. RingInv => NonEmptyIsStable
  BY DEF RingInv
<1> QED
  BY <1>1, Invariance, PTL

\* The producer and the consumer never access the same slot at once.
THEOREM RaceFree == Spec => []NoSlotRace
<1>1. RingInv => NoSlotRace
  <2> SUFFICES ASSUME RingInv, prodPc = "write", consPc = "read"
               PROVE  Slot(head) # Slot(tail)
    BY DEF NoSlotRace
  <2>1. 0 < Dist(head, tail) /\ Dist(head, tail) < Capacity
    BY WriterHasRoom, ReaderHasTick DEF Depth
  <2> QED
    BY <2>1, SlotsDiffer DEF RingInv, TypeOK
<1> QED
  BY <1>1, Invariance, PTL
-----------------------------------------------------------------------------
(***************************************************************************)
(* The ring implements the bounded FIFO.                                   *)
(***************************************************************************)

Slots == Values \cup {NoTick}

LEMMA QueueContents == Queue = Contents(buffer, Capacity, tail, Behind(CounterMod, head, tail))
  BY DEF Queue, Contents, Depth, Dist, Slot, Behind

LEMMA NextQueueContents ==
  Queue' = Contents(buffer', Capacity, tail', Behind(CounterMod, head', tail'))
  BY DEF Queue, Contents, Depth, Dist, Slot, Behind

LEMMA RingTypes ==
  ASSUME TypeOK
  PROVE  /\ IsBuffer(buffer, Capacity, Slots)
         /\ head \in Counters(CounterMod) /\ tail \in Counters(CounterMod)
         /\ tail \in Nat
  BY Sizes DEF TypeOK, Slots, IsBuffer, Counters

\* The mapped queue is a sequence, as long as the ring is deep.
LEMMA QueueIsSeq ==
  ASSUME TypeOK
  PROVE  /\ Queue \in Seq(Slots)
         /\ Len(Queue) = Depth /\ Depth \in Nat
<1>1. Depth \in Nat /\ Depth = Behind(CounterMod, head, tail)
  BY DistZero DEF TypeOK, Depth, Dist, Behind
<1> QED
  BY <1>1, RingTypes, ContentsIsSeq, QueueContents

LEMMA WriteKeepsQueue ==
  ASSUME RingInv, PushWrite
  PROVE  Queue' = Queue
<1>1. Behind(CounterMod, head, tail) < Capacity
  BY WriterHasRoom, Translation DEF PushWrite, Depth
<1>2. /\ buffer' = [buffer EXCEPT ![head % Capacity] = pushArg]
      /\ head' = head /\ tail' = tail
  BY DEF PushWrite, consVars, Slot
<1>3. \A i \in 0 .. Capacity - 1 : i # head % Capacity => buffer'[i] = buffer[i]
  BY <1>2 DEF RingInv, TypeOK
<1>4. /\ IsBuffer(buffer, Capacity, Slots)
      /\ head \in Counters(CounterMod) /\ tail \in Counters(CounterMod)
  BY RingTypes DEF RingInv
<1>5. Contents(buffer', Capacity, tail, Behind(CounterMod, head, tail))
        = Contents(buffer, Capacity, tail, Behind(CounterMod, head, tail))
  BY <1>1, <1>3, <1>4, Sizes, WriteKeepsContents
<1> QED
  BY <1>2, <1>5, QueueContents, NextQueueContents

LEMMA PublishAppends ==
  ASSUME RingInv, PushPublish
  PROVE  Len(Queue) < Capacity /\ Queue' = Append(Queue, pushArg)
<1>1. TypeOK
  BY DEF RingInv
<1>2. Depth < Capacity /\ Behind(CounterMod, head, tail) < Capacity
  BY WriterHasRoom, Translation DEF PushPublish, Depth
<1>3. head' = Succ(CounterMod, head) /\ tail' = tail /\ buffer' = buffer
  BY Translation DEF PushPublish, consVars
<1>4. buffer[head % Capacity] = pushArg
  BY DEF RingInv, ProducerInv, PushPublish, Slot
<1>5. Queue' = Append(Queue, pushArg)
  BY <1>1, <1>2, <1>3, <1>4, RingTypes, Sizes, SuccAppends, QueueContents, NextQueueContents
<1> QED
  BY <1>1, <1>2, <1>5, QueueIsSeq

LEMMA AdvanceTakesHead ==
  ASSUME RingInv, PopAdvance
  PROVE  /\ Queue # <<>>
         /\ value = Head(Queue)
         /\ Queue' = Tail(Queue)
<1>1. TypeOK
  BY DEF RingInv
<1>2. head # tail
  BY ReaderHasTick DEF PopAdvance
<1>3. head' = head /\ tail' = Succ(CounterMod, tail) /\ buffer' = buffer
  BY Translation DEF PopAdvance, prodVars
<1>4. value = buffer[tail % Capacity]
  BY DEF RingInv, ConsumerInv, PopAdvance, Slot
<1> QED
  BY <1>1, <1>2, <1>3, <1>4, RingTypes, Sizes, SuccTakesHead, QueueContents, NextQueueContents

\* While neither index nor slot moves, neither does the queue.
LEMMA QueueStays == UNCHANGED <<buffer, head, tail>> => Queue' = Queue
  BY DEF Queue, Depth

LEMMA AbstractInit == Init => Abstract!Init
<1> SUFFICES ASSUME Init PROVE Abstract!Init
  OBVIOUS
<1>1. Queue = <<>>
  <2>1. TypeOK
    BY TypeInit
  <2>2. Depth = 0
    BY <2>1, DistZero DEF Init, TypeOK, Depth
  <2>3. Queue \in Seq(Slots) /\ Len(Queue) = 0
    BY <2>1, <2>2, QueueIsSeq
  <2> QED
    BY <2>3, EmptySeq
<1> QED
  BY <1>1 DEF Init, Abstract!Init

\* Every step of the ring is a call, a return or a stutter of the FIFO: the
\* store of an index and the load that finds the ring full or empty return,
\* the first step of push() and pop() calls, the rest is invisible.
LEMMA AbstractStep == RingInv /\ RingInv' /\ [Next]_vars => [Abstract!Next]_(Abstract!vars)
<1> SUFFICES ASSUME RingInv, RingInv', [Next]_vars
             PROVE  [Abstract!Next]_(Abstract!vars)
  OBVIOUS
<1> USE DEF Abstract!Next, Abstract!vars
<1>0. TypeOK /\ pushRet # "pending" /\ popRet # "pending"
  BY DEF RingInv, TypeOK, Bools
<1>d. /\ Depth \in Nat /\ Depth <= Capacity
      /\ Len(Queue) = Depth /\ Queue \in Seq(Slots)
      /\ (Depth = 0) <=> (head = tail)
  <2>1. head \in Counter /\ tail \in Counter
    BY <1>0 DEF TypeOK
  <2>2. Depth \in Nat /\ ((Depth = 0) <=> (head = tail))
    BY <2>1, DistZero DEF Depth
  <2>3. Depth <= Capacity
    BY DEF RingInv, CachesInWindow
  <2>4. Len(Queue) = Depth /\ Queue \in Seq(Slots)
    BY <1>0, <2>3, QueueIsSeq DEF RingInv
  <2> QED
    BY <2>2, <2>3, <2>4
<1>1. ASSUME NEW v \in Values, PushEnter(v) PROVE Abstract!PushCall(v)
  BY <1>0, <1>1, QueueStays DEF PushEnter, consVars, Abstract!PushCall
<1>2. CASE PushRefresh
  <2>1. CASE Dist(head, tail) >= Capacity
    <3>1. Len(Queue) = Capacity
      BY <1>d, <2>1, Sizes DEF Depth
    <3> QED
      BY <1>2, <2>1, <3>1, QueueStays DEF PushRefresh, consVars, Abstract!PushFull
  <2>2. CASE ~(Dist(head, tail) >= Capacity)
    BY <1>2, <2>2, QueueStays DEF PushRefresh, consVars
  <2> QED
    BY <2>1, <2>2
<1>3. CASE PushWrite
  BY <1>3, WriteKeepsQueue DEF PushWrite, consVars
<1>4. CASE PushPublish
  BY <1>4, PublishAppends DEF PushPublish, consVars, Abstract!PushOk
<1>5. CASE PopEnter
  BY <1>0, <1>5, QueueStays DEF PopEnter, prodVars, Abstract!PopCall
<1>6. CASE PopRefresh
  <2>1. CASE tail = head
    <3>1. Queue = <<>>
      BY <1>d, <2>1, EmptySeq
    <3> QED
      BY <1>0, <1>6, <2>1, <3>1, QueueStays DEF PopRefresh, prodVars, Abstract!PopEmpty
  <2>2. CASE tail # head
    BY <1>6, <2>2, QueueStays DEF PopRefresh, prodVars
  <2> QED
    BY <2>1, <2>2
<1>7. CASE PopRead
  BY <1>7, QueueStays DEF PopRead, prodVars
<1>8. CASE PopAdvance
  BY <1>8, AdvanceTakesHead DEF PopAdvance, prodVars, Abstract!PopOk
<1>9. CASE EmptyLoadHead
  BY <1>9, QueueStays DEF EmptyLoadHead, prodVars
<1>10. CASE EmptyLoadTail
  BY <1>10, QueueStays DEF EmptyLoadTail, prodVars
<1>11. CASE UNCHANGED vars
  BY <1>11, QueueStays DEF vars, prodVars, consVars
<1> QED
  BY <1>1, <1>2, <1>3, <1>4, <1>5, <1>6, <1>7, <1>8, <1>9, <1>10, <1>11
     DEF Next, ProducerStep, ConsumerStep

\* The ring of cached indices, slots and wrapping counters is a bounded FIFO.
THEOREM Refinement == Spec => IsFifo
<1>1. Spec => []RingInv
  BY Invariance
<1> QED
  BY <1>1, AbstractInit, AbstractStep, PTL DEF Spec, IsFifo, Abstract!Spec
=============================================================================
