--------------------------- MODULE ZRingRAProofs ---------------------------
(***************************************************************************)
(* Theorems about ZRingRA, for every capacity, width of the counters and   *)
(* number of ticks: the release stores and acquire loads of push() and     *)
(* pop() are enough.                                                       *)
(***************************************************************************)
EXTENDS ZRingRA, DataLemmas

LEMMA Sizes == Capacity \in Nat \ {0} /\ MaxTicks \in Nat /\ CounterMod \in Nat \ {0}
  BY RingAssumption

\* While two counters are at most the capacity apart, their indices tell the
\* difference, and whether they are equal.
LEMMA IndicesTell ==
  ASSUME NEW m \in Nat, NEW n \in Nat, n <= m, m - n <= Capacity
  PROVE  /\ Dist(m, n) = m - n
         /\ Index(m) = Index(n) <=> m = n
<1>1. m - n \in 0 .. CounterMod - 1
  BY RingAssumption
<1>2. (Index(m) - Index(n)) % CounterMod = (m - n) % CounterMod
  <2>1. m \in Int /\ n \in Int
    OBVIOUS
  <2> QED
    BY <2>1, Sizes, ModDifference, Zenon DEF Index
<1>3. (m - n) % CounterMod = m - n
  BY <1>1, Sizes, ModSmall
<1>4. Index(m) = Index(n) => m = n
  <2>1. m \in Int /\ n \in Int /\ m < n + CounterMod
    BY <1>1, Sizes
  <2> QED
    BY <2>1, Sizes, ModWindow DEF Index
<1> QED
  BY <1>2, <1>3, <1>4 DEF Dist

\* The wrap of the index does not show in the slot.
LEMMA SlotIs ==
  ASSUME NEW n \in Nat
  PROVE  Slot(n) = n % Capacity /\ Slot(n) \in 0 .. Capacity - 1
<1>1. IsRing(Capacity, CounterMod)
  BY RingAssumption DEF IsRing
<1>2. Slot(n) = n % Capacity
  BY <1>1, SlotReduced DEF Slot, Index
<1> QED
  BY <1>2, Sizes, DivMod

LEMMA AppendStore ==
  ASSUME NEW s \in Seq(Nat), NEW n \in Nat
  PROVE  /\ Append(s, n) \in Seq(Nat) /\ Len(s) \in Nat
         /\ Len(Append(s, n)) = Len(s) + 1
         /\ \A i \in 1 .. Len(s) : Append(s, n)[i] = s[i]
         /\ Append(s, n)[Len(s) + 1] = n
  BY AppendProperties, LenProperties

\* An acquire load of the value n makes at least n slot accesses known.
LEMMA AcquireTells ==
  ASSUME NEW s \in Seq(Nat), NEW n \in 0 .. Len(s), NEW known \in Nat,
         \A i \in 1 .. Len(s) : s[i] = i
  PROVE  /\ Acquire(known, s, n) \in Nat
         /\ n <= Acquire(known, s, n) /\ known <= Acquire(known, s, n)
<1>1. Len(s) \in Nat
  BY LenProperties
<1>2. CASE n = 0
  BY <1>2 DEF Acquire
<1>3. CASE n > 0
  <2>1. s[n] = n
    BY <1>1, <1>3
  <2> QED
    BY <1>1, <1>3, <2>1 DEF Acquire
<1> QED
  BY <1>1, <1>2, <1>3

LEMMA InvTypes ==
  ASSUME IInv
  PROVE  /\ head \in Nat /\ tail \in Nat /\ Written \in Nat /\ Read \in Nat
         /\ head <= Written
         /\ prodPc \in Pcs /\ consPc \in Pcs
         /\ cached_tail \in Nat /\ seenTail \in Nat /\ knownReads \in Nat
         /\ cached_head \in Nat /\ seenHead \in Nat /\ knownWrites \in Nat
<1>1. head \in Nat /\ tail \in Nat
  BY LenProperties DEF IInv, TypeOK, head, tail
<1> QED
  BY <1>1 DEF IInv, TypeOK, Written, Read

\* Whatever old counter of the other a thread reads, the indices tell how far
\* it is from its own, and whether the two are equal.
LEMMA ProducerReads ==
  ASSUME IInv, NEW n, n \in seenTail .. tail \/ n = cached_tail
  PROVE  Dist(head, n) = head - n
<1>1. n \in Nat /\ head \in Nat /\ n <= head /\ head - n <= Capacity
  BY InvTypes, Sizes DEF IInv, ProducerView, ConsumerView
<1> QED
  BY <1>1, IndicesTell

LEMMA ConsumerReads ==
  ASSUME IInv, NEW n, n \in seenHead .. head \/ n = cached_head
  PROVE  Index(tail) = Index(n) <=> tail = n
<1>1. n \in Nat /\ tail \in Nat /\ tail <= n /\ n - tail <= Capacity
  BY InvTypes, Sizes DEF IInv, ProducerView, ConsumerView
<1>2. Index(n) = Index(tail) <=> n = tail
  BY <1>1, IndicesTell
<1> QED
  BY <1>2

LEMMA InvInit == Init => IInv
<1> SUFFICES ASSUME Init PROVE IInv
  OBVIOUS
<1>1. <<>> \in Seq(Nat) /\ Len(<<>>) = 0
  BY EmptySeq
<1>2. head = 0 /\ tail = 0 /\ Written = 0
  BY <1>1 DEF Init, head, tail, Written
<1>3. TypeOK
  BY <1>1 DEF Init, TypeOK, Pcs
<1>4. StoresTell /\ SlotsHold /\ PopsInOrder
  BY <1>2 DEF Init, StoresTell, SlotsHold, PopsInOrder
<1>5. ProducerView /\ ConsumerView
  BY <1>2, Sizes DEF Init, ProducerView, ConsumerView
<1> QED
  BY <1>3, <1>4, <1>5 DEF IInv
-----------------------------------------------------------------------------
LEMMA InvPush == IInv /\ Push => IInv'
<1> SUFFICES ASSUME IInv, Push PROVE IInv'
  OBVIOUS
<1>1. CASE PushCall
  <2>1. head' = head /\ tail' = tail /\ Written' = Written /\ UNCHANGED <<buffer, consVars, value>>
    BY <1>1 DEF PushCall, head, tail, Written
  <2>2. TypeOK'
    BY <1>1 DEF PushCall, IInv, TypeOK, consVars, Pcs
  <2>3. StoresTell' /\ ConsumerView' /\ SlotsHold' /\ PopsInOrder'
    BY <1>1, <2>1
       DEF PushCall, IInv, StoresTell, ConsumerView, SlotsHold, PopsInOrder, consVars
  <2>4. ProducerView'
    <3>1. Dist(head, cached_tail) = head - cached_tail
      BY ProducerReads
    <3> QED
      BY <1>1, <2>1, <3>1, InvTypes, Sizes DEF PushCall, IInv, ProducerView
  <2> QED
    BY <2>2, <2>3, <2>4 DEF IInv
<1>2. CASE \E n \in seenTail .. tail : PushRefresh(n)
  <2>1. PICK n \in seenTail .. tail : PushRefresh(n)
    BY <1>2
  <2>2. /\ head' = head /\ tail' = tail /\ Written' = Written
        /\ UNCHANGED <<buffer, consVars, value>>
    BY <2>1 DEF PushRefresh, head, tail, Written
  <2>3. /\ n \in Nat /\ n \in 0 .. tail
        /\ knownReads' \in Nat /\ n <= knownReads'
    <3>1. n \in 0 .. Len(tailStores)
      BY InvTypes DEF tail
    <3>2. tailStores \in Seq(Nat) /\ \A i \in 1 .. Len(tailStores) : tailStores[i] = i
      BY DEF IInv, TypeOK, StoresTell, tail
    <3> QED
      BY <2>1, <3>1, <3>2, InvTypes, AcquireTells, SMTT(30) DEF PushRefresh, tail
  <2>4. TypeOK'
    BY <2>1, <2>3 DEF PushRefresh, IInv, TypeOK, consVars, Pcs
  <2>5. StoresTell' /\ ConsumerView' /\ SlotsHold' /\ PopsInOrder'
    BY <2>1, <2>2
       DEF PushRefresh, IInv, StoresTell, ConsumerView, SlotsHold, PopsInOrder, consVars
  <2>6. ProducerView'
    <3>1. Dist(head, n) = head - n
      BY ProducerReads
    <3> QED
      BY <2>1, <2>2, <2>3, <3>1, InvTypes, Sizes DEF PushRefresh, IInv, ProducerView
  <2> QED
    BY <2>4, <2>5, <2>6 DEF IInv
<1>3. CASE PushCopy
  <2>1. /\ head' = head /\ tail' = tail /\ Written = head /\ Written' = head + 1
        /\ UNCHANGED <<headStores, tailStores, consVars, value>>
        /\ buffer' = [buffer EXCEPT ![Slot(head)] = head]
    BY <1>3, InvTypes DEF PushCopy, head, tail, Written
  <2>2. Slot(head) \in 0 .. Capacity - 1 /\ head \in Ticks
    <3>1. head < MaxTicks
      BY <1>3 DEF PushCopy, IInv, ProducerView
    <3>2. head \in Ticks
      BY <3>1, InvTypes, Sizes DEF Ticks
    <3> QED
      BY <3>2, InvTypes, SlotIs
  <2>3. TypeOK'
    BY <1>3, <2>1, <2>2 DEF PushCopy, IInv, TypeOK, consVars, Pcs
  <2>4. StoresTell' /\ ConsumerView' /\ PopsInOrder'
    BY <1>3, <2>1 DEF IInv, StoresTell, ConsumerView, PopsInOrder, consVars
  <2>5. ProducerView'
    BY <1>3, <2>1, InvTypes, Sizes DEF PushCopy, IInv, ProducerView
  <2>6. SlotsHold'
    <3> SUFFICES ASSUME NEW i \in tail .. head
                 PROVE  buffer'[Slot(i)] = i
      BY <2>1, InvTypes DEF SlotsHold
    <3>1. i \in Nat /\ tail <= i /\ i <= head /\ Slot(i) \in 0 .. Capacity - 1
      BY InvTypes, SlotIs
    <3>2. CASE i = head
      BY <2>1, <2>2, <3>2 DEF IInv, TypeOK
    <3>3. CASE i < head
      <4>1. head < i + Capacity
        BY <1>3, <3>1, <3>3, InvTypes, Sizes DEF PushCopy, IInv, ProducerView
      <4>2. Slot(head) # Slot(i)
        <5>1. head \in Int /\ i \in Int /\ i <= head /\ head # i
          BY <3>1, <3>3, InvTypes
        <5>2. head % Capacity # i % Capacity
          BY <4>1, <5>1, Sizes, ModWindow
        <5> QED
          BY <3>1, <5>2, InvTypes, SlotIs
      <4>3. buffer[Slot(i)] = i
        BY <2>1, <3>1, <3>3, InvTypes DEF IInv, SlotsHold
      <4> QED
        BY <2>1, <3>1, <4>2, <4>3 DEF IInv, TypeOK
    <3> QED
      BY <3>1, <3>2, <3>3, InvTypes
  <2> QED
    BY <2>3, <2>4, <2>5, <2>6 DEF IInv
<1>4. CASE PushStore
  <2>1. /\ headStores' = Append(headStores, Written) /\ prodPc = "store" /\ prodPc' = "idle"
        /\ UNCHANGED <<tailStores, buffer, cached_tail, seenTail, knownReads, consVars, value>>
    BY <1>4 DEF PushStore
  <2>2. Written = head + 1 /\ headStores \in Seq(Nat)
    BY <2>1 DEF Written, IInv, TypeOK
  <2>3. /\ headStores' \in Seq(Nat) /\ head' = head + 1 /\ tail' = tail
        /\ \A i \in 1 .. head : headStores'[i] = headStores[i]
        /\ headStores'[head + 1] = head + 1
    BY <2>1, <2>2, InvTypes, AppendStore DEF head, tail
  <2>4. Written' = Written
    BY <2>1, <2>2, <2>3, InvTypes DEF Written
  <2>5. TypeOK'
    BY <2>1, <2>3 DEF IInv, TypeOK, consVars, Pcs
  <2>6. StoresTell'
    <3>1. \A i \in 1 .. head' : i \in 1 .. head \/ i = head + 1
      BY <2>3, InvTypes
    <3>2. \A i \in 1 .. head' : headStores'[i] = i
      BY <2>3, <3>1 DEF IInv, StoresTell
    <3> QED
      BY <2>1, <2>3, <3>2 DEF IInv, StoresTell
  <2>7. ProducerView' /\ ConsumerView'
    BY <2>1, <2>3, InvTypes, Sizes, SMTT(30) DEF IInv, ProducerView, ConsumerView, consVars
  <2>8. SlotsHold' /\ PopsInOrder'
    BY <2>1, <2>3, <2>4 DEF IInv, SlotsHold, PopsInOrder, consVars
  <2> QED
    BY <2>5, <2>6, <2>7, <2>8 DEF IInv
<1> QED
  BY <1>1, <1>2, <1>3, <1>4 DEF Push

LEMMA InvPop == IInv /\ (Pop \/ \E n \in seenHead .. head : Empty(n)) => IInv'
<1> SUFFICES ASSUME IInv, Pop \/ \E n \in seenHead .. head : Empty(n) PROVE IInv'
  OBVIOUS
<1>1. CASE PopCall
  <2>1. head' = head /\ tail' = tail /\ Written' = Written /\ UNCHANGED <<buffer, prodVars>>
    BY <1>1 DEF PopCall, head, tail, Written, prodVars
  <2>2. TypeOK'
    BY <1>1 DEF PopCall, IInv, TypeOK, prodVars, Pcs
  <2>3. StoresTell' /\ ProducerView' /\ SlotsHold' /\ PopsInOrder'
    BY <1>1, <2>1
       DEF PopCall, IInv, StoresTell, ProducerView, SlotsHold, PopsInOrder, prodVars
  <2>4. ConsumerView'
    <3>1. Index(tail) = Index(cached_head) <=> tail = cached_head
      BY ConsumerReads
    <3> QED
      BY <1>1, <2>1, <3>1, InvTypes DEF PopCall, IInv, ConsumerView
  <2> QED
    BY <2>2, <2>3, <2>4 DEF IInv
<1>2. CASE \E n \in seenHead .. head : PopRefresh(n) \/ Empty(n)
  <2>1. PICK n \in seenHead .. head : PopRefresh(n) \/ Empty(n)
    BY <1>2
  <2>2. /\ head' = head /\ tail' = tail /\ Written' = Written
        /\ UNCHANGED <<headStores, tailStores, buffer, prodVars, value>>
        /\ seenHead' = n /\ knownWrites' = Acquire(knownWrites, headStores, n)
    BY <2>1 DEF PopRefresh, Empty, head, tail, Written, prodVars
  <2>3. /\ n \in Nat /\ n \in 0 .. head
        /\ knownWrites' \in Nat /\ n <= knownWrites' /\ knownWrites <= knownWrites'
    <3>1. n \in 0 .. Len(headStores)
      BY InvTypes DEF head
    <3>2. headStores \in Seq(Nat) /\ \A i \in 1 .. Len(headStores) : headStores[i] = i
      BY DEF IInv, TypeOK, StoresTell, head
    <3> QED
      BY <2>2, <3>1, <3>2, InvTypes, AcquireTells, SMTT(30) DEF head
  <2>4. TypeOK'
    BY <2>1, <2>2, <2>3 DEF PopRefresh, Empty, IInv, TypeOK, prodVars, Pcs
  <2>5. StoresTell' /\ ProducerView' /\ SlotsHold'
    BY <2>2 DEF IInv, StoresTell, ProducerView, SlotsHold, prodVars
  <2>6. ConsumerView' /\ PopsInOrder'
    <3>1. Index(tail) = Index(n) <=> tail = n
      BY ConsumerReads
    <3> QED
      BY <2>1, <2>2, <2>3, <3>1, InvTypes
         DEF PopRefresh, Empty, IInv, ConsumerView, PopsInOrder
  <2> QED
    BY <2>4, <2>5, <2>6 DEF IInv
<1>3. CASE PopCopy
  <2>1. /\ head' = head /\ tail' = tail /\ Written' = Written
        /\ UNCHANGED <<headStores, tailStores, buffer, prodVars>>
    BY <1>3 DEF PopCopy, head, tail, Written, prodVars
  <2>2. buffer[Slot(tail)] = tail
    BY <1>3, InvTypes DEF PopCopy, IInv, ConsumerView, SlotsHold
  <2>3. Slot(tail) \in 0 .. Capacity - 1
    BY InvTypes, SlotIs
  <2>4. TypeOK'
    BY <1>3, <2>3 DEF PopCopy, IInv, TypeOK, prodVars, Pcs
  <2>5. StoresTell' /\ ProducerView' /\ SlotsHold'
    BY <2>1 DEF IInv, StoresTell, ProducerView, SlotsHold, prodVars
  <2>6. ConsumerView' /\ PopsInOrder'
    BY <1>3, <2>1, <2>2 DEF PopCopy, IInv, ConsumerView, PopsInOrder
  <2> QED
    BY <2>4, <2>5, <2>6 DEF IInv
<1>4. CASE PopStore
  <2>1. /\ tailStores' = Append(tailStores, Read) /\ consPc = "store" /\ consPc' = "idle"
        /\ UNCHANGED <<headStores, buffer, prodVars, cached_head, seenHead, knownWrites,
                       value>>
    BY <1>4 DEF PopStore
  <2>2. Read = tail + 1 /\ tailStores \in Seq(Nat)
    BY <2>1 DEF Read, IInv, TypeOK
  <2>3. /\ tailStores' \in Seq(Nat) /\ tail' = tail + 1 /\ head' = head /\ Written' = Written
        /\ \A i \in 1 .. tail : tailStores'[i] = tailStores[i]
        /\ tailStores'[tail + 1] = tail + 1
    BY <2>1, <2>2, InvTypes, AppendStore DEF head, tail, Written, prodVars
  <2>4. TypeOK'
    BY <2>1, <2>3 DEF IInv, TypeOK, prodVars, Pcs
  <2>5. StoresTell'
    <3>1. \A i \in 1 .. tail' : i \in 1 .. tail \/ i = tail + 1
      BY <2>3, InvTypes
    <3>2. \A i \in 1 .. tail' : tailStores'[i] = i
      BY <2>3, <3>1 DEF IInv, StoresTell
    <3> QED
      BY <2>1, <2>3, <3>2 DEF IInv, StoresTell
  <2>6. ProducerView' /\ ConsumerView'
    BY <2>1, <2>3, InvTypes, SMTT(30) DEF IInv, ProducerView, ConsumerView, prodVars
  <2>7. SlotsHold' /\ PopsInOrder'
    BY <2>1, <2>3, InvTypes, SMTT(30) DEF IInv, SlotsHold, PopsInOrder
  <2> QED
    BY <2>4, <2>5, <2>6, <2>7 DEF IInv
<1> QED
  BY <1>1, <1>2, <1>3, <1>4 DEF Pop
-----------------------------------------------------------------------------
LEMMA Invariance == Spec => []IInv
<1>1. IInv /\ [Next]_vars => IInv'
  <2> SUFFICES ASSUME IInv, [Next]_vars PROVE IInv'
    OBVIOUS
  <2>1. CASE UNCHANGED vars
    <3>1. head' = head /\ tail' = tail /\ Written' = Written
      BY <2>1 DEF vars, prodVars, consVars, head, tail, Written
    <3> QED
      BY <2>1, <3>1 DEF vars, prodVars, consVars, IInv, TypeOK, StoresTell, ProducerView,
         ConsumerView, SlotsHold, PopsInOrder
  <2> QED
    BY <2>1, InvPush, InvPop DEF Next
<1> QED
  BY <1>1, InvInit, PTL DEF Spec

\* The release stores and acquire loads order every access to a slot against
\* the conflicting ones of the other thread.
THEOREM DataRaceFree == Spec => []NoSlotRace
<1>1. IInv => NoSlotRace
  <2> SUFFICES ASSUME IInv PROVE NoSlotRace
    OBVIOUS
  <2> QED
    BY InvTypes, Sizes DEF IInv, ProducerView, ConsumerView, NoSlotRace
<1> QED
  BY <1>1, Invariance, PTL

\* With loads that may return any old counter pop() still returns the ticks in
\* the order of the pushes, each once.
THEOREM InOrderOnWeakMemory == Spec => []PopsInOrder
<1>1. IInv => PopsInOrder
  BY DEF IInv
<1> QED
  BY <1>1, Invariance, PTL
=============================================================================
