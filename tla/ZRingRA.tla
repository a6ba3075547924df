------------------------------- MODULE ZRingRA -------------------------------
(***************************************************************************)
(* push(), pop() and empty() of zerok::z_ring (ring_buffer_v3.hpp) under   *)
(* the memory model of C++: a load may return an old value, and an access  *)
(* to a slot is ordered against the other thread's only by what a release  *)
(* store made visible to the acquire load that read it.                    *)
(*                                                                         *)
(* head_ and tail_ have one writer each, which adds one at a time: the     *)
(* n-th store wrote n modulo 2^w, w the width of size_t, and a load is     *)
(* known by the number n of the store it read.  The model keeps these      *)
(* numbers; the program knows only what they leave modulo 2^w, and all its *)
(* tests and slots are of that (Dist, Slot).                               *)
(***************************************************************************)
EXTENDS Integers, Sequences

CONSTANTS Capacity,
          CounterMod,  \* 2^w
          MaxTicks     \* bound: the ticks the producer pushes, numbered from 0

\* As in ZRing, Capacity is a power of two that a size_t can hold.
ASSUME RingAssumption ==
  /\ Capacity \in Nat \ {0} /\ MaxTicks \in Nat
  /\ CounterMod \in Nat /\ CounterMod > Capacity /\ CounterMod % Capacity = 0

Garbage == -1  \* a slot before the first copy, and `value' before the first pop

VARIABLES
  headStores,   \* for each store to head_, how many slot writes it makes visible
  tailStores,   \* for each store to tail_, how many slot reads
  buffer,       \* buffer_
  prodPc, cached_tail,
  seenTail,     \* the latest store to tail_ the producer has read
  knownReads,   \* how many slot reads happen before what it does next
  consPc, cached_head, seenHead, knownWrites,
  value         \* what the last pop() copied

prodVars == <<prodPc, cached_tail, seenTail, knownReads>>
consVars == <<consPc, cached_head, seenHead, knownWrites>>
vars     == <<headStores, tailStores, buffer, prodVars, consVars, value>>

head == Len(headStores)
tail == Len(tailStores)

\* How many slots the producer has written and the consumer has read.
Written == head + IF prodPc = "store" THEN 1 ELSE 0
Read    == tail + IF consPc = "store" THEN 1 ELSE 0

\* What the index has in it after the n-th store.
Index(n) == n % CounterMod

\* Mutation: the difference is not reduced, as when an index narrower than int
\* is promoted to int.
DistPromoted(m, n) == Index(m) - Index(n)

\* The difference of two indices, and the slot of one.
Dist(m, n) == (Index(m) - Index(n)) % CounterMod
Slot(n)    == Index(n) % Capacity

Ticks == 0 .. MaxTicks - 1
Pcs   == {"idle", "refresh", "copy", "store"}

TypeOK ==
  /\ headStores \in Seq(Nat) /\ tailStores \in Seq(Nat)
  /\ buffer \in [0 .. Capacity - 1 -> Ticks \cup {Garbage}]
  /\ prodPc \in Pcs /\ consPc \in Pcs
  /\ cached_tail \in Nat /\ seenTail \in Nat /\ knownReads \in Nat
  /\ cached_head \in Nat /\ seenHead \in Nat /\ knownWrites \in Nat
  /\ value \in Ticks \cup {Garbage}

Init ==
  /\ headStores = <<>> /\ tailStores = <<>>
  /\ buffer = [i \in 0 .. Capacity - 1 |-> Garbage]
  /\ prodPc = "idle" /\ cached_tail = 0 /\ seenTail = 0 /\ knownReads = 0
  /\ consPc = "idle" /\ cached_head = 0 /\ seenHead = 0 /\ knownWrites = 0
  /\ value = Garbage
-----------------------------------------------------------------------------
\* What an acquire load makes known, given what was: reading the value n reads
\* the n-th store; the initial 0 makes nothing known.
Acquire(known, stores, n) ==
  IF n > 0 /\ stores[n] > known THEN stores[n] ELSE known

\* push(): its own head_, which nobody else writes, against the cached tail.
PushCall ==
  /\ prodPc = "idle" /\ head < MaxTicks
  /\ prodPc' = IF Dist(head, cached_tail) >= Capacity THEN "refresh" ELSE "copy"
  /\ UNCHANGED <<headStores, tailStores, buffer, cached_tail, seenTail, knownReads,
                 consVars, value>>

\* cached_tail_ = tail_.load (acquire), which returns n; full, or the copy.
PushRefresh(n) ==
  /\ prodPc = "refresh"
  /\ seenTail' = n /\ cached_tail' = n
  /\ knownReads' = Acquire(knownReads, tailStores, n)
  /\ prodPc' = IF Dist(head, n) >= Capacity THEN "idle" ELSE "copy"
  /\ UNCHANGED <<headStores, tailStores, buffer, consVars, value>>

PushCopy ==
  /\ prodPc = "copy"
  /\ buffer' = [buffer EXCEPT ![Slot(head)] = head]
  /\ prodPc' = "store"
  /\ UNCHANGED <<headStores, tailStores, cached_tail, seenTail, knownReads,
                 consVars, value>>

\* Mutation: head_.store (head + 1, std::memory_order_relaxed)
PushStoreRelaxed ==
  /\ prodPc = "store"
  /\ headStores' = Append(headStores, 0)
  /\ prodPc' = "idle"
  /\ UNCHANGED <<tailStores, buffer, cached_tail, seenTail, knownReads, consVars, value>>

\* head_.store (head + 1, std::memory_order_release)
PushStore ==
  /\ prodPc = "store"
  /\ headStores' = Append(headStores, Written)
  /\ prodPc' = "idle"
  /\ UNCHANGED <<tailStores, buffer, cached_tail, seenTail, knownReads, consVars, value>>

\* Mutation: the cached head alone decides.
PopCallCached ==
  /\ consPc = "idle"
  /\ consPc' = IF Index(tail) = Index(cached_head) /\ tail > 0 THEN "idle"
               ELSE IF Index(tail) = Index(cached_head) THEN "refresh" ELSE "copy"
  /\ UNCHANGED <<headStores, tailStores, buffer, prodVars, cached_head, seenHead,
                 knownWrites, value>>

PopCall ==
  /\ consPc = "idle"
  /\ consPc' = IF Index(tail) = Index(cached_head) THEN "refresh" ELSE "copy"
  /\ UNCHANGED <<headStores, tailStores, buffer, prodVars, cached_head, seenHead,
                 knownWrites, value>>

\* cached_head_ = head_.load (acquire), which returns n; empty, or the copy.
PopRefresh(n) ==
  /\ consPc = "refresh"
  /\ seenHead' = n /\ cached_head' = n
  /\ knownWrites' = Acquire(knownWrites, headStores, n)
  /\ consPc' = IF Index(tail) = Index(n) THEN "idle" ELSE "copy"
  /\ UNCHANGED <<headStores, tailStores, buffer, prodVars, value>>

PopCopy ==
  /\ consPc = "copy"
  /\ value' = buffer[Slot(tail)]
  /\ consPc' = "store"
  /\ UNCHANGED <<headStores, tailStores, buffer, prodVars, cached_head, seenHead,
                 knownWrites>>

\* tail_.store (tail + 1, std::memory_order_release)
PopStore ==
  /\ consPc = "store"
  /\ tailStores' = Append(tailStores, Read)
  /\ consPc' = "idle"
  /\ UNCHANGED <<headStores, buffer, prodVars, cached_head, seenHead, knownWrites,
                 value>>

\* empty(), which the consumer asks before it leaves; n is what head_.load
\* (acquire) returns.
Empty(n) ==
  /\ consPc = "idle"
  /\ seenHead' = n
  /\ knownWrites' = Acquire(knownWrites, headStores, n)
  /\ UNCHANGED <<headStores, tailStores, buffer, prodVars, consPc, cached_head, value>>

\* A load returns no older value than the thread has read before.
Push == PushCall \/ (\E n \in seenTail .. tail : PushRefresh(n)) \/ PushCopy \/ PushStore
Pop  == PopCall \/ (\E n \in seenHead .. head : PopRefresh(n)) \/ PopCopy \/ PopStore

Next == Push \/ Pop \/ \E n \in seenHead .. head : Empty(n)

Spec == Init /\ [][Next]_vars

\* Both threads retry until they succeed, and a value that has been stored is
\* read at last by a thread that keeps loading.
FairSpec ==
  /\ Spec
  /\ WF_vars(Push) /\ WF_vars(Pop)
  /\ SF_vars(PushRefresh(tail)) /\ SF_vars(PopRefresh(head))
-----------------------------------------------------------------------------
\* No data race: before the producer overwrites a slot, the read of the tick
\* that is there happens before; before the consumer reads a slot, the write
\* of its tick does.
NoSlotRace ==
  /\ prodPc = "copy" /\ head >= Capacity => knownReads > head - Capacity
  /\ consPc = "copy" => knownWrites > tail

\* pop() returns the ticks one by one in the order of the pushes, whatever old
\* counters the two threads have read.
PopsInOrder == consPc = "store" => value = tail

\* No tick is overlooked, and no room, because of a cached or an old counter:
\* every tick gets through.
TicksGetThrough == \A n \in Ticks : <>(tail > n)
-----------------------------------------------------------------------------
(***************************************************************************)
(* The inductive invariant.                                                *)
(***************************************************************************)

\* A store tells of all the slot accesses before it: the n-th of n.
StoresTell ==
  /\ \A n \in 1 .. head : headStores[n] = n
  /\ \A n \in 1 .. tail : tailStores[n] = n

\* The cached tail is an old one, and the reads before it are known.
ProducerView ==
  /\ cached_tail = seenTail /\ seenTail <= tail /\ cached_tail <= knownReads
  /\ head - cached_tail <= Capacity
  /\ prodPc \in {"copy", "store"} => head - cached_tail < Capacity
  /\ prodPc # "idle" => head < MaxTicks

\* The cached head is an old one, and the writes before it are known.
ConsumerView ==
  /\ tail <= cached_head /\ cached_head <= seenHead /\ seenHead <= head
  /\ cached_head <= knownWrites
  /\ consPc \in {"copy", "store"} => tail < cached_head

\* The slots between the counters hold the ticks of these numbers.
SlotsHold ==
  \A i \in tail .. Written - 1 : buffer[Slot(i)] = i

IInv ==
  /\ TypeOK
  /\ StoresTell
  /\ ProducerView
  /\ ConsumerView
  /\ SlotsHold
  /\ PopsInOrder
=============================================================================
