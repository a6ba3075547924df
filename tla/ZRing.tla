------------------------------- MODULE ZRing --------------------------------
(***************************************************************************)
(* zerok::z_ring<T, Capacity> of mdp_include/ring_buffer_v3.hpp: the       *)
(* single-producer single-consumer ring with cached indices that carries   *)
(* ticks from the market data generator to the publisher.                  *)
(*                                                                         *)
(* Every access to memory the two threads share is a step of its own: the  *)
(* loads of the other thread's index, the copy of the tick into or out of  *)
(* its slot, and the store that publishes the new index.  A thread's own   *)
(* index and its own cached copy of the other's change only by its own     *)
(* steps, so what a call read of them is still true later in that call and *)
(* the locals `head' of push() and `tail' of pop() need no variable.       *)
(*                                                                         *)
(* The indices are size_t: they count modulo CounterMod and never stop.    *)
(***************************************************************************)
EXTENDS Integers, Sequences

CONSTANTS Capacity,    \* number of slots
          CounterMod,  \* 2^w, w the width of size_t
          Values,      \* the ticks
          NoTick       \* the content of a slot nobody has written

\* The class asserts that Capacity is a positive power of two, so that it
\* divides 2^w; Capacity is itself a size_t, so that it is less than 2^w.
ASSUME RingAssumption ==
  /\ Capacity \in Nat \ {0}
  /\ CounterMod \in Nat
  /\ CounterMod > Capacity
  /\ CounterMod % Capacity = 0

VARIABLES
  buffer,       \* buffer_
  head,         \* head_, written by the producer
  tail,         \* tail_, written by the consumer
  cached_tail,  \* cached_tail_, the producer's copy of tail
  cached_head,  \* cached_head_, the consumer's copy of head
  prodPc,       \* where the producer is in push()
  pushArg,      \* the argument `value' of push()
  pushRet,      \* what the last completed push() returned
  consPc,       \* where the consumer is in pop() or empty()
  value,        \* the caller's tick that pop() fills in
  popRet,       \* what the last completed pop() returned
  seenHead,     \* the load of head_ in empty()
  emptyRet      \* what empty() returned, until the next tick is popped

prodVars == <<head, cached_tail, prodPc, pushArg, pushRet>>
consVars == <<tail, cached_head, consPc, value, popRet, seenHead, emptyRet>>
vars == <<buffer, prodVars, consVars>>

Counter == 0 .. CounterMod - 1
Bools   == {"none", "true", "false"}

TypeOK ==
  /\ buffer \in [0 .. Capacity - 1 -> Values \cup {NoTick}]
  /\ head \in Counter /\ tail \in Counter
  /\ cached_tail \in Counter /\ cached_head \in Counter
  /\ prodPc \in {"idle", "refresh", "write", "publish"}
  /\ pushArg \in Values \cup {NoTick}
  /\ pushRet \in Bools
  /\ consPc \in {"idle", "refresh", "read", "advance", "empty"}
  /\ value \in Values \cup {NoTick}
  /\ popRet \in Bools
  /\ seenHead \in Counter
  /\ emptyRet \in Bools
-----------------------------------------------------------------------------
(***************************************************************************)
(* Arithmetic on size_t.                                                   *)
(***************************************************************************)

\* Mutation: the increment is carried out in a type wider than the index.
IncUnwrapped(c) == c + 1

\* head + 1 and tail + 1.
Inc(c) == (c + 1) % CounterMod

\* a - b on unsigned counters: how far b lies behind a.
Dist(a, b) == (a - b) % CounterMod

\* c & MASK_, the slot of an index.
Slot(c) == c % Capacity
-----------------------------------------------------------------------------
Init ==
  /\ buffer = [i \in 0 .. Capacity - 1 |-> NoTick]
  /\ head = 0 /\ tail = 0
  /\ cached_tail = 0 /\ cached_head = 0
  /\ prodPc = "idle" /\ pushArg = NoTick /\ pushRet = "none"
  /\ consPc = "idle" /\ value = NoTick /\ popRet = "none"
  /\ seenHead = 0 /\ emptyRet = "none"
-----------------------------------------------------------------------------
(***************************************************************************)
(* The producer: push(v).                                                  *)
(***************************************************************************)

\* Mutation: the first fullness test lets one tick too many in.
PushEnterOffByOne(v) ==
  /\ prodPc = "idle"
  /\ pushArg' = v
  /\ prodPc' = IF Dist(head, cached_tail) > Capacity THEN "refresh" ELSE "write"
  /\ UNCHANGED <<buffer, head, cached_tail, pushRet, consVars>>

\* The load of head_ and the test against the cached tail.
PushEnter(v) ==
  /\ prodPc = "idle"
  /\ pushArg' = v
  /\ prodPc' = IF Dist(head, cached_tail) >= Capacity THEN "refresh" ELSE "write"
  /\ UNCHANGED <<buffer, head, cached_tail, pushRet, consVars>>

\* Mutation: the cached tail is loaded, and the test that used the old one
\* decides: push spins until the consumer makes room.
PushRefreshSpins ==
  /\ prodPc = "refresh"
  /\ cached_tail' = tail
  /\ prodPc' = IF Dist(head, tail) >= Capacity THEN "refresh" ELSE "write"
  /\ UNCHANGED <<buffer, head, pushArg, pushRet, consVars>>

\* The load of tail_ (acquire) into the cache; return false if still full.
PushRefresh ==
  /\ prodPc = "refresh"
  /\ cached_tail' = tail
  /\ IF Dist(head, tail) >= Capacity
       THEN prodPc' = "idle" /\ pushRet' = "false"
       ELSE prodPc' = "write" /\ UNCHANGED pushRet
  /\ UNCHANGED <<buffer, head, pushArg, consVars>>

\* buffer_[head & MASK_] = value
PushWrite ==
  /\ prodPc = "write"
  /\ buffer' = [buffer EXCEPT ![Slot(head)] = pushArg]
  /\ prodPc' = "publish"
  /\ UNCHANGED <<head, cached_tail, pushArg, pushRet, consVars>>

\* The store of head_ (release); return true.
PushPublish ==
  /\ prodPc = "publish"
  /\ head' = Inc(head)
  /\ prodPc' = "idle"
  /\ pushRet' = "true"
  /\ UNCHANGED <<buffer, cached_tail, pushArg, consVars>>
-----------------------------------------------------------------------------
(***************************************************************************)
(* The consumer: pop(value) and empty().                                   *)
(***************************************************************************)

\* The load of tail_ and the test against the cached head.
PopEnter ==
  /\ consPc = "idle"
  /\ consPc' = IF tail = cached_head THEN "refresh" ELSE "read"
  /\ UNCHANGED <<buffer, prodVars, tail, cached_head, value, popRet, seenHead, emptyRet>>

\* Mutation: a pop that found its cache exhausted trusts the refreshed cache
\* to hold a tick.
PopRefreshUnchecked ==
  /\ consPc = "refresh"
  /\ cached_head' = head
  /\ consPc' = "read"
  /\ UNCHANGED <<buffer, prodVars, tail, value, popRet, seenHead, emptyRet>>

\* Mutation: pop waits for a tick.
PopRefreshSpins ==
  /\ consPc = "refresh"
  /\ cached_head' = head
  /\ consPc' = IF tail = head THEN "refresh" ELSE "read"
  /\ UNCHANGED <<buffer, prodVars, tail, value, popRet, seenHead, emptyRet>>

\* The load of head_ (acquire) into the cache; return false if still empty.
PopRefresh ==
  /\ consPc = "refresh"
  /\ cached_head' = head
  /\ IF tail = head
       THEN consPc' = "idle" /\ popRet' = "false"
       ELSE consPc' = "read" /\ UNCHANGED popRet
  /\ UNCHANGED <<buffer, prodVars, tail, value, seenHead, emptyRet>>

\* value = buffer_[tail & MASK_]
PopRead ==
  /\ consPc = "read"
  /\ value' = buffer[Slot(tail)]
  /\ consPc' = "advance"
  /\ UNCHANGED <<buffer, prodVars, tail, cached_head, popRet, seenHead, emptyRet>>

\* Mutation: the slot is released twice.
PopAdvanceTwice ==
  /\ consPc = "advance"
  /\ tail' = Inc(Inc(tail))
  /\ consPc' = "idle"
  /\ popRet' = "true"
  /\ emptyRet' = "none"
  /\ UNCHANGED <<buffer, prodVars, cached_head, value, seenHead>>

\* The store of tail_ (release); return true.
PopAdvance ==
  /\ consPc = "advance"
  /\ tail' = Inc(tail)
  /\ consPc' = "idle"
  /\ popRet' = "true"
  /\ emptyRet' = "none"
  /\ UNCHANGED <<buffer, prodVars, cached_head, value, seenHead>>

\* empty() loads head_ ...
EmptyLoadHead ==
  /\ consPc = "idle"
  /\ seenHead' = head
  /\ consPc' = "empty"
  /\ UNCHANGED <<buffer, prodVars, tail, cached_head, value, popRet, emptyRet>>

\* Mutation: the comparison uses the producer's cached copy of the tail.
EmptyLoadCachedTail ==
  /\ consPc = "empty"
  /\ emptyRet' = IF seenHead = cached_tail THEN "true" ELSE "false"
  /\ consPc' = "idle"
  /\ UNCHANGED <<buffer, prodVars, tail, cached_head, value, popRet, seenHead>>

\* ... then tail_, and compares.
EmptyLoadTail ==
  /\ consPc = "empty"
  /\ emptyRet' = IF seenHead = tail THEN "true" ELSE "false"
  /\ consPc' = "idle"
  /\ UNCHANGED <<buffer, prodVars, tail, cached_head, value, popRet, seenHead>>
-----------------------------------------------------------------------------
\* The steps that finish a push, and those that finish a pop or an empty.
ProducerStep == PushRefresh \/ PushWrite \/ PushPublish
ConsumerStep == PopRefresh \/ PopRead \/ PopAdvance \/ EmptyLoadTail

Next ==
  \/ \E v \in Values : PushEnter(v)
  \/ ProducerStep
  \/ PopEnter
  \/ EmptyLoadHead
  \/ ConsumerStep

Spec == Init /\ [][Next]_vars
-----------------------------------------------------------------------------
(***************************************************************************)
(* Properties.                                                             *)
(***************************************************************************)

\* The number of ticks in the ring.
Depth == Dist(head, tail)

\* A cached index lags behind the real one but never leaves the window of
\* the last Capacity ticks, also across the wrap of the counters: the
\* producer's tail is at most Capacity behind head and not past tail, the
\* consumer's head is not past head and not behind tail.  This is what lets
\* push() and pop() skip the atomic load (ring_buffer_v3.hpp:73 and :92).
CachesInWindow ==
  /\ Depth <= Capacity
  /\ Dist(head, cached_tail) \in Depth .. Capacity
  /\ Dist(cached_head, tail) <= Depth

\* The copy into a slot and the copy out of a slot are plain, non-atomic
\* accesses of 64 bytes (ring_buffer_v3.hpp:79 and :98): the two threads are
\* never at the same slot at the same time.
NoSlotRace ==
  ~ (prodPc = "write" /\ consPc = "read" /\ Slot(head) = Slot(tail))

\* empty() reads two indices at two instants while the producer runs.  Once
\* it has told the consumer that the ring holds a tick, that stays true until
\* the consumer takes it: the drain loop of publisher.cpp:167 and :171 cannot
\* be sent into a pop that finds nothing.
NonEmptyIsStable == emptyRet = "false" => Depth > 0

(***************************************************************************)
(* The inductive invariant: what each thread may conclude from where it is *)
(* in its call.                                                            *)
(***************************************************************************)

\* Past its fullness tests push() owns the slot at head, and from the copy on
\* that slot holds its argument.
ProducerInv ==
  /\ prodPc # "idle" => pushArg \in Values
  /\ prodPc \in {"write", "publish"} => Dist(head, cached_tail) < Capacity
  /\ prodPc = "publish" => buffer[Slot(head)] = pushArg

\* Past its emptiness tests pop() owns the slot at tail, and the tick it
\* copied is still the one in that slot; what empty() loaded of head_ is
\* between tail and head.
ConsumerInv ==
  /\ consPc \in {"read", "advance"} => cached_head # tail
  /\ consPc = "advance" => value = buffer[Slot(tail)]
  /\ consPc = "empty" => Dist(seenHead, tail) <= Depth

RingInv ==
  /\ TypeOK
  /\ CachesInWindow
  /\ NonEmptyIsStable
  /\ ProducerInv
  /\ ConsumerInv

\* The refinement mapping: the ring is the queue of the slots from tail on.
Queue == [i \in 1 .. Depth |-> buffer[Slot(tail + i - 1)]]

Abstract == INSTANCE Fifo WITH
  q          <- Queue,
  pushStatus <- IF prodPc # "idle" THEN "pending" ELSE pushRet,
  popStatus  <- IF consPc \in {"refresh", "read", "advance"} THEN "pending" ELSE popRet,
  out        <- IF popRet = "true" /\ consPc \in {"idle", "empty"} THEN value ELSE NoTick

\* The ring implements the bounded FIFO: no tick is lost, duplicated, reordered
\* or overwritten before it is read, push() fails only when the ring is full at
\* its load of tail_ and pop() only when it is empty at its load of head_.
IsFifo == Abstract!Spec

\* push() and pop() are wait-free: as long as its own thread is scheduled a
\* call returns, also if the other thread stops in the middle of one.
CallsReturn ==
  /\ WF_vars(ProducerStep) => (prodPc # "idle" ~> prodPc = "idle")
  /\ WF_vars(ConsumerStep) => (consPc # "idle" ~> consPc = "idle")
=============================================================================
