------------------------------- MODULE ZRingV2 -------------------------------
(***************************************************************************)
(* zerok::z_ring of ring_buffer_v2.1.hpp, the ring of mdp_v2.1.cpp: push() *)
(* and pop() load the other thread's index in every call, no index is      *)
(* cached.  Steps are as in ZRing, one per access to shared memory; a load *)
(* and the test that uses it are one step, since nothing else uses it.     *)
(***************************************************************************)
EXTENDS Integers, Sequences

CONSTANTS Capacity,    \* number of slots
          CounterMod,  \* 2^w, w the width of size_t
          Values,      \* the ticks
          NoTick       \* the content of a slot nobody has written

\* The class asserts that Capacity is a positive power of two.
ASSUME RingV2Assumption ==
  /\ Capacity \in Nat \ {0}
  /\ CounterMod \in Nat /\ CounterMod > Capacity
  /\ CounterMod % Capacity = 0

VARIABLES
  buffer,   \* buffer_
  head,     \* head_, written by the producer
  tail,     \* tail_, written by the consumer
  prodPc,   \* where the producer is in push()
  pushArg,  \* the argument `value' of push()
  pushRet,  \* what the last completed push() returned
  consPc,   \* where the consumer is in pop()
  value,    \* the caller's tick that pop() fills in
  popRet    \* what the last completed pop() returned

prodVars == <<head, prodPc, pushArg, pushRet>>
consVars == <<tail, consPc, value, popRet>>
vars == <<buffer, prodVars, consVars>>

Counter == 0 .. CounterMod - 1
Bools   == {"none", "true", "false"}

TypeOK ==
  /\ buffer \in [0 .. Capacity - 1 -> Values \cup {NoTick}]
  /\ head \in Counter /\ tail \in Counter
  /\ prodPc \in {"idle", "load", "write", "publish"}
  /\ pushArg \in Values \cup {NoTick} /\ pushRet \in Bools
  /\ consPc \in {"idle", "load", "read", "advance"}
  /\ value \in Values \cup {NoTick} /\ popRet \in Bools

Inc(c)     == (c + 1) % CounterMod
Dist(a, b) == (a - b) % CounterMod
Slot(c)    == c % Capacity

Init ==
  /\ buffer = [i \in 0 .. Capacity - 1 |-> NoTick]
  /\ head = 0 /\ tail = 0
  /\ prodPc = "idle" /\ pushArg = NoTick /\ pushRet = "none"
  /\ consPc = "idle" /\ value = NoTick /\ popRet = "none"
-----------------------------------------------------------------------------
\* The call of push(), and the load of the producer's own index.
PushEnter(v) ==
  /\ prodPc = "idle"
  /\ prodPc' = "load" /\ pushArg' = v
  /\ UNCHANGED <<buffer, head, pushRet, consVars>>

\* Mutation: one tick too many.
PushLoadTailOffByOne ==
  /\ prodPc = "load"
  /\ IF Dist(head, tail) > Capacity
       THEN prodPc' = "idle" /\ pushRet' = "false"
       ELSE prodPc' = "write" /\ UNCHANGED pushRet
  /\ UNCHANGED <<buffer, head, pushArg, consVars>>

\* The load of tail_ (acquire); return false if the ring is full.
PushLoadTail ==
  /\ prodPc = "load"
  /\ IF Dist(head, tail) >= Capacity
       THEN prodPc' = "idle" /\ pushRet' = "false"
       ELSE prodPc' = "write" /\ UNCHANGED pushRet
  /\ UNCHANGED <<buffer, head, pushArg, consVars>>

\* buffer_[head & MASK_] = value
PushWrite ==
  /\ prodPc = "write"
  /\ buffer' = [buffer EXCEPT ![Slot(head)] = pushArg]
  /\ prodPc' = "publish"
  /\ UNCHANGED <<head, pushArg, pushRet, consVars>>

\* The store of head_ (release); return true.
PushPublish ==
  /\ prodPc = "publish"
  /\ head' = Inc(head)
  /\ prodPc' = "idle" /\ pushRet' = "true"
  /\ UNCHANGED <<buffer, pushArg, consVars>>

\* The call of pop().
PopEnter ==
  /\ consPc = "idle"
  /\ consPc' = "load"
  /\ UNCHANGED <<buffer, prodVars, tail, value, popRet>>

\* The load of head_ (acquire); return false if the ring is empty.
PopLoadHead ==
  /\ consPc = "load"
  /\ IF head = tail
       THEN consPc' = "idle" /\ popRet' = "false"
       ELSE consPc' = "read" /\ UNCHANGED popRet
  /\ UNCHANGED <<buffer, prodVars, tail, value>>

\* value = buffer_[tail & MASK_]
PopRead ==
  /\ consPc = "read"
  /\ value' = buffer[Slot(tail)]
  /\ consPc' = "advance"
  /\ UNCHANGED <<buffer, prodVars, tail, popRet>>

\* The store of tail_ (release); return true.
PopAdvance ==
  /\ consPc = "advance"
  /\ tail' = Inc(tail)
  /\ consPc' = "idle" /\ popRet' = "true"
  /\ UNCHANGED <<buffer, prodVars, value>>

\* Mutation: only one index is reset.
ResetHead ==
  /\ prodPc = "idle" /\ consPc = "idle"
  /\ head' = 0
  /\ UNCHANGED <<buffer, tail, prodPc, pushArg, pushRet, consPc, value, popRet>>

\* reset() while neither thread is inside an operation (line 90).
Reset ==
  /\ prodPc = "idle" /\ consPc = "idle"
  /\ head' = 0 /\ tail' = 0
  /\ UNCHANGED <<buffer, prodPc, pushArg, pushRet, consPc, value, popRet>>

Next ==
  \/ \E v \in Values : PushEnter(v)
  \/ PushLoadTail \/ PushWrite \/ PushPublish
  \/ PopEnter \/ PopLoadHead \/ PopRead \/ PopAdvance
  \/ Reset

Spec == Init /\ [][Next]_vars
-----------------------------------------------------------------------------
Depth == Dist(head, tail)

\* The copies into and out of a slot (lines 67 and 83) never overlap.
NoSlotRace ==
  ~ (prodPc = "write" /\ consPc = "read" /\ Slot(head) = Slot(tail))

(***************************************************************************)
(* The inductive invariant: what each thread may conclude from where it is *)
(* in its call.  A reset() finds both threads outside, where they conclude *)
(* nothing.                                                                *)
(***************************************************************************)

\* Past its fullness test push() owns the slot at head, and from the copy on
\* that slot holds its argument.
ProducerInv ==
  /\ prodPc # "idle" => pushArg \in Values
  /\ prodPc \in {"write", "publish"} => Depth < Capacity
  /\ prodPc = "publish" => buffer[Slot(head)] = pushArg

\* Past its emptiness test pop() owns the slot at tail, and the tick it copied
\* is still the one in that slot.
ConsumerInv ==
  /\ consPc \in {"read", "advance"} => head # tail
  /\ consPc = "advance" => value = buffer[Slot(tail)]

RingInv ==
  /\ TypeOK
  /\ Depth <= Capacity
  /\ ProducerInv
  /\ ConsumerInv

\* The refinement mapping: the ring is the queue of the slots from tail on.
Queue == [i \in 1 .. Depth |-> buffer[Slot(tail + i - 1)]]

Abstract == INSTANCE Fifo WITH
  q          <- Queue,
  pushStatus <- IF prodPc # "idle" THEN "pending" ELSE pushRet,
  popStatus  <- IF consPc # "idle" THEN "pending" ELSE popRet,
  out        <- IF popRet = "true" /\ consPc = "idle" THEN value ELSE NoTick

\* The ring is a bounded FIFO queue that a reset() between operations empties;
\* without cached indices nothing of the time before the reset survives it.
IsResettableFifo == Abstract!ResettableSpec
=============================================================================
