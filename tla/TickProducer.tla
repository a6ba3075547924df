---------------------------- MODULE TickProducer ----------------------------
(***************************************************************************)
(* The producer thread of the earlier publishers mdp_v2.1.cpp, mdp_v2.2.cpp *)
(* and mdp_v3.cpp, the flag their signal handler clears, and the ring it   *)
(* pushes on (the bounded FIFO that ZRing implements).  The modules of the *)
(* programs add the other thread and main().                               *)
(***************************************************************************)
EXTENDS Integers, Sequences

CONSTANTS Capacity,  \* MAX_SIZE
          FirstSeq,  \* the first number MDG::generate gives: 1, in mdp_v3.cpp 0
          MaxSeq     \* bound: the last number it gives here

ASSUME ProducerAssumption ==
  /\ Capacity \in Nat \ {0}
  /\ FirstSeq \in Nat /\ MaxSeq \in Nat

VARIABLES RUNNING,
          status,    \* "running", or how the process ended
          prodPc,    \* where the producer is
          nextSeq,   \* the number generate() will give next
          produced,  \* the counter
          ring       \* the ticks in the ring, oldest first

prodVars == <<prodPc, nextSeq, produced>>

ProducerTypeOK ==
  /\ RUNNING \in BOOLEAN
  /\ status \in {"running", "success", "failure"}
  /\ prodPc \in {"unborn", "pin", "loop", "push", "full", "count", "finished"}
  /\ nextSeq \in Nat /\ produced \in Nat
  /\ ring \in Seq(Nat) /\ Len(ring) <= Capacity

ProducerInit ==
  /\ RUNNING = TRUE
  /\ status = "running"
  /\ prodPc = "unborn"
  /\ nextSeq = FirstSeq
  /\ produced = 0
  /\ ring = <<>>

\* The tick the producer is trying to push.
tick == nextSeq - 1

Pin ==
  /\ prodPc = "pin"
  /\ \/ prodPc' = "loop" /\ UNCHANGED status
     \/ status' = "failure" /\ UNCHANGED prodPc
  /\ UNCHANGED <<RUNNING, nextSeq, produced, ring>>

Generate ==
  /\ prodPc = "loop"
  /\ RUNNING
  /\ nextSeq <= MaxSeq
  /\ nextSeq' = nextSeq + 1
  /\ prodPc' = "push"
  /\ UNCHANGED <<RUNNING, status, produced, ring>>

Leave ==
  /\ prodPc = "loop"
  /\ ~RUNNING
  /\ prodPc' = "finished"
  /\ UNCHANGED <<RUNNING, status, nextSeq, produced, ring>>

Push ==
  /\ prodPc = "push"
  /\ IF Len(ring) < Capacity
       THEN ring' = Append(ring, tick) /\ prodPc' = "count"
       ELSE prodPc' = "full" /\ UNCHANGED ring
  /\ UNCHANGED <<RUNNING, status, nextSeq, produced>>

\* Mutation: a tick that finds the ring full is skipped.
RetrySkips ==
  /\ prodPc = "full"
  /\ prodPc' = "loop"
  /\ UNCHANGED <<RUNNING, status, nextSeq, produced, ring>>

Retry ==
  /\ prodPc = "full"
  /\ prodPc' = IF RUNNING THEN "push" ELSE "finished"
  /\ UNCHANGED <<RUNNING, status, nextSeq, produced, ring>>

\* Mutation: back to the push, not to the generator.
CountRepeats ==
  /\ prodPc = "count"
  /\ produced' = produced + 1
  /\ prodPc' = "push"
  /\ UNCHANGED <<RUNNING, status, nextSeq, ring>>

Count ==
  /\ prodPc = "count"
  /\ produced' = produced + 1
  /\ prodPc' = "loop"
  /\ UNCHANGED <<RUNNING, status, nextSeq, ring>>

ProducerStep ==
  /\ status = "running"
  /\ Pin \/ Generate \/ Leave \/ Push \/ Retry \/ Count

\* Pushed and not necessarily counted yet.
Pushed == produced + IF prodPc = "count" THEN 1 ELSE 0

\* Taken out of the ring.
Popped == Pushed - Len(ring)
-----------------------------------------------------------------------------
(***************************************************************************)
(* Parts of the inductive invariants of the programs.                      *)
(***************************************************************************)

\* The numbers are pushed from FirstSeq on without a gap, and the ring holds
\* the last of them.
Numbered ==
  /\ Len(ring) <= Pushed
  /\ prodPc \in {"unborn", "pin", "loop", "count"} => nextSeq = FirstSeq + Pushed
  /\ prodPc \in {"push", "full"} => nextSeq = FirstSeq + Pushed + 1
  /\ \A i \in 1 .. Len(ring) : ring[i] = FirstSeq + Popped + i - 1

\* What may be in the ring when the other thread has left: one tick, and then
\* the producer is on its way out.
LastTick ==
  /\ Len(ring) <= 1
  /\ ring # <<>> => prodPc \in {"count", "loop", "finished"}
=============================================================================
