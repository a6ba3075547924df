------------------------------ MODULE ZRingSize ------------------------------
(***************************************************************************)
(* z_ring::size() as the stats loop of main.cpp:122 calls it, on a third   *)
(* thread while the producer and the consumer run.  It loads both indices, *)
(* in an order the language leaves to the compiler, and subtracts.         *)
(***************************************************************************)
EXTENDS ZRing

VARIABLES statPc,   \* where the stats thread is in size()
          statHead, \* its load of head_
          statTail  \* its load of tail_

statVars == <<statPc, statHead, statTail>>

SizeInit == Init /\ statPc = "idle" /\ statHead = 0 /\ statTail = 0

LoadHead ==
  /\ statPc \in {"idle", "tail"}
  /\ statHead' = head
  /\ statPc' = IF statPc = "idle" THEN "head" ELSE "done"
  /\ UNCHANGED <<vars, statTail>>

LoadTail ==
  /\ statPc \in {"idle", "head"}
  /\ statTail' = tail
  /\ statPc' = IF statPc = "idle" THEN "tail" ELSE "done"
  /\ UNCHANGED <<vars, statHead>>

\* The value is printed; the thread sleeps for a second.
Printed ==
  /\ statPc = "done"
  /\ statPc' = "idle"
  /\ UNCHANGED <<vars, statHead, statTail>>

SizeNext ==
  \/ Next /\ UNCHANGED statVars
  \/ LoadHead \/ LoadTail \/ Printed

SizeSpec == SizeInit /\ [][SizeNext]_<<vars, statVars>>

\* The printed depth is a number of ticks the ring can hold: mdp_v2.1.cpp:4
\* explains it as the number of slots that need to be consumed.
SizeIsADepth == statPc = "done" => Dist(statHead, statTail) <= Capacity
=============================================================================
