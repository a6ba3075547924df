-------------------------------- MODULE MdpV2 --------------------------------
(***************************************************************************)
(* mdp_v2.1.cpp and mdp_v2.2.cpp: a producer thread, a ring and a consumer *)
(* thread that checks the sequence numbers.  The two programs differ in    *)
(* the ring they include and in what a tick carries besides its number.    *)
(***************************************************************************)
EXTENDS TickProducer, GapCheck

VARIABLES mainPc,    \* where main() is
          consPc,    \* where the consumer is
          taken      \* the consumer's `tick'

consVars == <<consPc, taken, expected, gaps, consumed>>
vars     == <<RUNNING, status, prodVars, ring, mainPc, consVars>>

TypeOK ==
  /\ ProducerTypeOK
  /\ mainPc \in {"spawnProducer", "spawnConsumer", "stats", "joinProducer", "joinConsumer"}
  /\ consPc \in {"unborn", "pin", "loop", "loopEmpty", "pop", "retry", "retryEmpty",
                 "check", "finished"}
  /\ taken \in Nat /\ expected \in Nat /\ gaps \in Nat /\ consumed \in Nat

Init ==
  /\ ProducerInit
  /\ mainPc = "spawnProducer"
  /\ consPc = "unborn" /\ taken = 0
  /\ GapInit
-----------------------------------------------------------------------------
Signal ==
  /\ status = "running" /\ RUNNING
  /\ RUNNING' = FALSE
  /\ UNCHANGED <<status, prodVars, ring, mainPc, consVars>>

Producer == ProducerStep /\ UNCHANGED <<mainPc, consVars>>

ConsumerPin ==
  /\ consPc = "pin"
  /\ \/ consPc' = "loop" /\ UNCHANGED status
     \/ status' = "failure" /\ UNCHANGED consPc
  /\ UNCHANGED <<taken, expected, gaps, consumed, ring>>

\* while (RUNNING || ring.empty())
ConsumerLoop ==
  /\ consPc = "loop"
  /\ consPc' = IF RUNNING THEN "pop" ELSE "loopEmpty"
  /\ UNCHANGED <<taken, expected, gaps, consumed, ring, status>>

ConsumerLoopEmpty ==
  /\ consPc = "loopEmpty"
  /\ consPc' = IF ring = <<>> THEN "pop" ELSE "finished"
  /\ UNCHANGED <<taken, expected, gaps, consumed, ring, status>>

\* while (!ring.pop (tick))
ConsumerPop ==
  /\ consPc = "pop"
  /\ IF ring # <<>>
       THEN taken' = Head(ring) /\ ring' = Tail(ring) /\ consPc' = "check"
       ELSE consPc' = "retry" /\ UNCHANGED <<taken, ring>>
  /\ UNCHANGED <<expected, gaps, consumed, status>>

\* Mutation: the consumer waits for a tick whatever the flag says.
ConsumerRetryAlways ==
  /\ consPc = "retry"
  /\ consPc' = "pop"
  /\ UNCHANGED <<taken, expected, gaps, consumed, ring, status>>

\* if (!RUNNING && ring.empty()) return
ConsumerRetry ==
  /\ consPc = "retry"
  /\ consPc' = IF RUNNING THEN "pop" ELSE "retryEmpty"
  /\ UNCHANGED <<taken, expected, gaps, consumed, ring, status>>

ConsumerRetryEmpty ==
  /\ consPc = "retryEmpty"
  /\ consPc' = IF ring = <<>> THEN "finished" ELSE "pop"
  /\ UNCHANGED <<taken, expected, gaps, consumed, ring, status>>

\* The gap check, then the count.
ConsumerCheck ==
  /\ consPc = "check"
  /\ CheckGap(taken)
  /\ consPc' = "loop"
  /\ UNCHANGED <<taken, ring, status>>

Consumer ==
  /\ status = "running"
  /\ \/ ConsumerPin \/ ConsumerLoop \/ ConsumerLoopEmpty \/ ConsumerPop
     \/ ConsumerRetry \/ ConsumerRetryEmpty \/ ConsumerCheck
  /\ UNCHANGED <<RUNNING, prodVars, mainPc>>

MainSpawnProducer ==
  /\ mainPc = "spawnProducer"
  /\ mainPc' = "spawnConsumer" /\ prodPc' = "pin"
  /\ UNCHANGED <<status, nextSeq, produced, consVars>>

MainSpawnConsumer ==
  /\ mainPc = "spawnConsumer"
  /\ mainPc' = "stats" /\ consPc' = "pin"
  /\ UNCHANGED <<status, prodVars, taken, expected, gaps, consumed>>

\* The stats loop, until RUNNING is cleared, then the joins.
MainStats ==
  /\ mainPc = "stats" /\ ~RUNNING
  /\ mainPc' = "joinProducer"
  /\ UNCHANGED <<status, prodVars, consVars>>

MainJoinProducer ==
  /\ mainPc = "joinProducer" /\ prodPc = "finished"
  /\ mainPc' = "joinConsumer"
  /\ UNCHANGED <<status, prodVars, consVars>>

MainJoinConsumer ==
  /\ mainPc = "joinConsumer" /\ consPc = "finished"
  /\ status' = "success"
  /\ UNCHANGED <<mainPc, prodVars, consVars>>

Main ==
  /\ status = "running"
  /\ \/ MainSpawnProducer \/ MainSpawnConsumer
     \/ MainStats \/ MainJoinProducer \/ MainJoinConsumer
  /\ UNCHANGED <<RUNNING, ring>>

Exited == status # "running" /\ UNCHANGED vars

Next == Signal \/ Producer \/ Consumer \/ Main \/ Exited

Spec == Init /\ [][Next]_vars

\* The operating system keeps scheduling the three threads.
FairSpec == Spec /\ WF_vars(Producer) /\ WF_vars(Consumer) /\ WF_vars(Main)
-----------------------------------------------------------------------------
\* After the signal the process ends, also from a full or an empty ring.
Terminates == ~RUNNING ~> status # "running"

\* "drain remaining ticks after shutdown" (mdp_v2.1.cpp:142, mdp_v2.2.cpp:120):
\* what is in the ring when both threads have ended is at most the one tick
\* the producer pushed after the consumer had left.
RingDrained == status = "success" => Len(ring) <= 1
-----------------------------------------------------------------------------
\* The consumer has counted what it has taken, and the tick it is about to
\* check is the last one taken.
Consumption ==
  /\ Popped = consumed + IF consPc = "check" THEN 1 ELSE 0
  /\ consPc = "check" => taken = FirstSeq + consumed

\* The threads do not exist before main() has started them.
Born ==
  /\ mainPc = "spawnProducer" => prodPc = "unborn"
  /\ mainPc \in {"spawnProducer", "spawnConsumer"} => consPc = "unborn"

\* The inductive invariant, for FirstSeq = 1.
IInv == TypeOK /\ Numbered /\ Born /\ Consumption /\ NoGapPrinted
=============================================================================
