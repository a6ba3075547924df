------------------------- MODULE MarketDataPublisher -------------------------
(***************************************************************************)
(* The publisher process of mdp_src/: main() of main.cpp starts a producer *)
(* thread that generates ticks and pushes them on the ring and a publisher *)
(* thread (publisher::run of publisher.cpp) that pops them in bursts,      *)
(* copies them into mbufs and hands these to the NIC; a signal clears      *)
(* g_RUNNING and main() joins the threads and takes the port down.         *)
(*                                                                         *)
(* The ring is the bounded FIFO that ZRing implements (ZRingProofs,        *)
(* theorem Refinement): push(), pop() and empty() take effect at their     *)
(* one load or store of the other thread's index, and are atomic here.     *)
(* A tick is its sequence number.  The model starts in main() where the    *)
(* signal handlers are installed.  Sleeps take an arbitrary time.          *)
(***************************************************************************)
EXTENDS Integers, Sequences

CONSTANTS Capacity,   \* RING_SIZE of main.cpp
          BurstSize,  \* cfg::BURST_SIZE
          NumMbufs,   \* cfg::NUM_MBUFS, the mbufs of tx_pool
          TxDesc,     \* cfg::TX_DESC, the descriptors of the TX queue
          PktSize,    \* cfg::PKT_SIZE
          DataRoom,   \* the bytes a fresh mbuf of tx_pool can take
          MaxSeq      \* bound: the generator stops at this sequence number

\* 65536, 32, 8192 and 4096 in the code; 106 bytes fit into 2048.
ASSUME SizeAssumption ==
  /\ Capacity \in Nat \ {0} /\ BurstSize \in Nat \ {0} /\ TxDesc \in Nat \ {0}
  /\ NumMbufs \in Nat /\ PktSize \in Nat /\ DataRoom \in Nat /\ MaxSeq \in Nat

\* The pool can fill the TX queue and one burst more.  dpdk_port.cpp:37 has a
\* stronger condition, commented out; its numbers satisfy both.
ASSUME PoolAssumption ==
  /\ NumMbufs >= TxDesc + BurstSize
  /\ PktSize <= DataRoom

VARIABLES
  g_RUNNING,       \* global_shutdown.cpp
  status,          \* "running", or how the process ended
  mainPc,          \* where main() is
  port,            \* external: the state of the Ethernet port
  prodPc,          \* where the producer thread is
  seq,             \* MDG::_seq, also the tick the producer has in hand
  produced_ticks,  \* main.cpp
  ring,            \* the ticks in the ring, oldest first
  pubPc,           \* where the publisher thread is
  ticks,           \* bc.ticks[0 .. count-1], until they are built
  pkts,            \* bc.pkts[0 .. built-1], each the tick in the frame
  sentNow,         \* the local `sent': how many of pkts the NIC accepted
  sent_pkts, dropped_pkts,  \* namespace counters
  pool,            \* the number of free mbufs in tx_pool
  txq,             \* external: the frames accepted and not yet transmitted
  done,            \* external: transmitted frames whose mbuf is not yet freed
  wire             \* external: the frames transmitted

mainVars == <<mainPc, port>>
prodVars == <<prodPc, seq, produced_ticks>>
pubVars  == <<pubPc, ticks, pkts, sentNow, sent_pkts, dropped_pkts, pool>>
nicVars  == <<txq, done, wire>>
vars     == <<g_RUNNING, status, mainVars, prodVars, ring, pubVars, nicVars>>

\* dpdk::init and dpdk::shutdown.
INSTANCE DpdkPort

Ticks == Nat

TypeOK ==
  /\ g_RUNNING \in BOOLEAN
  /\ status \in {"running", "success", "failure"}
  /\ mainPc \in InitPcs \cup ShutdownPcs \cup
               {"spawnProducer", "spawnPublisher", "stats", "joinProducer", "joinPublisher"}
  /\ port \in Ports
  /\ prodPc \in {"unborn", "pin", "loop", "push", "full", "count", "finished"}
  /\ seq \in Nat /\ produced_ticks \in Nat
  /\ ring \in Seq(Ticks) /\ Len(ring) <= Capacity
  /\ pubPc \in {"unborn", "pin", "loop", "drain", "pop", "build", "tx",
                "free", "countSent", "countDropped", "finished"}
  /\ ticks \in Seq(Ticks) /\ Len(ticks) <= BurstSize
  /\ pkts \in Seq(Ticks) /\ Len(pkts) <= BurstSize
  /\ sentNow \in 0 .. Len(pkts)
  /\ sent_pkts \in Nat /\ dropped_pkts \in Nat
  /\ pool \in Nat
  /\ txq \in Seq(Ticks) /\ done \in Nat /\ wire \in Seq(Ticks)

Init ==
  /\ g_RUNNING = TRUE
  /\ status = "running"
  /\ mainPc = "eal_init" /\ port = "none"
  /\ prodPc = "unborn" /\ seq = 1 /\ produced_ticks = 0
  /\ ring = <<>>
  /\ pubPc = "unborn" /\ ticks = <<>> /\ pkts = <<>> /\ sentNow = 0
  /\ sent_pkts = 0 /\ dropped_pkts = 0
  /\ pool = NumMbufs
  /\ txq = <<>> /\ done = 0 /\ wire = <<>>
-----------------------------------------------------------------------------
\* sig_handler, for SIGINT and SIGTERM, between any two steps.
Signal ==
  /\ status = "running"
  /\ g_RUNNING
  /\ g_RUNNING' = FALSE
  /\ UNCHANGED <<status, mainVars, prodVars, ring, pubVars, nicVars>>

\* exit(EXIT_FAILURE) or rte_exit: the process ends wherever its threads are.
Fail ==
  /\ status' = "failure"
  /\ UNCHANGED <<g_RUNNING, mainVars, prodVars, ring, pubVars, nicVars>>
-----------------------------------------------------------------------------
(***************************************************************************)
(* The producer thread, main.cpp:74.                                       *)
(***************************************************************************)

ProducerPin ==
  /\ prodPc = "pin"
  /\ \/ /\ prodPc' = "loop"
        /\ UNCHANGED <<g_RUNNING, status, mainVars, seq, produced_ticks, ring, pubVars, nicVars>>
     \/ Fail

\* while (g_RUNNING) gen.generate ()
ProducerGenerate ==
  /\ prodPc = "loop"
  /\ g_RUNNING
  /\ seq < MaxSeq
  /\ seq' = seq + 1
  /\ prodPc' = "push"
  /\ UNCHANGED <<g_RUNNING, status, mainVars, produced_ticks, ring, pubVars, nicVars>>

ProducerLeave ==
  /\ prodPc = "loop"
  /\ ~g_RUNNING
  /\ prodPc' = "finished"
  /\ UNCHANGED <<g_RUNNING, status, mainVars, seq, produced_ticks, ring, pubVars, nicVars>>

ProducerPush ==
  /\ prodPc = "push"
  /\ IF Len(ring) < Capacity
       THEN ring' = Append(ring, seq) /\ prodPc' = "count"
       ELSE prodPc' = "full" /\ UNCHANGED ring
  /\ UNCHANGED <<g_RUNNING, status, mainVars, seq, produced_ticks, pubVars, nicVars>>

\* The ring was full: give the tick up if the process is shutting down.
ProducerRetry ==
  /\ prodPc = "full"
  /\ prodPc' = IF g_RUNNING THEN "push" ELSE "finished"
  /\ UNCHANGED <<g_RUNNING, status, mainVars, seq, produced_ticks, ring, pubVars, nicVars>>

\* Mutation: back to the push, not to the generator.
ProducerCountRepeats ==
  /\ prodPc = "count"
  /\ produced_ticks' = produced_ticks + 1
  /\ prodPc' = "push"
  /\ UNCHANGED <<g_RUNNING, status, mainVars, seq, ring, pubVars, nicVars>>

\* After the sleep that paces the generator.
ProducerCount ==
  /\ prodPc = "count"
  /\ produced_ticks' = produced_ticks + 1
  /\ prodPc' = "loop"
  /\ UNCHANGED <<g_RUNNING, status, mainVars, seq, ring, pubVars, nicVars>>

Producer ==
  /\ status = "running"
  /\ \/ ProducerPin \/ ProducerGenerate \/ ProducerLeave
     \/ ProducerPush \/ ProducerRetry \/ ProducerCount
-----------------------------------------------------------------------------
(***************************************************************************)
(* The publisher thread, main.cpp:94 and publisher::run.                   *)
(***************************************************************************)

PublisherPin ==
  /\ pubPc = "pin"
  /\ \/ /\ pubPc' = "loop"
        /\ UNCHANGED <<g_RUNNING, status, mainVars, prodVars, ring, nicVars,
                       ticks, pkts, sentNow, sent_pkts, dropped_pkts, pool>>
     \/ Fail

\* while (g_RUNNING || ...
PublisherLoop ==
  /\ pubPc = "loop"
  /\ pubPc' = IF g_RUNNING THEN "pop" ELSE "drain"
  /\ UNCHANGED <<g_RUNNING, status, mainVars, prodVars, ring, nicVars,
                 ticks, pkts, sentNow, sent_pkts, dropped_pkts, pool>>

\* Mutation: the test is not negated.
PublisherDrainInverted ==
  /\ pubPc = "drain"
  /\ pubPc' = IF ring = <<>> THEN "pop" ELSE "finished"
  /\ UNCHANGED <<g_RUNNING, status, mainVars, prodVars, ring, nicVars,
                 ticks, pkts, sentNow, sent_pkts, dropped_pkts, pool>>

\* Mutation: the publisher stays until all that was produced has been sent.
PublisherDrainUntilSent ==
  /\ pubPc = "drain"
  /\ pubPc' = IF sent_pkts # produced_ticks THEN "pop" ELSE "finished"
  /\ UNCHANGED <<g_RUNNING, status, mainVars, prodVars, ring, nicVars,
                 ticks, pkts, sentNow, sent_pkts, dropped_pkts, pool>>

\* ... !ring.empty())
PublisherDrain ==
  /\ pubPc = "drain"
  /\ pubPc' = IF ring # <<>> THEN "pop" ELSE "finished"
  /\ UNCHANGED <<g_RUNNING, status, mainVars, prodVars, ring, nicVars,
                 ticks, pkts, sentNow, sent_pkts, dropped_pkts, pool>>

\* Mutation: the burst array is filled one tick too far.
PublisherPopUnbounded ==
  /\ pubPc = "pop"
  /\ IF Len(ticks) <= BurstSize /\ ring # <<>>
       THEN /\ ticks' = Append(ticks, Head(ring))
            /\ ring' = Tail(ring)
            /\ UNCHANGED pubPc
       ELSE pubPc' = "build" /\ UNCHANGED <<ticks, ring>>
  /\ UNCHANGED <<g_RUNNING, status, mainVars, prodVars, nicVars,
                 pkts, sentNow, sent_pkts, dropped_pkts, pool>>

\* Mutation: only full bursts are popped.
PublisherPopFullBursts ==
  /\ pubPc = "pop"
  /\ IF Len(ticks) < BurstSize /\ Len(ticks) + Len(ring) >= BurstSize
       THEN /\ ticks' = Append(ticks, Head(ring))
            /\ ring' = Tail(ring)
            /\ UNCHANGED pubPc
       ELSE pubPc' = "build" /\ UNCHANGED <<ticks, ring>>
  /\ UNCHANGED <<g_RUNNING, status, mainVars, prodVars, nicVars,
                 pkts, sentNow, sent_pkts, dropped_pkts, pool>>

\* One round of the loop that fills bc.ticks; it ends at a full burst or at
\* the first pop() that fails.
PublisherPop ==
  /\ pubPc = "pop"
  /\ IF Len(ticks) < BurstSize /\ ring # <<>>
       THEN /\ ticks' = Append(ticks, Head(ring))
            /\ ring' = Tail(ring)
            /\ UNCHANGED pubPc
       ELSE pubPc' = "build" /\ UNCHANGED <<ticks, ring>>
  /\ UNCHANGED <<g_RUNNING, status, mainVars, prodVars, nicVars,
                 pkts, sentNow, sent_pkts, dropped_pkts, pool>>

\* How many frames build_burst can make of count ticks: it stops at the first
\* mbuf it cannot allocate, or cannot extend by PKT_SIZE bytes (and frees).
Built(count) ==
  IF PktSize > DataRoom THEN 0 ELSE IF count <= pool THEN count ELSE pool

\* build_burst; the ticks it has not built are forgotten.  Only this thread
\* takes mbufs from the pool or returns them.
PublisherBuild ==
  /\ pubPc = "build"
  /\ LET built == Built(Len(ticks))
     IN  /\ pkts' = SubSeq(ticks, 1, built)
         /\ pool' = pool - built
         /\ pubPc' = IF built = 0 THEN "loop" ELSE "tx"
  /\ ticks' = <<>>
  /\ UNCHANGED <<g_RUNNING, status, mainVars, prodVars, ring, nicVars,
                 sentNow, sent_pkts, dropped_pkts>>

\* rte_eth_tx_burst.  External: the driver first frees the mbufs of some of
\* the frames that have left, then accepts as many of the new ones as it
\* wants and has descriptors for.
PublisherTx ==
  /\ pubPc = "tx"
  /\ \E freed \in 0 .. done, n \in 0 .. Len(pkts) :
       /\ Len(txq) + (done - freed) + n <= TxDesc
       /\ pool' = pool + freed
       /\ done' = done - freed
       /\ txq' = txq \o SubSeq(pkts, 1, n)
       /\ sentNow' = n
  /\ pubPc' = "free"
  /\ UNCHANGED <<g_RUNNING, status, mainVars, prodVars, ring, wire,
                 ticks, pkts, sent_pkts, dropped_pkts>>

\* Mutation: the loop starts one frame too late.
PublisherFreeLate ==
  /\ pubPc = "free"
  /\ pool' = IF sentNow < Len(pkts) THEN pool + (Len(pkts) - sentNow - 1) ELSE pool
  /\ pubPc' = "countSent"
  /\ UNCHANGED <<g_RUNNING, status, mainVars, prodVars, ring, nicVars,
                 ticks, pkts, sentNow, sent_pkts, dropped_pkts>>

\* The frames the NIC did not accept go back to the pool.
PublisherFree ==
  /\ pubPc = "free"
  /\ pool' = pool + (Len(pkts) - sentNow)
  /\ pubPc' = "countSent"
  /\ UNCHANGED <<g_RUNNING, status, mainVars, prodVars, ring, nicVars,
                 ticks, pkts, sentNow, sent_pkts, dropped_pkts>>

\* Mutation: the frames built are counted, not those accepted.
PublisherCountBuilt ==
  /\ pubPc = "countSent"
  /\ sent_pkts' = sent_pkts + Len(pkts)
  /\ pubPc' = "countDropped"
  /\ UNCHANGED <<g_RUNNING, status, mainVars, prodVars, ring, nicVars,
                 ticks, pkts, sentNow, dropped_pkts, pool>>

PublisherCountSent ==
  /\ pubPc = "countSent"
  /\ sent_pkts' = sent_pkts + sentNow
  /\ pubPc' = "countDropped"
  /\ UNCHANGED <<g_RUNNING, status, mainVars, prodVars, ring, nicVars,
                 ticks, pkts, sentNow, dropped_pkts, pool>>

\* Mutation: a burst of which the NIC accepted a part counts as sent.
PublisherCountDroppedWhole ==
  /\ pubPc = "countDropped"
  /\ dropped_pkts' = dropped_pkts + IF sentNow = 0 THEN Len(pkts) ELSE 0
  /\ pkts' = <<>> /\ sentNow' = 0
  /\ pubPc' = "loop"
  /\ UNCHANGED <<g_RUNNING, status, mainVars, prodVars, ring, nicVars,
                 ticks, sent_pkts, pool>>

\* The last statement of the round; its burst is not looked at again.
PublisherCountDropped ==
  /\ pubPc = "countDropped"
  /\ dropped_pkts' = dropped_pkts + (Len(pkts) - sentNow)
  /\ pkts' = <<>> /\ sentNow' = 0
  /\ pubPc' = "loop"
  /\ UNCHANGED <<g_RUNNING, status, mainVars, prodVars, ring, nicVars,
                 ticks, sent_pkts, pool>>

Publisher ==
  /\ status = "running"
  /\ \/ PublisherPin \/ PublisherLoop \/ PublisherDrain \/ PublisherPop
     \/ PublisherBuild \/ PublisherTx \/ PublisherFree
     \/ PublisherCountSent \/ PublisherCountDropped

\* External: the NIC puts the oldest accepted frame on the wire.
NicTransmit ==
  /\ status = "running"
  /\ port = "started"
  /\ txq # <<>>
  /\ wire' = Append(wire, Head(txq))
  /\ txq' = Tail(txq)
  /\ done' = done + 1
  /\ UNCHANGED <<g_RUNNING, status, mainVars, prodVars, ring, pubVars>>
-----------------------------------------------------------------------------
(***************************************************************************)
(* main().                                                                 *)
(***************************************************************************)

MainInit ==
  /\ init("spawnProducer")
  /\ UNCHANGED <<g_RUNNING, prodVars, ring, pubVars, nicVars>>

MainSpawnProducer ==
  /\ mainPc = "spawnProducer"
  /\ mainPc' = "spawnPublisher"
  /\ prodPc' = "pin"
  /\ UNCHANGED <<g_RUNNING, status, port, seq, produced_ticks, ring, pubVars, nicVars>>

MainSpawnPublisher ==
  /\ mainPc = "spawnPublisher"
  /\ mainPc' = "stats"
  /\ pubPc' = "pin"
  /\ UNCHANGED <<g_RUNNING, status, port, prodVars, ring, nicVars,
                 ticks, pkts, sentNow, sent_pkts, dropped_pkts, pool>>

\* The stats loop reads and prints; it ends when it sees g_RUNNING cleared.
MainStats ==
  /\ mainPc = "stats"
  /\ ~g_RUNNING
  /\ mainPc' = "joinProducer"
  /\ UNCHANGED <<g_RUNNING, status, port, prodVars, ring, pubVars, nicVars>>

MainJoinProducer ==
  /\ mainPc = "joinProducer"
  /\ prodPc = "finished"
  /\ mainPc' = "joinPublisher"
  /\ UNCHANGED <<g_RUNNING, status, port, prodVars, ring, pubVars, nicVars>>

\* Mutation: main does not wait for the publisher.
MainDetachPublisher ==
  /\ mainPc = "joinPublisher"
  /\ mainPc' = "dev_stop"
  /\ UNCHANGED <<g_RUNNING, status, port, prodVars, ring, pubVars, nicVars>>

MainJoinPublisher ==
  /\ mainPc = "joinPublisher"
  /\ pubPc = "finished"
  /\ mainPc' = "dev_stop"
  /\ UNCHANGED <<g_RUNNING, status, port, prodVars, ring, pubVars, nicVars>>

MainShutdown ==
  /\ shutdown
  /\ UNCHANGED <<g_RUNNING, prodVars, ring, pubVars, nicVars>>

Main ==
  /\ status = "running"
  /\ \/ MainInit \/ MainSpawnProducer \/ MainSpawnPublisher \/ MainStats
     \/ MainJoinProducer \/ MainJoinPublisher \/ MainShutdown

\* The process is gone.
Exited == status # "running" /\ UNCHANGED vars

Next == Signal \/ Producer \/ Publisher \/ NicTransmit \/ Main \/ Exited

Spec == Init /\ [][Next]_vars

\* The operating system keeps scheduling the three threads.  Nothing is
\* assumed of the NIC (the link may be down) or of the signal.
FairSpec == Spec /\ WF_vars(Producer) /\ WF_vars(Publisher) /\ WF_vars(Main)
-----------------------------------------------------------------------------
(***************************************************************************)
(* Properties.                                                             *)
(***************************************************************************)

\* The frames build_burst has made that the NIC has not been offered yet.
Offered == IF pubPc = "tx" THEN pkts ELSE <<>>

\* The tick the producer has generated and not pushed.
InHand == IF prodPc \in {"push", "full"} THEN <<seq>> ELSE <<>>

\* The places a tick passes through from the generator to the wire, the
\* furthest first.
Path == <<wire, txq, Offered, ticks, ring, InHand>>

\* Ticks reach the wire in the order of their sequence numbers and at most
\* once, over partial bursts, refused frames, full rings and the drain at
\* shutdown: along the whole path the numbers strictly increase.
PathInOrder ==
  \A a \in 1 .. 6, b \in 1 .. 6 :
    \A i \in 1 .. Len(Path[a]), j \in 1 .. Len(Path[b]) :
      a < b \/ (a = b /\ i < j) => Path[a][i] < Path[b][j]

\* Mbufs the publisher owns: allocated by build_burst, neither accepted by the
\* NIC nor freed yet (publisher.cpp:200).
Owned ==
  CASE pubPc = "tx"   -> Len(pkts)
    [] pubPc = "free" -> Len(pkts) - sentNow
    [] OTHER          -> 0

\* No mbuf is leaked or freed twice, and the TX queue never holds more frames
\* than it has descriptors.
MbufsConserved ==
  /\ pool + Owned + Len(txq) + done = NumMbufs
  /\ Len(txq) + done <= TxDesc

\* Because tx_burst is the only place that takes transmitted mbufs back, a
\* pool that ran dry would stay dry: build_burst would build nothing and
\* `continue' past tx_burst for ever.  The pool never runs dry.
PoolCoversBurst == pubPc = "build" => Built(Len(ticks)) = Len(ticks)

\* Ticks popped from the ring and not yet in a counter.
InFlight ==
  CASE pubPc \in {"pop", "build"}              -> Len(ticks)
    [] pubPc \in {"tx", "free", "countSent"}   -> Len(pkts)
    [] pubPc = "countDropped"                  -> Len(pkts) - sentNow
    [] OTHER                                   -> 0

Pushed == produced_ticks + IF prodPc = "count" THEN 1 ELSE 0

\* Accepted by the NIC and not yet counted.
Uncounted == IF pubPc \in {"free", "countSent"} THEN sentNow ELSE 0

PushedAccounted == Pushed = Len(ring) + InFlight + sent_pkts + dropped_pkts
SentAccounted   == sent_pkts + Uncounted = Len(wire) + Len(txq)

\* Every tick pushed is in the ring, in the publisher's burst, or in exactly
\* one of the two counters the stats loop prints: none vanishes.  What is
\* counted as sent is on the wire or still in the TX queue, where
\* dpdk::shutdown leaves at most TX_DESC frames (dpdk_port.cpp:181).
TicksAccounted == PushedAccounted /\ SentAccounted

\* A receiver that sees the sequence jump misses no more ticks than
\* dropped_pkts has counted when the later frame leaves; the generator's
\* first number is 2.
GapsAreCounted ==
  wire # <<>> => wire[Len(wire)] - 1 - Len(wire) <= dropped_pkts

\* The producer may have read g_RUNNING before the signal and push after the
\* publisher has found the ring empty and left: one tick, not more.
StrandedAtMostOne == pubPc = "finished" => Len(ring) <= 1

\* The threads run only while the port is up: main() starts them when
\* dpdk::init has returned, also if a signal came during its three seconds'
\* sleep, and takes the port down after both have ended.
PortOutlivesThreads ==
  port # "started" => {prodPc, pubPc} \subseteq {"unborn", "finished"}

\* After the signal the process ends, whatever the NIC does: also if the link
\* is down, the TX queue full and the ring full.
Terminates == ~g_RUNNING ~> status # "running"

\* No tick waits in the ring for ever; only the end of the process leaves one.
InRing(t) == \E i \in 1 .. Len(ring) : ring[i] = t
TicksLeaveRing == \A t \in 2 .. MaxSeq : InRing(t) ~> ~InRing(t) \/ status # "running"
(***************************************************************************)
(* The inductive invariant: what holds where each thread is.               *)
(***************************************************************************)

\* The publisher's locals are in use only in their part of the round.
BurstPhases ==
  /\ pubPc \notin {"pop", "build"} => ticks = <<>>
  /\ pubPc \notin {"tx", "free", "countSent", "countDropped"} => pkts = <<>>
  /\ pubPc \notin {"free", "countSent", "countDropped"} => sentNow = 0

\* A thread runs once main() has started it; main() is past a join only if
\* that thread has ended.
Joined ==
  /\ mainPc \in InitPcs \cup {"spawnProducer"} => prodPc = "unborn"
  /\ mainPc \in InitPcs \cup {"spawnProducer", "spawnPublisher"} => pubPc = "unborn"
  /\ mainPc \in ShutdownPcs \cup {"joinPublisher"} => prodPc = "finished"
  /\ mainPc \in ShutdownPcs => pubPc = "finished"
  /\ port # "started" => mainPc \in (InitPcs \ {"link_get"}) \cup ShutdownPcs

\* The publisher leaves after the signal, when it sees the ring empty; from
\* then on the producer can push the tick it has in hand and no other.
Draining ==
  /\ pubPc \in {"drain", "finished"} => ~g_RUNNING
  /\ pubPc = "finished" =>
       Len(ring) + (IF prodPc \in {"push", "full"} THEN 1 ELSE 0) <= 1

\* The numbers of the ticks are determined by the counters.  From the
\* generator to tx_burst no number is missing; a frame accepted later can
\* only be shifted by the frames refused before.
Numbering ==
  /\ seq \in Pushed + 1 .. Pushed + 2
  /\ prodPc \in {"push", "full"} => seq = Pushed + 2
  /\ prodPc \notin {"push", "full", "finished"} => seq = Pushed + 1
  /\ \A i \in 1 .. Len(ring) : ring[i] = Pushed + 1 - Len(ring) + i
  /\ \A i \in 1 .. Len(ticks) : ticks[i] = sent_pkts + dropped_pkts + 1 + i
  /\ \A i \in 1 .. Len(Offered) : Offered[i] = sent_pkts + dropped_pkts + 1 + i
  /\ \A i \in 1 .. Len(wire) : wire[i] <= i + 1 + dropped_pkts
  /\ \A i \in 1 .. Len(txq) : txq[i] <= Len(wire) + i + 1 + dropped_pkts

\* The frames on the wire and in the TX queue are in order.
Increasing(s) == \A i \in 1 .. Len(s), j \in 1 .. Len(s) : i < j => s[i] < s[j]
SentIncreasing ==
  /\ Increasing(wire) /\ Increasing(txq)
  /\ \A i \in 1 .. Len(wire), j \in 1 .. Len(txq) : wire[i] < txq[j]

IInv ==
  /\ TypeOK
  /\ BurstPhases
  /\ MbufsConserved
  /\ TicksAccounted
  /\ Joined
  /\ Draining
  /\ Numbering
  /\ SentIncreasing
=============================================================================
