---------------------------- MODULE FeedHandlerV2 ----------------------------
(***************************************************************************)
(* feed_handler_v2.cpp: a receiver thread polls the NIC in bursts, tracks  *)
(* the number of each tick and frees the mbufs.  Its publisher is main.cpp, *)
(* whose first tick is number 2.  The model starts where main() has        *)
(* installed the signal handlers; RUNNING is g_RUNNING.                    *)
(***************************************************************************)
EXTENDS FeedReceiver

CONSTANTS BurstSize,  \* BURST_SIZE, 32
          NumMbufs    \* cfg::NUM_MBUFS of dpdk_port.cpp, 8192: the rx pool

\* QueueLen is cfg::RX_DESC, 1024: the pool can fill the RX queue and a burst.
ASSUME RxPoolAssumption ==
  /\ BurstSize \in Nat \ {0}
  /\ NumMbufs \in Nat /\ NumMbufs >= QueueLen + BurstSize

VARIABLES pkts,  \* the frames of the burst that are not yet handled
          pool,  \* the number of free mbufs in rx_pool
          port   \* external: the state of the Ethernet port

INSTANCE DpdkPort

vars == <<baseVars, pkts, pool, port>>

TypeOK ==
  /\ BaseTypeOK
  /\ mainPc \in InitPcs \cup ThreadPcs \cup ShutdownPcs
  /\ rcvPc \in {"unborn", "pin", "loop", "rx", "count", "frames", "finished"}
  /\ pkts \in Seq(Numbers \cup {Other}) /\ Len(pkts) <= BurstSize
  /\ pool \in Nat
  /\ port \in Ports

Init ==
  /\ BaseInit /\ mainPc = "eal_init" /\ port = "none"
  /\ pkts = <<>> /\ pool = NumMbufs
-----------------------------------------------------------------------------
Signal ==
  /\ status = "running" /\ RUNNING
  /\ RUNNING' = FALSE
  /\ UNCHANGED <<status, mainPc, repPc, prev_received, rcvPc, received,
                 trackVars, netVars, pkts, pool, port>>

\* External: the NIC puts a frame into a free mbuf of the RX queue, from the
\* start of the port on.
NicReceive ==
  /\ status = "running" /\ port = "started"
  /\ pool > 0
  /\ \E f \in NextFrames : Arrive(f)
  /\ pool' = pool - 1
  /\ UNCHANGED <<pkts, port>>

ReceiverPin ==
  /\ rcvPc = "pin"
  /\ \/ rcvPc' = "loop" /\ UNCHANGED status
     \/ status' = "failure" /\ UNCHANGED rcvPc
  /\ UNCHANGED <<received, trackVars, netVars, pkts, pool>>

\* while (g_RUNNING)
ReceiverLoop ==
  /\ rcvPc = "loop"
  /\ rcvPc' = IF RUNNING THEN "rx" ELSE "finished"
  /\ UNCHANGED <<status, received, trackVars, netVars, pkts, pool>>

\* Mutation: the receiver polls until there is a frame.
ReceiverRxWaits ==
  /\ rcvPc = "rx"
  /\ queue # <<>>
  /\ \E n \in 1 .. BurstSize :
       /\ n <= Len(queue)
       /\ pkts' = SubSeq(queue, 1, n)
       /\ queue' = SubSeq(queue, n + 1, Len(queue))
       /\ rcvPc' = "count"
  /\ UNCHANGED <<status, received, trackVars, arrived, arrivals, pool>>

\* Mutation: the receiver waits for a full burst.
ReceiverRxFullBurst ==
  /\ rcvPc = "rx"
  /\ IF Len(queue) < BurstSize
       THEN rcvPc' = "loop" /\ UNCHANGED <<pkts, queue>>
       ELSE /\ pkts' = SubSeq(queue, 1, BurstSize)
            /\ queue' = SubSeq(queue, BurstSize + 1, Len(queue))
            /\ rcvPc' = "count"
  /\ UNCHANGED <<status, received, trackVars, arrived, arrivals, pool>>

\* rte_eth_rx_burst: some of the frames that are there, at least one if any
\* is; `continue' if there is none.
ReceiverRx ==
  /\ rcvPc = "rx"
  /\ IF queue = <<>>
       THEN rcvPc' = "loop" /\ UNCHANGED <<pkts, queue>>
       ELSE \E n \in 1 .. BurstSize :
              /\ n <= Len(queue)
              /\ pkts' = SubSeq(queue, 1, n)
              /\ queue' = SubSeq(queue, n + 1, Len(queue))
              /\ rcvPc' = "count"
  /\ UNCHANGED <<status, received, trackVars, arrived, arrivals, pool>>

\* Mutation: one packet per burst.
ReceiverCountOne ==
  /\ rcvPc = "count"
  /\ received' = received + 1
  /\ rcvPc' = "frames"
  /\ UNCHANGED <<status, trackVars, netVars, pkts, pool>>

ReceiverCount ==
  /\ rcvPc = "count"
  /\ received' = received + Len(pkts)
  /\ rcvPc' = "frames"
  /\ UNCHANGED <<status, trackVars, netVars, pkts, pool>>

\* Mutation: `continue' without the free.
ReceiverShortLeaks ==
  /\ rcvPc = "frames" /\ pkts # <<>> /\ Head(pkts) = Other
  /\ pkts' = Tail(pkts)
  /\ UNCHANGED <<rcvPc, status, received, trackVars, netVars, pool>>

\* A frame too short for a tick is freed and skipped.
ReceiverShort ==
  /\ rcvPc = "frames" /\ pkts # <<>> /\ Head(pkts) = Other
  /\ pkts' = Tail(pkts)
  /\ pool' = pool + 1
  /\ UNCHANGED <<rcvPc, status, received, trackVars, netVars>>

ReceiverTick ==
  /\ rcvPc = "frames" /\ pkts # <<>> /\ Head(pkts) # Other
  /\ CountMissing(Head(pkts)) /\ Remember(Head(pkts))
  /\ pkts' = Tail(pkts)
  /\ pool' = pool + 1
  /\ UNCHANGED <<rcvPc, status, received, netVars>>

ReceiverNextBurst ==
  /\ rcvPc = "frames" /\ pkts = <<>>
  /\ rcvPc' = "loop"
  /\ UNCHANGED <<status, received, trackVars, netVars, pkts, pool>>

Receiver ==
  /\ status = "running"
  /\ \/ ReceiverPin \/ ReceiverLoop \/ ReceiverRx \/ ReceiverCount
     \/ ReceiverShort \/ ReceiverTick \/ ReceiverNextBurst
  /\ UNCHANGED <<RUNNING, mainPc, repPc, prev_received, port>>

Report == Reporter /\ UNCHANGED <<pkts, pool, port>>

\* dpdk::init before the threads start, dpdk::shutdown after they have ended.
MainPort ==
  /\ status = "running"
  /\ init("spawnReceiver") \/ shutdown
  /\ UNCHANGED <<RUNNING, repPc, prev_received, rcvPc, received, trackVars,
                 netVars, pkts, pool>>

Main == MainPort \/ (MainThreads("dev_stop") /\ UNCHANGED <<pkts, pool, port>>)

Exited == status # "running" /\ UNCHANGED vars

Next == Signal \/ NicReceive \/ Receiver \/ Report \/ Main \/ Exited

Spec == Init /\ [][Next]_vars

\* The operating system keeps scheduling the three threads; nothing is assumed
\* of the network.
FairSpec == Spec /\ WF_vars(Receiver) /\ WF_vars(Report) /\ WF_vars(Main)
-----------------------------------------------------------------------------
\* Each mbuf is in the pool, in the RX queue or in the burst: short frames and
\* ticks are freed once each.
MbufsConserved == pool + Len(queue) + Len(pkts) = NumMbufs

\* The NIC never has to refuse a frame for want of an mbuf.
RxNeverStarves == Len(queue) < QueueLen => pool > 0

\* After the signal the process ends, also on a silent network.
Terminates == ~RUNNING ~> status # "running"

\* A tick in the RX queue is tracked without waiting for others.
TicksAreTracked == \A n \in Numbers : n \in arrived ~> n \in seen \/ ~RUNNING \/ status # "running"
-----------------------------------------------------------------------------
(***************************************************************************)
(* The inductive invariant.                                                *)
(***************************************************************************)

\* The burst is in use only while it is handled, and `received' has counted
\* every tick before it is tracked.
BurstCounted ==
  /\ rcvPc \notin {"count", "frames"} => pkts = <<>>
  /\ tracked + (IF rcvPc = "count" THEN 0 ELSE Len(pkts)) <= received

\* The ticks on their way to the receiver are numbers that have arrived.
InArrived(s) == \A i \in 1 .. Len(s) : s[i] # Other => s[i] \in arrived

\* The receiver runs only when main() has started it.
Started == mainPc \in InitPcs \cup {"spawnReceiver"} => rcvPc = "unborn"

\* While no tick comes twice, and while they come in order, none is a repeat.
NoRepeat == ~Duplicates \/ orderly => tracked = Cardinality(seen)

\* No number is on its way twice, or after it has been tracked.
InFlight == pkts \o queue

FreshInFlight ==
  ~Duplicates =>
    \A i \in 1 .. Len(InFlight) : InFlight[i] # Other =>
      /\ InFlight[i] \notin seen
      /\ \A j \in 1 .. i - 1 : InFlight[j] # InFlight[i]

IInv ==
  /\ TypeOK
  /\ Started
  /\ MbufsConserved
  /\ BurstCounted
  /\ InArrived(queue) /\ InArrived(pkts)
  /\ Balance
  /\ NoRepeat
  /\ FreshInFlight
=============================================================================
