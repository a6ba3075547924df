---------------------- MODULE MarketDataPublisherProofs ----------------------
(***************************************************************************)
(* Theorems about MarketDataPublisher, for every ring, burst, pool and     *)
(* queue size that satisfies its assumptions.                              *)
(***************************************************************************)
EXTENDS MarketDataPublisher, SequenceTheorems, TLAPS

LEMMA Sizes ==
  /\ Capacity \in Nat /\ Capacity >= 1
  /\ BurstSize \in Nat /\ BurstSize >= 1
  /\ TxDesc \in Nat /\ NumMbufs \in Nat /\ NumMbufs >= TxDesc + BurstSize
  /\ PktSize \in Nat /\ DataRoom \in Nat /\ PktSize <= DataRoom
  BY SizeAssumption, PoolAssumption

\* What Append, Tail and SubSeq do to the length and the type of a sequence
\* of ticks.
LEMMA AppendTick ==
  ASSUME NEW s \in Seq(Ticks), NEW t \in Ticks
  PROVE  /\ Append(s, t) \in Seq(Ticks)
         /\ Len(Append(s, t)) = Len(s) + 1
  BY AppendProperties

LEMMA TailTick ==
  ASSUME NEW s \in Seq(Ticks), s # <<>>
  PROVE  /\ Head(s) \in Ticks /\ Tail(s) \in Seq(Ticks)
         /\ Len(s) >= 1 /\ Len(Tail(s)) = Len(s) - 1
  BY HeadTailProperties, EmptySeq

LEMMA PrefixTick ==
  ASSUME NEW s \in Seq(Ticks), NEW n \in 0 .. Len(s)
  PROVE  /\ SubSeq(s, 1, n) \in Seq(Ticks)
         /\ Len(SubSeq(s, 1, n)) = n
<1>1. Len(s) \in Nat /\ n \in Nat
  BY LenProperties
<1>2. \A i \in 1 .. n : s[i] \in Ticks
  BY <1>1, ElementOfSeq
<1> QED
  BY <1>1, <1>2, SubSeqProperties

\* build_burst makes a frame of each tick as long as the pool lasts.
LEMMA BuiltRange ==
  ASSUME NEW n \in Nat, pool \in Nat
  PROVE  /\ Built(n) \in 0 .. n /\ Built(n) <= pool
         /\ n <= pool => Built(n) = n
  BY Sizes DEF Built
-----------------------------------------------------------------------------
(***************************************************************************)
(* Type correctness, one lemma per thread.                                 *)
(***************************************************************************)

LEMMA TypeInit == Init => TypeOK
<1> SUFFICES ASSUME Init PROVE TypeOK
  OBVIOUS
<1>1. <<>> \in Seq(Ticks) /\ Len(<<>>) = 0
  BY EmptySeq
<1> QED
  BY <1>1, Sizes DEF Init, TypeOK, InitPcs, Ports

LEMMA TypeProducer == TypeOK /\ Producer => TypeOK'
<1> SUFFICES ASSUME TypeOK, Producer PROVE TypeOK'
  OBVIOUS
<1> USE DEF TypeOK, mainVars, pubVars, nicVars, prodVars
<1>1. CASE ProducerPin
  BY <1>1 DEF ProducerPin, Fail
<1>2. CASE ProducerGenerate
  BY <1>2 DEF ProducerGenerate
<1>3. CASE ProducerLeave
  BY <1>3 DEF ProducerLeave
<1>4. CASE ProducerPush
  <2>1. seq \in Ticks /\ Len(ring) \in Nat
    BY LenProperties DEF Ticks
  <2>2. CASE Len(ring) < Capacity
    <3>1. ring' \in Seq(Ticks) /\ Len(ring') = Len(ring) + 1
      BY <1>4, <2>1, <2>2, AppendTick DEF ProducerPush
    <3>2. Len(ring') <= Capacity
      BY <2>1, <2>2, <3>1, Sizes
    <3> QED
      BY <1>4, <2>2, <3>1, <3>2 DEF ProducerPush
  <2>3. CASE ~(Len(ring) < Capacity)
    BY <1>4, <2>3 DEF ProducerPush
  <2> QED
    BY <2>2, <2>3
<1>5. CASE ProducerRetry
  BY <1>5 DEF ProducerRetry
<1>6. CASE ProducerCount
  BY <1>6 DEF ProducerCount
<1> QED
  BY <1>1, <1>2, <1>3, <1>4, <1>5, <1>6 DEF Producer

\* build_burst relies on sentNow being 0, as BurstPhases says, the loop that
\* frees on sentNow not exceeding the burst.
LEMMA TypePublisher == TypeOK /\ BurstPhases /\ Publisher => TypeOK'
<1> SUFFICES ASSUME TypeOK, BurstPhases, Publisher PROVE TypeOK'
  OBVIOUS
<1> USE DEF TypeOK, mainVars, pubVars, nicVars, prodVars
<1>0. /\ Len(ticks) \in Nat /\ Len(pkts) \in Nat /\ Len(ring) \in Nat
      /\ <<>> \in Seq(Ticks) /\ Len(<<>>) = 0
  BY LenProperties, EmptySeq
<1>1. CASE PublisherPin
  BY <1>1 DEF PublisherPin, Fail
<1>2. CASE PublisherLoop
  BY <1>2 DEF PublisherLoop
<1>3. CASE PublisherDrain
  BY <1>3 DEF PublisherDrain
<1>4. CASE PublisherPop
  <2>1. CASE Len(ticks) < BurstSize /\ ring # <<>>
    <3>1. /\ Head(ring) \in Ticks /\ Tail(ring) \in Seq(Ticks)
          /\ Len(Tail(ring)) = Len(ring) - 1
      BY <2>1, TailTick
    <3>2. /\ Append(ticks, Head(ring)) \in Seq(Ticks)
          /\ Len(Append(ticks, Head(ring))) = Len(ticks) + 1
      BY <3>1, AppendTick
    <3>a. Len(ticks) + 1 <= BurstSize /\ Len(ring) - 1 <= Capacity
      BY <1>0, <2>1, Sizes
    <3>b. ticks' = Append(ticks, Head(ring)) /\ ring' = Tail(ring)
      BY <1>4, <2>1 DEF PublisherPop
    <3>3. ticks' \in Seq(Ticks) /\ Len(ticks') <= BurstSize
      BY <3>2, <3>a, <3>b
    <3>4. ring' \in Seq(Ticks) /\ Len(ring') <= Capacity
      BY <3>1, <3>a, <3>b
    <3> QED
      BY <1>4, <3>3, <3>4 DEF PublisherPop
  <2>2. CASE ~(Len(ticks) < BurstSize /\ ring # <<>>)
    BY <1>4, <2>2 DEF PublisherPop
  <2> QED
    BY <2>1, <2>2
<1>5. CASE PublisherBuild
  <2> DEFINE built == Built(Len(ticks))
  <2>1. built \in 0 .. Len(ticks) /\ built <= pool
    BY <1>0, BuiltRange
  <2>2. SubSeq(ticks, 1, built) \in Seq(Ticks) /\ Len(SubSeq(ticks, 1, built)) = built
    BY <2>1, PrefixTick
  <2>3. /\ pkts' = SubSeq(ticks, 1, built) /\ pool' = pool - built
        /\ pubPc' \in {"loop", "tx"} /\ ticks' = <<>>
        /\ UNCHANGED <<g_RUNNING, status, mainVars, prodVars, ring, nicVars,
                       sentNow, sent_pkts, dropped_pkts>>
    BY <1>5 DEF PublisherBuild
  <2>4. sentNow = 0
    BY <1>5 DEF PublisherBuild, BurstPhases
  <2> HIDE DEF built
  <2>5. pkts' \in Seq(Ticks) /\ Len(pkts') = built /\ built \in Nat /\ built <= BurstSize
    BY <1>0, <2>1, <2>2, <2>3, Sizes
  <2>6. pool' \in Nat
    BY <2>1, <2>3, <2>5
  <2> QED
    BY <1>0, <2>3, <2>4, <2>5, <2>6, Sizes
<1>6. CASE PublisherTx
  <2>1. PICK freed \in 0 .. done, n \in 0 .. Len(pkts) :
          /\ pool' = pool + freed
          /\ done' = done - freed
          /\ txq' = txq \o SubSeq(pkts, 1, n)
          /\ sentNow' = n
    BY <1>6 DEF PublisherTx
  <2>2. txq' \in Seq(Ticks)
    BY <2>1, PrefixTick, ConcatProperties
  <2>3. pool' \in Nat /\ done' \in Nat
    BY <2>1
  <2> QED
    BY <1>6, <2>1, <2>2, <2>3 DEF PublisherTx
<1>7. CASE PublisherFree
  BY <1>0, <1>7 DEF PublisherFree
<1>8. CASE PublisherCountSent
  BY <1>0, <1>8 DEF PublisherCountSent
<1>9. CASE PublisherCountDropped
  BY <1>0, <1>9, Sizes DEF PublisherCountDropped
<1> QED
  BY <1>1, <1>2, <1>3, <1>4, <1>5, <1>6, <1>7, <1>8, <1>9 DEF Publisher

\* dpdk::init and dpdk::shutdown move nothing but main() and the port.
LEMMA PortSteps ==
  ASSUME TypeOK, MainInit \/ MainShutdown
  PROVE  /\ mainPc \in InitPcs \cup ShutdownPcs
         /\ mainPc' \in InitPcs \cup ShutdownPcs \cup {"spawnProducer"}
         /\ mainPc \in InitPcs => mainPc' \in InitPcs \cup {"spawnProducer"}
         /\ mainPc \in ShutdownPcs => mainPc' \in ShutdownPcs
         /\ mainPc' = "link_get" => port' = "started" \/ UNCHANGED <<mainPc, port>>
         /\ mainPc' = "spawnProducer" => mainPc = "link_get" /\ UNCHANGED port
         /\ port' \in Ports /\ status' \in {"running", "success", "failure"}
         /\ UNCHANGED <<g_RUNNING, prodVars, ring, pubVars, nicVars>>
<1> USE DEF TypeOK, InitPcs, ShutdownPcs, Ports, Call
<1>1. CASE MainInit
  BY <1>1 DEF MainInit, init, eal_init, discover_port, port_config, create_rx_pool_q,
              create_tx_pool, create_tx_q, start_port
<1>2. CASE MainShutdown
  BY <1>2 DEF MainShutdown, shutdown
<1> QED
  BY <1>1, <1>2

LEMMA TypeMain == TypeOK /\ Main => TypeOK'
<1> SUFFICES ASSUME TypeOK, Main PROVE TypeOK'
  OBVIOUS
<1> USE DEF TypeOK, mainVars, pubVars, nicVars, prodVars
<1>1. CASE MainSpawnProducer \/ MainSpawnPublisher
  BY <1>1 DEF MainSpawnProducer, MainSpawnPublisher
<1>2. CASE MainStats \/ MainJoinProducer \/ MainJoinPublisher
  BY <1>2 DEF MainStats, MainJoinProducer, MainJoinPublisher, ShutdownPcs
<1>3. CASE MainInit \/ MainShutdown
  <2>1. /\ mainPc' \in InitPcs \cup ShutdownPcs \cup {"spawnProducer"}
        /\ port' \in Ports /\ status' \in {"running", "success", "failure"}
        /\ UNCHANGED <<g_RUNNING, prodVars, ring, pubVars, nicVars>>
    BY <1>3, PortSteps
  <2> QED
    BY <2>1
<1> QED
  BY <1>1, <1>2, <1>3 DEF Main

LEMMA TypeStep == TypeOK /\ BurstPhases /\ [Next]_vars => TypeOK'
<1> SUFFICES ASSUME TypeOK, BurstPhases, [Next]_vars PROVE TypeOK'
  OBVIOUS
<1>1. CASE Signal
  BY <1>1 DEF Signal, TypeOK, mainVars, pubVars, nicVars, prodVars
<1>2. CASE Producer
  BY <1>2, TypeProducer
<1>3. CASE Publisher
  BY <1>3, TypePublisher
<1>4. CASE NicTransmit
  <2>1. /\ Head(txq) \in Ticks /\ Tail(txq) \in Seq(Ticks)
    BY <1>4, TailTick DEF NicTransmit, TypeOK
  <2>2. Append(wire, Head(txq)) \in Seq(Ticks)
    BY <2>1, AppendTick DEF TypeOK
  <2> QED
    BY <1>4, <2>1, <2>2 DEF NicTransmit, TypeOK, mainVars, pubVars, prodVars
<1>5. CASE Main
  BY <1>5, TypeMain
<1>6. CASE UNCHANGED vars
  BY <1>6 DEF vars, TypeOK, mainVars, pubVars, nicVars, prodVars
<1> QED
  BY <1>1, <1>2, <1>3, <1>4, <1>5, <1>6 DEF Next, Exited
-----------------------------------------------------------------------------
(***************************************************************************)
(* The other parts of the invariant.  Each is proved from the parts it     *)
(* needs, thread by thread.                                                *)
(***************************************************************************)

LEMMA InvInit == Init => IInv
<1> SUFFICES ASSUME Init PROVE IInv
  OBVIOUS
<1>1. TypeOK
  BY TypeInit
<1>2. Len(<<>>) = 0
  BY EmptySeq
<1>3. BurstPhases /\ Joined /\ Draining
  BY DEF Init, BurstPhases, Joined, Draining, InitPcs, ShutdownPcs
<1>4. MbufsConserved
  BY <1>2, Sizes DEF Init, MbufsConserved, Owned
<1>5. TicksAccounted
  BY <1>2 DEF Init, TicksAccounted, PushedAccounted, SentAccounted, Pushed, InFlight, Uncounted
<1>6. Numbering /\ SentIncreasing
  BY <1>2 DEF Init, Numbering, SentIncreasing, Increasing, Pushed, Offered
<1> QED
  BY <1>1, <1>3, <1>4, <1>5, <1>6 DEF IInv

LEMMA PhasesStep == TypeOK /\ BurstPhases /\ Joined /\ [Next]_vars => BurstPhases'
<1> SUFFICES ASSUME TypeOK, BurstPhases, Joined, [Next]_vars PROVE BurstPhases'
  OBVIOUS
<1> USE DEF BurstPhases, mainVars, pubVars, nicVars, prodVars
<1>1. CASE Signal \/ NicTransmit \/ UNCHANGED vars
  BY <1>1 DEF Signal, NicTransmit, vars
<1>2. CASE Producer
  BY <1>2 DEF Producer, ProducerPin, ProducerGenerate, ProducerLeave, ProducerPush,
              ProducerRetry, ProducerCount, Fail
<1>3. CASE Publisher
  <2>1. CASE PublisherPin \/ PublisherLoop \/ PublisherDrain
    BY <2>1 DEF PublisherPin, PublisherLoop, PublisherDrain, Fail
  <2>2. CASE PublisherPop
    BY <2>2 DEF PublisherPop
  <2>3. CASE PublisherBuild
    <3>1. CASE Built(Len(ticks)) = 0
      <4>1. SubSeq(ticks, 1, 0) = <<>>
        BY SubSeqEmpty
      <4> QED
        BY <2>3, <3>1, <4>1 DEF PublisherBuild
    <3>2. CASE Built(Len(ticks)) # 0
      BY <2>3, <3>2 DEF PublisherBuild
    <3> QED
      BY <3>1, <3>2
  <2>4. CASE PublisherTx \/ PublisherFree \/ PublisherCountSent
    BY <2>4 DEF PublisherTx, PublisherFree, PublisherCountSent
  <2>5. CASE PublisherCountDropped
    BY <2>5 DEF PublisherCountDropped
  <2> QED
    BY <1>3, <2>1, <2>2, <2>3, <2>4, <2>5 DEF Publisher
<1>4. CASE Main
  <2>1. CASE MainSpawnPublisher
    BY <2>1 DEF MainSpawnPublisher, Joined
  <2>2. CASE ~MainSpawnPublisher
    BY <1>4, <2>2 DEF Main, MainSpawnProducer, MainStats, MainJoinProducer,
              MainJoinPublisher, MainInit, MainShutdown
  <2> QED
    BY <2>1, <2>2
<1> QED
  BY <1>1, <1>2, <1>3, <1>4 DEF Next, Exited

LEMMA JoinedStep == TypeOK /\ Joined /\ [Next]_vars => Joined'
<1> SUFFICES ASSUME TypeOK, Joined, [Next]_vars PROVE Joined'
  OBVIOUS
<1> USE DEF Joined, mainVars, pubVars, nicVars, prodVars
<1>1. CASE Signal \/ NicTransmit \/ UNCHANGED vars
  BY <1>1 DEF Signal, NicTransmit, vars
<1>2. CASE Producer
  BY <1>2 DEF Producer, ProducerPin, ProducerGenerate, ProducerLeave, ProducerPush,
              ProducerRetry, ProducerCount, Fail
<1>3. CASE Publisher
  BY <1>3 DEF Publisher, PublisherPin, PublisherLoop, PublisherDrain, PublisherPop,
              PublisherBuild, PublisherTx, PublisherFree, PublisherCountSent,
              PublisherCountDropped, Fail
<1>4. CASE Main
  <2>1. CASE MainSpawnProducer \/ MainSpawnPublisher
    BY <2>1 DEF MainSpawnProducer, MainSpawnPublisher, TypeOK, InitPcs, ShutdownPcs
  <2>2. CASE MainStats \/ MainJoinProducer \/ MainJoinPublisher
    BY <2>2 DEF MainStats, MainJoinProducer, MainJoinPublisher, InitPcs, ShutdownPcs
  <2>3. CASE MainInit \/ MainShutdown
    <3> USE DEF InitPcs, ShutdownPcs
    <3>1. UNCHANGED <<prodPc, pubPc>>
      BY <2>3, PortSteps
    <3>2. port' # "started" => mainPc' \in (InitPcs \ {"link_get"}) \cup ShutdownPcs
      BY <2>3, PortSteps
    <3>3. /\ mainPc' \in InitPcs \cup {"spawnProducer"} => mainPc \in InitPcs
          /\ mainPc' \in ShutdownPcs => mainPc \in ShutdownPcs
          /\ mainPc' \in InitPcs \cup ShutdownPcs \cup {"spawnProducer"}
      BY <2>3, PortSteps
    <3> QED
      BY <3>1, <3>2, <3>3
  <2> QED
    BY <1>4, <2>1, <2>2, <2>3 DEF Main
<1> QED
  BY <1>1, <1>2, <1>3, <1>4 DEF Next, Exited

LEMMA DrainingStep == TypeOK /\ Joined /\ Draining /\ [Next]_vars => Draining'
<1> SUFFICES ASSUME TypeOK, Joined, Draining, [Next]_vars PROVE Draining'
  OBVIOUS
<1> USE DEF Draining, mainVars, pubVars, nicVars, prodVars
<1>0. Len(ring) \in Nat
  BY LenProperties DEF TypeOK
<1>1. CASE Signal \/ NicTransmit \/ UNCHANGED vars
  BY <1>1 DEF Signal, NicTransmit, vars
<1>2. CASE Producer
  <2>1. CASE ProducerPin \/ ProducerGenerate \/ ProducerLeave
    BY <1>0, <2>1 DEF ProducerPin, ProducerGenerate, ProducerLeave, Fail
  <2>2. CASE ProducerPush
    <3>1. CASE Len(ring) < Capacity
      <4>1. seq \in Ticks /\ ring \in Seq(Ticks)
        BY DEF TypeOK, Ticks
      <4>2. Len(ring') = Len(ring) + 1 /\ prodPc = "push" /\ prodPc' = "count"
            /\ UNCHANGED <<pubPc, g_RUNNING>>
        BY <2>2, <3>1, <4>1, AppendTick DEF ProducerPush
      <4> QED
        BY <1>0, <4>2
    <3>2. CASE ~(Len(ring) < Capacity)
      BY <2>2, <3>2 DEF ProducerPush
    <3> QED
      BY <3>1, <3>2
  <2>3. CASE ProducerRetry \/ ProducerCount
    BY <1>0, <2>3 DEF ProducerRetry, ProducerCount
  <2> QED
    BY <1>2, <2>1, <2>2, <2>3 DEF Producer
<1>3. CASE Publisher
  <2>1. CASE PublisherDrain
    <3>1. Len(<<>>) = 0
      BY EmptySeq
    <3> QED
      BY <2>1, <3>1 DEF PublisherDrain
  <2>2. CASE ~PublisherDrain
    BY <1>3, <2>2 DEF Publisher, PublisherPin, PublisherLoop, PublisherPop,
              PublisherBuild, PublisherTx, PublisherFree, PublisherCountSent,
              PublisherCountDropped, Fail
  <2> QED
    BY <2>1, <2>2
<1>4. CASE Main
  <2>1. CASE MainSpawnProducer \/ MainSpawnPublisher
    BY <2>1 DEF MainSpawnProducer, MainSpawnPublisher, Joined
  <2>2. CASE ~(MainSpawnProducer \/ MainSpawnPublisher)
    BY <1>4, <2>2 DEF Main, MainStats, MainJoinProducer, MainJoinPublisher,
              MainInit, MainShutdown
  <2> QED
    BY <2>1, <2>2
<1> QED
  BY <1>1, <1>2, <1>3, <1>4 DEF Next, Exited

\* Every mbuf that leaves one place arrives in another.
LEMMA MbufsStep == TypeOK /\ BurstPhases /\ Joined /\ MbufsConserved /\ [Next]_vars
                     => MbufsConserved'
<1> SUFFICES ASSUME TypeOK, BurstPhases, Joined, MbufsConserved, [Next]_vars
             PROVE  MbufsConserved'
  OBVIOUS
<1> USE DEF mainVars, pubVars, nicVars, prodVars
<1>0. /\ Len(ticks) \in Nat /\ Len(pkts) \in Nat /\ Len(txq) \in Nat
      /\ pool \in Nat /\ done \in Nat /\ sentNow \in 0 .. Len(pkts)
  BY LenProperties DEF TypeOK
<1>s. ASSUME UNCHANGED <<pubPc, pkts, sentNow, pool, txq, done>>
      PROVE  MbufsConserved'
  BY <1>s DEF MbufsConserved, Owned
<1>1. CASE Signal \/ UNCHANGED vars
  BY <1>1, <1>s DEF Signal, vars
<1>2. CASE Producer
  BY <1>2, <1>s DEF Producer, ProducerPin, ProducerGenerate, ProducerLeave, ProducerPush,
              ProducerRetry, ProducerCount, Fail
<1>3. CASE Publisher
  <2>1. CASE \/ PublisherPin \/ PublisherLoop \/ PublisherDrain \/ PublisherPop
             \/ PublisherCountSent \/ PublisherCountDropped
    BY <2>1 DEF PublisherPin, PublisherLoop, PublisherDrain, PublisherPop,
            PublisherCountSent, PublisherCountDropped, Fail, MbufsConserved, Owned
  <2>2. CASE PublisherBuild
    <3> DEFINE built == Built(Len(ticks))
    <3>1. built \in 0 .. Len(ticks)
      BY <1>0, BuiltRange
    <3>2. Len(pkts') = built
      BY <2>2, <3>1, PrefixTick DEF PublisherBuild, TypeOK
    <3>3. /\ pool' = pool - built /\ UNCHANGED <<txq, done>>
          /\ pubPc = "build" /\ pubPc' = IF built = 0 THEN "loop" ELSE "tx"
      BY <2>2 DEF PublisherBuild
    <3> HIDE DEF built
    <3>4. Owned = 0 /\ Owned' = built
      BY <3>2, <3>3 DEF Owned
    <3> QED
      BY <1>0, <3>1, <3>3, <3>4 DEF MbufsConserved
  <2>3. CASE PublisherTx
    <3>1. PICK freed \in 0 .. done, n \in 0 .. Len(pkts) :
            /\ Len(txq) + (done - freed) + n <= TxDesc
            /\ pool' = pool + freed
            /\ done' = done - freed
            /\ txq' = txq \o SubSeq(pkts, 1, n)
            /\ sentNow' = n
      BY <2>3 DEF PublisherTx
    <3>2. Len(txq') = Len(txq) + n
      BY <3>1, PrefixTick, ConcatProperties DEF TypeOK
    <3>3. pubPc = "tx" /\ pubPc' = "free" /\ pkts' = pkts
      BY <2>3 DEF PublisherTx
    <3>4. Owned = Len(pkts) /\ Owned' = Len(pkts) - n
      BY <3>1, <3>3 DEF Owned
    <3>5. Len(txq') + done' <= TxDesc
      BY <1>0, <3>1, <3>2
    <3>6. pool' + Owned' + Len(txq') + done' = pool + Owned + Len(txq) + done
      <4>1. pool' = pool + freed /\ done' = done - freed
        BY <3>1
      <4> QED
        BY <1>0, <3>2, <3>4, <4>1
    <3> QED
      BY <3>5, <3>6 DEF MbufsConserved
  <2>4. CASE PublisherFree
    <3>1. Owned = Len(pkts) - sentNow /\ Owned' = 0
      BY <2>4 DEF PublisherFree, Owned
    <3>2. pool' = pool + (Len(pkts) - sentNow) /\ UNCHANGED <<txq, done>>
      BY <2>4 DEF PublisherFree
    <3> QED
      BY <1>0, <3>1, <3>2 DEF MbufsConserved
  <2> QED
    BY <1>3, <2>1, <2>2, <2>3, <2>4 DEF Publisher
<1>4. CASE NicTransmit
  <2>1. Len(txq') = Len(txq) - 1 /\ done' = done + 1
    BY <1>4, TailTick DEF NicTransmit, TypeOK
  <2>2. Owned' = Owned /\ pool' = pool /\ Owned \in Nat
    BY <1>0, <1>4 DEF NicTransmit, Owned
  <2> QED
    BY <1>0, <2>1, <2>2 DEF MbufsConserved
<1>5. CASE Main
  <2>1. CASE MainSpawnPublisher
    BY <2>1 DEF MainSpawnPublisher, Joined, MbufsConserved, Owned
  <2>2. CASE ~MainSpawnPublisher
    BY <1>5, <1>s, <2>2 DEF Main, MainSpawnProducer, MainStats, MainJoinProducer,
              MainJoinPublisher, MainInit, MainShutdown
  <2> QED
    BY <2>1, <2>2
<1> QED
  BY <1>1, <1>2, <1>3, <1>4, <1>5 DEF Next, Exited

\* At build_burst the publisher holds no mbufs, so that all but those in the
\* TX queue are in the pool: enough for a burst.
LEMMA PoolHasBurst ==
  ASSUME TypeOK, BurstPhases, MbufsConserved, pubPc = "build"
  PROVE  Built(Len(ticks)) = Len(ticks)
<1>1. /\ Len(ticks) \in Nat /\ Len(ticks) <= BurstSize
      /\ Len(txq) \in Nat /\ pool \in Nat /\ done \in Nat
  BY LenProperties DEF TypeOK
<1>2. pool + Len(txq) + done = NumMbufs /\ Len(txq) + done <= TxDesc
  BY <1>1 DEF MbufsConserved, Owned
<1>3. Len(ticks) <= pool
  BY <1>1, <1>2, Sizes
<1> QED
  BY <1>1, <1>3, BuiltRange

\* A step that moves no tick and counts none.
LEMMA TicksStay ==
  ASSUME UNCHANGED <<produced_ticks, ring, sent_pkts, dropped_pkts>>,
         InFlight' = InFlight, (prodPc' = "count") <=> (prodPc = "count"),
         PushedAccounted
  PROVE  PushedAccounted'
  BY DEF PushedAccounted, Pushed

LEMMA TicksProducer == TypeOK /\ PushedAccounted /\ Producer => PushedAccounted'
<1> SUFFICES ASSUME TypeOK, PushedAccounted, Producer PROVE PushedAccounted'
  OBVIOUS
<1> USE DEF mainVars, pubVars, nicVars
<1>0. InFlight' = InFlight
  BY DEF InFlight, Producer, ProducerPin, ProducerGenerate, ProducerLeave, ProducerPush,
         ProducerRetry, ProducerCount, Fail
<1>n. /\ produced_ticks \in Nat /\ Len(ring) \in Nat
      /\ sent_pkts \in Nat /\ dropped_pkts \in Nat
  BY LenProperties DEF TypeOK
<1>1. CASE ProducerPin \/ ProducerGenerate \/ ProducerLeave \/ ProducerRetry
  BY <1>0, <1>1, TicksStay
     DEF ProducerPin, ProducerGenerate, ProducerLeave, ProducerRetry, Fail, prodVars
<1>2. CASE ProducerPush
  <2>1. CASE Len(ring) < Capacity
    <3>1. Len(ring') = Len(ring) + 1
      BY <1>2, <2>1, AppendTick DEF ProducerPush, TypeOK, Ticks
    <3>2. Pushed' = Pushed + 1
      BY <1>2, <1>n, <2>1 DEF ProducerPush, Pushed
    <3>3. UNCHANGED <<sent_pkts, dropped_pkts>>
      BY <1>2 DEF ProducerPush
    <3>4. Len(ring') + InFlight' + sent_pkts' + dropped_pkts'
            = Len(ring) + 1 + InFlight + sent_pkts + dropped_pkts
      BY <1>0, <3>1, <3>3
    <3>5. InFlight \in Int
      BY LenProperties DEF InFlight, TypeOK
    <3> QED
      BY <1>n, <3>2, <3>4, <3>5 DEF PushedAccounted
  <2>2. CASE ~(Len(ring) < Capacity)
    BY <1>0, <1>2, <2>2, TicksStay DEF ProducerPush
  <2> QED
    BY <2>1, <2>2
<1>3. CASE ProducerCount
  <2>1. Pushed' = Pushed
    BY <1>3, <1>n DEF ProducerCount, Pushed
  <2>2. UNCHANGED <<ring, sent_pkts, dropped_pkts>>
    BY <1>3 DEF ProducerCount
  <2> QED
    BY <1>0, <2>1, <2>2 DEF PushedAccounted
<1> QED
  BY <1>1, <1>2, <1>3 DEF Producer

LEMMA TicksPublisher ==
  TypeOK /\ BurstPhases /\ MbufsConserved /\ PushedAccounted /\ Publisher => PushedAccounted'
<1> SUFFICES ASSUME TypeOK, BurstPhases, MbufsConserved, PushedAccounted, Publisher
             PROVE  PushedAccounted'
  OBVIOUS
<1> USE DEF mainVars, prodVars, nicVars
<1>n. /\ Len(ticks) \in Nat /\ Len(pkts) \in Nat /\ Len(ring) \in Nat
      /\ sentNow \in 0 .. Len(pkts) /\ sent_pkts \in Nat /\ dropped_pkts \in Nat
  BY LenProperties DEF TypeOK
<1>e. Len(<<>>) = 0
  BY EmptySeq
<1>1. CASE PublisherPin \/ PublisherLoop \/ PublisherDrain
  <2>1. ticks = <<>> /\ UNCHANGED ticks
    BY <1>1 DEF PublisherPin, PublisherLoop, PublisherDrain, BurstPhases, Fail, pubVars
  <2>2. InFlight = 0 /\ InFlight' = 0
    BY <1>1, <1>e, <2>1 DEF PublisherPin, PublisherLoop, PublisherDrain, Fail, InFlight, pubVars
  <2> QED
    BY <1>1, <2>2, TicksStay DEF PublisherPin, PublisherLoop, PublisherDrain, Fail, pubVars
<1>2. CASE PublisherPop
  <2>1. CASE Len(ticks) < BurstSize /\ ring # <<>>
    <3>1. Len(ring') = Len(ring) - 1 /\ Head(ring) \in Ticks
      BY <1>2, <2>1, TailTick DEF PublisherPop, TypeOK
    <3>2. Len(ticks') = Len(ticks) + 1
      BY <1>2, <2>1, <3>1, AppendTick DEF PublisherPop, TypeOK
    <3>3. InFlight = Len(ticks) /\ InFlight' = Len(ticks')
      BY <1>2, <2>1 DEF PublisherPop, InFlight
    <3>4. UNCHANGED <<Pushed, sent_pkts, dropped_pkts>>
      BY <1>2 DEF PublisherPop, Pushed
    <3>5. Len(ring') + InFlight' = Len(ring) + InFlight
      BY <1>n, <3>1, <3>2, <3>3
    <3> QED
      BY <3>4, <3>5 DEF PushedAccounted
  <2>2. CASE ~(Len(ticks) < BurstSize /\ ring # <<>>)
    <3>1. InFlight' = InFlight
      BY <1>2, <2>2 DEF PublisherPop, InFlight
    <3> QED
      BY <1>2, <2>2, <3>1, TicksStay DEF PublisherPop
  <2> QED
    BY <2>1, <2>2
<1>3. CASE PublisherBuild
  <2>1. Built(Len(ticks)) = Len(ticks)
    BY <1>3, PoolHasBurst DEF PublisherBuild
  <2>2. pkts' = ticks
    BY <1>3, <2>1, SubSeqFull DEF PublisherBuild, TypeOK
  <2>3. pubPc = "build" /\ pubPc' = IF Len(ticks) = 0 THEN "loop" ELSE "tx"
    BY <1>3, <2>1 DEF PublisherBuild
  <2>4. InFlight' = InFlight
    BY <2>2, <2>3 DEF InFlight
  <2> QED
    BY <1>3, <2>4, TicksStay DEF PublisherBuild
<1>4. CASE PublisherTx \/ PublisherFree
  <2>1. InFlight' = InFlight
    BY <1>4 DEF PublisherTx, PublisherFree, InFlight
  <2> QED
    BY <1>4, <2>1, TicksStay DEF PublisherTx, PublisherFree
<1>5. CASE PublisherCountSent
  <2>1. sent_pkts' = sent_pkts + sentNow
        /\ UNCHANGED <<Pushed, ring, dropped_pkts, pkts, sentNow>>
    BY <1>5 DEF PublisherCountSent, Pushed
  <2>2. InFlight = Len(pkts) /\ InFlight' = Len(pkts) - sentNow
    BY <1>5 DEF PublisherCountSent, InFlight
  <2>3. InFlight' + sent_pkts' = InFlight + sent_pkts
    BY <1>n, <2>1, <2>2
  <2>4. Len(ring) + InFlight' + sent_pkts' = Len(ring) + InFlight + sent_pkts
    BY <1>n, <2>1, <2>2
  <2> QED
    BY <2>1, <2>4 DEF PushedAccounted
<1>6. CASE PublisherCountDropped
  <2>1. dropped_pkts' = dropped_pkts + (Len(pkts) - sentNow)
        /\ UNCHANGED <<Pushed, ring, sent_pkts>>
    BY <1>6 DEF PublisherCountDropped, Pushed
  <2>2. InFlight = Len(pkts) - sentNow /\ InFlight' = 0
    BY <1>6 DEF PublisherCountDropped, InFlight
  <2>3. Len(ring) + InFlight' + sent_pkts + dropped_pkts'
          = Len(ring) + InFlight + sent_pkts + dropped_pkts
    BY <1>n, <2>1, <2>2
  <2> QED
    BY <2>1, <2>3 DEF PushedAccounted
<1> QED
  BY <1>1, <1>2, <1>3, <1>4, <1>5, <1>6 DEF Publisher

LEMMA PushedStep ==
  TypeOK /\ BurstPhases /\ MbufsConserved /\ Joined /\ PushedAccounted /\ [Next]_vars
    => PushedAccounted'
<1> SUFFICES ASSUME TypeOK, BurstPhases, MbufsConserved, Joined, PushedAccounted, [Next]_vars
             PROVE  PushedAccounted'
  OBVIOUS
<1> USE DEF mainVars, pubVars, prodVars, nicVars
<1>1. CASE Signal \/ NicTransmit \/ UNCHANGED vars
  <2>1. InFlight' = InFlight
    BY <1>1 DEF Signal, NicTransmit, vars, InFlight
  <2> QED
    BY <1>1, <2>1, TicksStay DEF Signal, NicTransmit, vars
<1>2. CASE Producer
  BY <1>2, TicksProducer
<1>3. CASE Publisher
  BY <1>3, TicksPublisher
<1>4. CASE Main
  <2>1. InFlight' = InFlight
    BY <1>4 DEF Main, MainSpawnProducer, MainSpawnPublisher, MainStats, MainJoinProducer,
              MainJoinPublisher, MainInit, MainShutdown, InFlight, Joined
  <2>2. (prodPc' = "count") <=> (prodPc = "count")
    BY <1>4 DEF Main, MainSpawnProducer, MainSpawnPublisher, MainStats, MainJoinProducer,
              MainJoinPublisher, MainInit, MainShutdown, Joined
  <2>3. UNCHANGED <<produced_ticks, ring, sent_pkts, dropped_pkts>>
    BY <1>4 DEF Main, MainSpawnProducer, MainSpawnPublisher, MainStats, MainJoinProducer,
              MainJoinPublisher, MainInit, MainShutdown
  <2> QED
    BY <2>1, <2>2, <2>3, TicksStay
<1> QED
  BY <1>1, <1>2, <1>3, <1>4 DEF Next, Exited
-----------------------------------------------------------------------------
\* What is counted as sent has been accepted by the NIC.
LEMMA SentStep ==
  TypeOK /\ BurstPhases /\ Joined /\ SentAccounted /\ [Next]_vars => SentAccounted'
<1> SUFFICES ASSUME TypeOK, BurstPhases, Joined, SentAccounted, [Next]_vars
             PROVE  SentAccounted'
  OBVIOUS
<1> USE DEF mainVars, pubVars, prodVars, nicVars
<1>n. /\ Len(wire) \in Nat /\ Len(txq) \in Nat /\ sentNow \in Nat /\ sent_pkts \in Nat
      /\ Len(pkts) \in Nat
  BY LenProperties DEF TypeOK
<1>s. ASSUME UNCHANGED <<Uncounted, sent_pkts, wire, txq>>
      PROVE  SentAccounted'
  BY <1>s DEF SentAccounted
<1>1. CASE Signal \/ UNCHANGED vars
  BY <1>1, <1>s DEF Signal, vars, Uncounted
<1>2. CASE Producer
  BY <1>2, <1>s DEF Producer, ProducerPin, ProducerGenerate, ProducerLeave, ProducerPush,
              ProducerRetry, ProducerCount, Fail, Uncounted
<1>3. CASE Publisher
  <2>1. CASE PublisherPin \/ PublisherLoop \/ PublisherDrain \/ PublisherPop \/ PublisherBuild
    BY <2>1, <1>s DEF PublisherPin, PublisherLoop, PublisherDrain, PublisherPop,
            PublisherBuild, Fail, Uncounted
  <2>2. CASE PublisherTx
    <3>1. PICK n \in 0 .. Len(pkts) : txq' = txq \o SubSeq(pkts, 1, n) /\ sentNow' = n
      BY <2>2 DEF PublisherTx
    <3>2. Len(txq') = Len(txq) + n
      BY <3>1, PrefixTick, ConcatProperties DEF TypeOK
    <3>3. Uncounted = 0 /\ Uncounted' = n /\ UNCHANGED <<sent_pkts, wire>>
      BY <2>2, <3>1 DEF PublisherTx, Uncounted
    <3> QED
      BY <1>n, <3>2, <3>3 DEF SentAccounted
  <2>3. CASE PublisherFree \/ PublisherCountDropped
    BY <2>3, <1>s DEF PublisherFree, PublisherCountDropped, Uncounted
  <2>4. CASE PublisherCountSent
    BY <1>n, <2>4 DEF PublisherCountSent, Uncounted, SentAccounted
  <2> QED
    BY <1>3, <2>1, <2>2, <2>3, <2>4 DEF Publisher
<1>4. CASE NicTransmit
  <2>1. Len(txq') = Len(txq) - 1 /\ Len(wire') = Len(wire) + 1
    BY <1>4, TailTick, AppendTick DEF NicTransmit, TypeOK
  <2>2. UNCHANGED <<Uncounted, sent_pkts>>
    BY <1>4 DEF NicTransmit, Uncounted
  <2> QED
    BY <1>n, <2>1, <2>2 DEF SentAccounted
<1>5. CASE Main
  BY <1>5, <1>s DEF Main, MainSpawnProducer, MainSpawnPublisher, MainStats, MainJoinProducer,
              MainJoinPublisher, MainInit, MainShutdown, Uncounted, Joined
<1> QED
  BY <1>1, <1>2, <1>3, <1>4, <1>5 DEF Next, Exited
-----------------------------------------------------------------------------
(***************************************************************************)
(* The numbers of the ticks.                                               *)
(***************************************************************************)

\* The elements of Append(s, t), of Tail(s) and of s \o SubSeq(r, 1, n).
LEMMA AppendElements ==
  ASSUME NEW s \in Seq(Ticks), NEW t \in Ticks
  PROVE  /\ \A i \in 1 .. Len(s) : Append(s, t)[i] = s[i]
         /\ Append(s, t)[Len(s) + 1] = t
  BY AppendProperties

LEMMA TailElements ==
  ASSUME NEW s \in Seq(Ticks), s # <<>>
  PROVE  /\ Head(s) = s[1]
         /\ \A i \in 1 .. Len(s) - 1 : Tail(s)[i] = s[i + 1]
  BY HeadTailProperties

LEMMA ConcatElements ==
  ASSUME NEW s \in Seq(Ticks), NEW r \in Seq(Ticks), NEW n \in 0 .. Len(r)
  PROVE  /\ s \o SubSeq(r, 1, n) \in Seq(Ticks)
         /\ Len(s \o SubSeq(r, 1, n)) = Len(s) + n
         /\ \A i \in 1 .. Len(s) : (s \o SubSeq(r, 1, n))[i] = s[i]
         /\ \A i \in 1 .. n : (s \o SubSeq(r, 1, n))[Len(s) + i] = r[i]
<1>1. /\ SubSeq(r, 1, n) \in Seq(Ticks) /\ Len(SubSeq(r, 1, n)) = n
      /\ Len(s) \in Nat /\ n \in Nat
  BY PrefixTick, LenProperties
<1>2. \A i \in 1 .. n : r[i] \in Ticks
  BY ElementOfSeq, LenProperties
<1>3. \A i \in 1 .. n : SubSeq(r, 1, n)[i] = r[i]
  BY <1>1, <1>2, SubSeqProperties
<1> QED
  BY <1>1, <1>3, ConcatProperties
-----------------------------------------------------------------------------
LEMMA Counts ==
  ASSUME TypeOK
  PROVE  /\ Len(ring) \in Nat /\ Len(ticks) \in Nat /\ Len(pkts) \in Nat
         /\ Len(wire) \in Nat /\ Len(txq) \in Nat
         /\ sent_pkts \in Nat /\ dropped_pkts \in Nat /\ seq \in Nat /\ Pushed \in Nat
         /\ sentNow \in 0 .. Len(pkts)
<1>1. /\ Len(ring) \in Nat /\ Len(ticks) \in Nat /\ Len(pkts) \in Nat
      /\ Len(wire) \in Nat /\ Len(txq) \in Nat
  BY LenProperties DEF TypeOK
<1> QED
  BY <1>1 DEF TypeOK, Pushed

LEMMA Elements ==
  ASSUME TypeOK
  PROVE  /\ \A i \in 1 .. Len(wire) : wire[i] \in Nat
         /\ \A i \in 1 .. Len(txq) : txq[i] \in Nat
  BY ElementOfSeq DEF TypeOK, Ticks

LEMMA NumberingProducer == TypeOK /\ Numbering /\ Producer => Numbering'
<1> SUFFICES ASSUME TypeOK, Numbering, Producer PROVE Numbering'
  OBVIOUS
<1> USE DEF mainVars, pubVars, nicVars, prodVars
<1>n. /\ Len(ring) \in Nat /\ Len(ticks) \in Nat /\ Len(pkts) \in Nat
      /\ Len(wire) \in Nat /\ Len(txq) \in Nat
      /\ sent_pkts \in Nat /\ dropped_pkts \in Nat /\ seq \in Nat /\ Pushed \in Nat
  BY Counts
<1> USE <1>n
<1>0. UNCHANGED <<Offered, ticks, sent_pkts, dropped_pkts, wire, txq>>
  BY DEF Offered, Producer, ProducerPin, ProducerGenerate, ProducerLeave, ProducerPush,
         ProducerRetry, ProducerCount, Fail
<1>1. CASE ProducerPin \/ ProducerLeave \/ ProducerRetry
  <2>1. UNCHANGED <<Pushed, seq, ring>>
    BY <1>1 DEF ProducerPin, ProducerLeave, ProducerRetry, Fail, Pushed
  <2>2. /\ prodPc' \in {"push", "full"} => prodPc \in {"push", "full"}
        /\ prodPc' \notin {"push", "full", "finished"} =>
             prodPc \notin {"push", "full", "finished"}
    BY <1>1 DEF ProducerPin, ProducerLeave, ProducerRetry, Fail
  <2> QED
    BY <1>0, <2>1, <2>2 DEF Numbering
<1>2. CASE ProducerGenerate
  <2>1. UNCHANGED <<Pushed, ring>> /\ prodPc = "loop" /\ prodPc' = "push" /\ seq' = seq + 1
    BY <1>2 DEF ProducerGenerate, Pushed
  <2> QED
    BY <1>0, <2>1 DEF Numbering
<1>3. CASE ProducerPush
  <2>1. CASE Len(ring) < Capacity
    <3>1. /\ ring' = Append(ring, seq) /\ UNCHANGED seq /\ Pushed' = Pushed + 1
          /\ prodPc = "push" /\ prodPc' = "count"
      BY <1>3, <2>1 DEF ProducerPush, Pushed, TypeOK
    <3>2. ring \in Seq(Ticks) /\ seq \in Ticks
      BY DEF TypeOK, Ticks
    <3>3. /\ Len(ring') = Len(ring) + 1
          /\ \A i \in 1 .. Len(ring) : ring'[i] = ring[i]
          /\ ring'[Len(ring) + 1] = seq
      BY <3>1, <3>2, AppendTick, AppendElements
    <3>4. seq = Pushed + 2
      BY <3>1 DEF Numbering
    <3>5. ASSUME NEW i \in 1 .. Len(ring')
          PROVE  ring'[i] = Pushed' + 1 - Len(ring') + i
      <4>1. CASE i = Len(ring) + 1
        BY <3>1, <3>3, <3>4, <4>1
      <4>2. CASE i # Len(ring) + 1
        <5>1. i \in 1 .. Len(ring)
          BY <3>3, <4>2
        <5>2. ring[i] = Pushed + 1 - Len(ring) + i
          BY <5>1 DEF Numbering
        <5> QED
          BY <3>1, <3>3, <5>1, <5>2
      <4> QED
        BY <4>1, <4>2
    <3> QED
      BY <1>0, <3>1, <3>4, <3>5 DEF Numbering
  <2>2. CASE ~(Len(ring) < Capacity)
    <3>1. UNCHANGED <<Pushed, seq, ring>> /\ prodPc = "push" /\ prodPc' = "full"
      BY <1>3, <2>2 DEF ProducerPush, Pushed
    <3> QED
      BY <1>0, <3>1 DEF Numbering
  <2> QED
    BY <2>1, <2>2
<1>4. CASE ProducerCount
  <2>1. UNCHANGED <<Pushed, seq, ring>> /\ prodPc = "count" /\ prodPc' = "loop"
    BY <1>4 DEF ProducerCount, Pushed, TypeOK
  <2> QED
    BY <1>0, <2>1 DEF Numbering
<1> QED
  BY <1>1, <1>2, <1>3, <1>4 DEF Producer

LEMMA NumberingPublisher ==
  ASSUME TypeOK, BurstPhases, MbufsConserved, TicksAccounted, Numbering, Publisher
  PROVE  Numbering'
<1> USE DEF mainVars, nicVars, prodVars, pubVars
<1>n. /\ Len(ring) \in Nat /\ Len(ticks) \in Nat /\ Len(pkts) \in Nat
      /\ Len(wire) \in Nat /\ Len(txq) \in Nat
      /\ sent_pkts \in Nat /\ dropped_pkts \in Nat /\ seq \in Nat /\ Pushed \in Nat
  BY Counts
<1> USE <1>n
<1>e. Len(<<>>) = 0
  BY EmptySeq
<1>p. UNCHANGED <<Pushed, seq, prodPc>>
  BY DEF Publisher, PublisherPin, PublisherLoop, PublisherDrain, PublisherPop,
         PublisherBuild, PublisherTx, PublisherFree, PublisherCountSent,
         PublisherCountDropped, Fail, Pushed
<1>1. CASE PublisherPin \/ PublisherLoop \/ PublisherDrain \/ PublisherFree
  <2>1. UNCHANGED <<Offered, ring, ticks, sent_pkts, dropped_pkts, wire, txq>>
    BY <1>1 DEF PublisherPin, PublisherLoop, PublisherDrain, PublisherFree, Fail, Offered
  <2> QED
    BY <1>p, <2>1 DEF Numbering
<1>2. CASE PublisherPop
  <2>0. UNCHANGED <<Offered, sent_pkts, dropped_pkts, wire, txq>> /\ pubPc = "pop"
    BY <1>2 DEF PublisherPop, Offered
  <2>1. CASE Len(ticks) < BurstSize /\ ring # <<>>
    <3>1. ticks' = Append(ticks, Head(ring)) /\ ring' = Tail(ring)
      BY <1>2, <2>1 DEF PublisherPop
    <3>2. ring \in Seq(Ticks) /\ ticks \in Seq(Ticks) /\ Head(ring) \in Ticks
      BY <2>1, TailTick DEF TypeOK
    <3>3. /\ Len(ring) >= 1 /\ Len(ring') = Len(ring) - 1 /\ Head(ring) = ring[1]
          /\ \A i \in 1 .. Len(ring) - 1 : ring'[i] = ring[i + 1]
      BY <2>1, <3>1, <3>2, TailTick, TailElements
    <3>4. /\ Len(ticks') = Len(ticks) + 1
          /\ \A i \in 1 .. Len(ticks) : ticks'[i] = ticks[i]
          /\ ticks'[Len(ticks) + 1] = ring[1]
      BY <3>1, <3>2, <3>3, AppendTick, AppendElements
    <3>5. Pushed = Len(ring) + Len(ticks) + sent_pkts + dropped_pkts
      BY <2>0 DEF TicksAccounted, PushedAccounted, InFlight
    <3>6. ring[1] = sent_pkts + dropped_pkts + 1 + (Len(ticks) + 1)
      <4>1. ring[1] = Pushed + 1 - Len(ring) + 1
        BY <3>3 DEF Numbering
      <4> QED
        BY <3>5, <4>1
    <3>7. ASSUME NEW i \in 1 .. Len(ring')
          PROVE  ring'[i] = Pushed' + 1 - Len(ring') + i
      <4>1. i \in 1 .. Len(ring) - 1 /\ i + 1 \in 1 .. Len(ring)
        BY <3>3
      <4>2. ring[i + 1] = Pushed + 1 - Len(ring) + (i + 1)
        BY <4>1 DEF Numbering
      <4> QED
        BY <1>p, <3>3, <4>1, <4>2
    <3>8. ASSUME NEW i \in 1 .. Len(ticks')
          PROVE  ticks'[i] = sent_pkts' + dropped_pkts' + 1 + i
      <4>1. CASE i = Len(ticks) + 1
        BY <2>0, <3>4, <3>6, <4>1
      <4>2. CASE i # Len(ticks) + 1
        <5>1. i \in 1 .. Len(ticks)
          BY <3>4, <4>2
        <5> QED
          BY <2>0, <3>4, <5>1 DEF Numbering
      <4> QED
        BY <4>1, <4>2
    <3> QED
      BY <1>p, <2>0, <3>7, <3>8 DEF Numbering
  <2>2. CASE ~(Len(ticks) < BurstSize /\ ring # <<>>)
    <3>1. UNCHANGED <<ticks, ring>>
      BY <1>2, <2>2 DEF PublisherPop
    <3> QED
      BY <1>p, <2>0, <3>1 DEF Numbering
  <2> QED
    BY <2>1, <2>2
<1>3. CASE PublisherBuild
  <2>1. Built(Len(ticks)) = Len(ticks)
    BY <1>3, PoolHasBurst DEF PublisherBuild
  <2>2. pkts' = ticks /\ ticks' = <<>>
    BY <1>3, <2>1, SubSeqFull DEF PublisherBuild, TypeOK
  <2>3. Offered' = ticks \/ Offered' = <<>>
    BY <2>2 DEF Offered
  <2>4. UNCHANGED <<ring, sent_pkts, dropped_pkts, wire, txq>>
    BY <1>3 DEF PublisherBuild
  <2>5. \A i \in 1 .. Len(Offered') : Offered'[i] = sent_pkts + dropped_pkts + 1 + i
    BY <1>e, <2>3 DEF Numbering
  <2> QED
    BY <1>e, <1>p, <2>2, <2>4, <2>5 DEF Numbering
<1>4. CASE PublisherTx
  <2>1. PICK n \in 0 .. Len(pkts) : txq' = txq \o SubSeq(pkts, 1, n)
    BY <1>4 DEF PublisherTx
  <2>2. /\ Offered = pkts /\ Offered' = <<>>
        /\ sent_pkts = Len(wire) + Len(txq)
        /\ UNCHANGED <<ring, ticks, sent_pkts, dropped_pkts, wire>>
    BY <1>4 DEF PublisherTx, Offered, TicksAccounted, SentAccounted, Uncounted
  <2>3. /\ Len(txq') = Len(txq) + n
        /\ \A i \in 1 .. Len(txq) : txq'[i] = txq[i]
        /\ \A i \in 1 .. n : txq'[Len(txq) + i] = pkts[i]
    <3> DEFINE t == txq \o SubSeq(pkts, 1, n)
    <3>1. txq \in Seq(Ticks) /\ pkts \in Seq(Ticks)
      BY DEF TypeOK
    <3>2. /\ Len(t) = Len(txq) + n
          /\ \A i \in 1 .. Len(txq) : t[i] = txq[i]
          /\ \A i \in 1 .. n : t[Len(txq) + i] = pkts[i]
      BY <3>1, ConcatElements
    <3>3. txq' = t
      BY <2>1
    <3> HIDE DEF t
    <3> QED
      BY <3>2, <3>3
  <2>4. ASSUME NEW i \in 1 .. Len(txq')
        PROVE  txq'[i] <= Len(wire') + i + 1 + dropped_pkts'
    <3>1. CASE i \in 1 .. Len(txq)
      BY <2>2, <2>3, <3>1 DEF Numbering
    <3>2. CASE i \notin 1 .. Len(txq)
      <4> DEFINE k == i - Len(txq)
      <4>1. k \in 1 .. n /\ i = Len(txq) + k /\ k \in 1 .. Len(pkts)
        BY <2>3, <3>2
      <4>2. txq'[i] = pkts[k]
        BY <2>3, <4>1
      <4>3. pkts[k] = sent_pkts + dropped_pkts + 1 + k
        BY <2>2, <4>1 DEF Numbering
      <4> QED
        BY <2>2, <4>1, <4>2, <4>3
    <3> QED
      BY <3>1, <3>2
  <2> QED
    BY <1>e, <1>p, <2>2, <2>4 DEF Numbering
<1>5. CASE PublisherCountSent \/ PublisherCountDropped
  <2>1. /\ ticks = <<>> /\ Offered' = <<>>
        /\ UNCHANGED <<ring, ticks, wire, txq>>
        /\ dropped_pkts' >= dropped_pkts /\ dropped_pkts' \in Nat
    BY <1>5, Counts DEF PublisherCountSent, PublisherCountDropped, BurstPhases, Offered
  <2>2. ASSUME NEW i \in 1 .. Len(wire) PROVE wire[i] <= i + 1 + dropped_pkts'
    BY <2>1, Elements DEF Numbering
  <2>3. ASSUME NEW i \in 1 .. Len(txq) PROVE txq[i] <= Len(wire) + i + 1 + dropped_pkts'
    BY <2>1, Elements DEF Numbering
  <2> QED
    BY <1>e, <1>p, <2>1, <2>2, <2>3 DEF Numbering
<1> QED
  BY <1>1, <1>2, <1>3, <1>4, <1>5 DEF Publisher

LEMMA NumberingStep ==
  ASSUME TypeOK, BurstPhases, Joined, MbufsConserved, TicksAccounted, Numbering, [Next]_vars
  PROVE  Numbering'
<1> USE DEF mainVars, pubVars, nicVars, prodVars
<1>n. /\ Len(ring) \in Nat /\ Len(ticks) \in Nat /\ Len(pkts) \in Nat
      /\ Len(wire) \in Nat /\ Len(txq) \in Nat
      /\ sent_pkts \in Nat /\ dropped_pkts \in Nat /\ seq \in Nat /\ Pushed \in Nat
  BY Counts
<1> USE <1>n
<1>1. CASE Signal \/ UNCHANGED vars
  BY <1>1 DEF Signal, vars, Numbering, Pushed, Offered
<1>2. CASE Producer
  BY <1>2, NumberingProducer
<1>3. CASE Publisher
  BY <1>3, NumberingPublisher
<1>4. CASE NicTransmit
  <2>1. wire' = Append(wire, Head(txq)) /\ txq' = Tail(txq) /\ txq # <<>>
    BY <1>4 DEF NicTransmit
  <2>2. wire \in Seq(Ticks) /\ txq \in Seq(Ticks) /\ Head(txq) \in Ticks
    BY <2>1, TailTick DEF TypeOK
  <2>3. /\ Len(txq) >= 1 /\ Len(txq') = Len(txq) - 1 /\ Head(txq) = txq[1]
        /\ \A i \in 1 .. Len(txq) - 1 : txq'[i] = txq[i + 1]
    BY <2>1, <2>2, TailTick, TailElements
  <2>4. /\ Len(wire') = Len(wire) + 1
        /\ \A i \in 1 .. Len(wire) : wire'[i] = wire[i]
        /\ wire'[Len(wire) + 1] = txq[1]
    BY <2>1, <2>2, <2>3, AppendTick, AppendElements
  <2>5. UNCHANGED <<Pushed, Offered, seq, prodPc, ring, ticks, sent_pkts, dropped_pkts>>
    BY <1>4 DEF NicTransmit, Pushed, Offered
  <2>6. ASSUME NEW i \in 1 .. Len(wire')
        PROVE  wire'[i] <= i + 1 + dropped_pkts'
    <3>1. CASE i = Len(wire) + 1
      BY <2>3, <2>4, <2>5, <3>1 DEF Numbering
    <3>2. CASE i # Len(wire) + 1
      <4>1. i \in 1 .. Len(wire)
        BY <2>4, <3>2
      <4> QED
        BY <2>4, <2>5, <4>1 DEF Numbering
    <3> QED
      BY <3>1, <3>2
  <2>7. ASSUME NEW i \in 1 .. Len(txq')
        PROVE  txq'[i] <= Len(wire') + i + 1 + dropped_pkts'
    <3>1. i \in 1 .. Len(txq) - 1 /\ i + 1 \in 1 .. Len(txq)
      BY <2>3
    <3>2. txq[i + 1] <= Len(wire) + (i + 1) + 1 + dropped_pkts
      BY <3>1 DEF Numbering
    <3> QED
      BY <2>3, <2>4, <2>5, <3>1, <3>2
  <2> QED
    BY <2>5, <2>6, <2>7 DEF Numbering
<1>5. CASE Main
  <2>1. UNCHANGED <<Pushed, Offered, seq, ring, ticks, sent_pkts, dropped_pkts, wire, txq>>
    BY <1>5 DEF Main, MainSpawnProducer, MainSpawnPublisher, MainStats, MainJoinProducer,
              MainJoinPublisher, MainInit, MainShutdown, Joined, Pushed, Offered
  <2>2. prodPc' = prodPc \/ (prodPc = "unborn" /\ prodPc' = "pin")
    BY <1>5 DEF Main, MainSpawnProducer, MainSpawnPublisher, MainStats, MainJoinProducer,
              MainJoinPublisher, MainInit, MainShutdown, Joined
  <2> QED
    BY <2>1, <2>2 DEF Numbering
<1> QED
  BY <1>1, <1>2, <1>3, <1>4, <1>5 DEF Next, Exited

LEMMA IncreasingStep ==
  ASSUME TypeOK, TicksAccounted, Numbering, SentIncreasing, [Next]_vars
  PROVE  SentIncreasing'
<1> USE DEF mainVars, pubVars, nicVars, prodVars
<1>n. /\ Len(ring) \in Nat /\ Len(ticks) \in Nat /\ Len(pkts) \in Nat
      /\ Len(wire) \in Nat /\ Len(txq) \in Nat
      /\ sent_pkts \in Nat /\ dropped_pkts \in Nat /\ seq \in Nat /\ Pushed \in Nat
  BY Counts
<1> USE <1>n
<1>s. ASSUME UNCHANGED <<wire, txq>> PROVE SentIncreasing'
  BY <1>s DEF SentIncreasing, Increasing
<1>1. CASE PublisherTx
  <2>1. PICK n \in 0 .. Len(pkts) : txq' = txq \o SubSeq(pkts, 1, n)
    BY <1>1 DEF PublisherTx
  <2>2. /\ Offered = pkts /\ sent_pkts = Len(wire) + Len(txq) /\ UNCHANGED wire
    BY <1>1 DEF PublisherTx, Offered, TicksAccounted, SentAccounted, Uncounted, TypeOK
  <2>3. /\ Len(txq') = Len(txq) + n
        /\ \A i \in 1 .. Len(txq) : txq'[i] = txq[i]
        /\ \A i \in 1 .. n : txq'[Len(txq) + i] = pkts[i]
    <3> DEFINE t == txq \o SubSeq(pkts, 1, n)
    <3>1. txq \in Seq(Ticks) /\ pkts \in Seq(Ticks)
      BY DEF TypeOK
    <3>2. /\ Len(t) = Len(txq) + n
          /\ \A i \in 1 .. Len(txq) : t[i] = txq[i]
          /\ \A i \in 1 .. n : t[Len(txq) + i] = pkts[i]
      BY <3>1, ConcatElements
    <3>3. txq' = t
      BY <2>1
    <3> HIDE DEF t
    <3> QED
      BY <3>2, <3>3
  <2>4. ASSUME NEW j \in 1 .. Len(txq'), j \notin 1 .. Len(txq)
        PROVE  txq'[j] = Len(wire) + j + 1 + dropped_pkts
    <3> DEFINE k == j - Len(txq)
    <3>1. k \in 1 .. n /\ j = Len(txq) + k /\ k \in 1 .. Len(pkts)
      BY <2>3, <2>4
    <3>2. txq'[j] = pkts[k]
      BY <2>3, <3>1
    <3>3. pkts[k] = sent_pkts + dropped_pkts + 1 + k
      BY <2>2, <3>1 DEF Numbering
    <3> QED
      BY <2>2, <3>1, <3>2, <3>3
  <2>5. ASSUME NEW i \in 1 .. Len(txq'), NEW j \in 1 .. Len(txq'), i < j
        PROVE  txq'[i] < txq'[j]
    <3>1. CASE j \in 1 .. Len(txq)
      <4>1. i \in 1 .. Len(txq)
        BY <2>5, <3>1
      <4> QED
        BY <2>3, <2>5, <3>1, <4>1 DEF SentIncreasing, Increasing
    <3>2. CASE j \notin 1 .. Len(txq) /\ i \in 1 .. Len(txq)
      <4>1. txq'[j] = Len(wire) + j + 1 + dropped_pkts
        BY <2>4, <3>2
      <4>2. txq'[i] = txq[i] /\ txq[i] \in Nat /\ txq[i] <= Len(wire) + i + 1 + dropped_pkts
        BY Elements, <2>3, <3>2 DEF Numbering
      <4> QED
        BY <2>5, <4>1, <4>2
    <3>3. CASE i \notin 1 .. Len(txq)
      <4>1. j \notin 1 .. Len(txq)
        BY <2>5, <3>3
      <4>2. /\ txq'[j] = Len(wire) + j + 1 + dropped_pkts
            /\ txq'[i] = Len(wire) + i + 1 + dropped_pkts
        BY <2>4, <3>3, <4>1
      <4> QED
        BY <2>5, <4>2
    <3> QED
      BY <3>1, <3>2, <3>3
  <2>6. ASSUME NEW i \in 1 .. Len(wire), NEW j \in 1 .. Len(txq')
        PROVE  wire[i] < txq'[j]
    <3>1. CASE j \in 1 .. Len(txq)
      BY <2>3, <3>1 DEF SentIncreasing
    <3>2. CASE j \notin 1 .. Len(txq)
      <4>1. txq'[j] = Len(wire) + j + 1 + dropped_pkts
        BY <2>4, <3>2
      <4>2. wire[i] \in Nat /\ wire[i] <= i + 1 + dropped_pkts
        BY Elements DEF Numbering
      <4> QED
        BY <4>1, <4>2
    <3> QED
      BY <3>1, <3>2
  <2> QED
    BY <2>2, <2>5, <2>6 DEF SentIncreasing, Increasing
<1>2. CASE NicTransmit
  <2>1. wire' = Append(wire, Head(txq)) /\ txq' = Tail(txq) /\ txq # <<>>
    BY <1>2 DEF NicTransmit
  <2>2. wire \in Seq(Ticks) /\ txq \in Seq(Ticks) /\ Head(txq) \in Ticks
    BY <2>1, TailTick DEF TypeOK
  <2>3. /\ Len(txq) >= 1 /\ Len(txq') = Len(txq) - 1 /\ Head(txq) = txq[1]
        /\ \A i \in 1 .. Len(txq) - 1 : txq'[i] = txq[i + 1]
    BY <2>1, <2>2, TailTick, TailElements
  <2>4. /\ Len(wire') = Len(wire) + 1
        /\ \A i \in 1 .. Len(wire) : wire'[i] = wire[i]
        /\ wire'[Len(wire) + 1] = txq[1]
    BY <2>1, <2>2, <2>3, AppendTick, AppendElements
  <2>5. Increasing(txq')
    <3>1. \A i \in 1 .. Len(txq') : i + 1 \in 1 .. Len(txq) /\ txq'[i] = txq[i + 1]
      BY <2>3
    <3> QED
      BY <3>1, <2>3, SMTT(30) DEF SentIncreasing, Increasing
  <2>6. ASSUME NEW i \in 1 .. Len(wire') PROVE i \in 1 .. Len(wire) \/ i = Len(wire) + 1
    BY <2>4
  <2>7. Increasing(wire')
    <3> SUFFICES ASSUME NEW i \in 1 .. Len(wire'), NEW j \in 1 .. Len(wire'), i < j
                 PROVE  wire'[i] < wire'[j]
      BY DEF Increasing
    <3>1. i \in 1 .. Len(wire)
      BY <2>4
    <3>2. CASE j \in 1 .. Len(wire)
      BY <2>4, <3>1, <3>2 DEF SentIncreasing, Increasing
    <3>3. CASE j = Len(wire) + 1
      <4>1. 1 \in 1 .. Len(txq)
        BY <2>3
      <4> QED
        BY <2>4, <3>1, <3>3, <4>1 DEF SentIncreasing
    <3> QED
      BY <2>6, <3>2, <3>3
  <2>8. ASSUME NEW i \in 1 .. Len(wire'), NEW j \in 1 .. Len(txq')
        PROVE  wire'[i] < txq'[j]
    <3>1. j + 1 \in 1 .. Len(txq) /\ 1 \in 1 .. Len(txq) /\ 1 < j + 1 /\ txq'[j] = txq[j + 1]
      BY <2>3
    <3>2. CASE i \in 1 .. Len(wire)
      BY <2>4, <3>1, <3>2 DEF SentIncreasing
    <3>3. CASE i = Len(wire) + 1
      BY <2>4, <3>1, <3>3 DEF SentIncreasing, Increasing
    <3> QED
      BY <2>6, <3>2, <3>3
  <2> QED
    BY <2>5, <2>7, <2>8 DEF SentIncreasing
<1>3. CASE Producer
  BY <1>3, <1>s DEF Producer, ProducerPin, ProducerGenerate, ProducerLeave, ProducerPush,
              ProducerRetry, ProducerCount, Fail
<1>4. CASE Publisher /\ ~PublisherTx
  BY <1>4, <1>s DEF Publisher, PublisherPin, PublisherLoop, PublisherDrain, PublisherPop,
              PublisherBuild, PublisherFree, PublisherCountSent, PublisherCountDropped, Fail
<1>5. CASE Main
  BY <1>5, <1>s DEF Main, MainSpawnProducer, MainSpawnPublisher, MainStats, MainJoinProducer,
              MainJoinPublisher, MainInit, MainShutdown
<1>6. CASE Signal \/ UNCHANGED vars
  BY <1>6, <1>s DEF Signal, vars
<1> QED
  BY <1>1, <1>2, <1>3, <1>4, <1>5, <1>6 DEF Next, Exited
-----------------------------------------------------------------------------
LEMMA InvStep == IInv /\ [Next]_vars => IInv'
<1> SUFFICES ASSUME IInv, [Next]_vars PROVE IInv'
  OBVIOUS
<1> USE DEF IInv
<1>1. TypeOK' /\ BurstPhases' /\ MbufsConserved' /\ Joined' /\ Draining'
  BY TypeStep, PhasesStep, MbufsStep, JoinedStep, DrainingStep
<1>2. TicksAccounted'
  BY PushedStep, SentStep DEF TicksAccounted
<1>3. Numbering' /\ SentIncreasing'
  BY NumberingStep, IncreasingStep
<1> QED
  BY <1>1, <1>2, <1>3

\* The invariant holds in every reachable state.
THEOREM Invariance == Spec => []IInv
  BY InvInit, InvStep, PTL DEF Spec

\* Every variable keeps its type; no burst overflows bc.ticks or bc.pkts and
\* the ring never holds more than RING_SIZE ticks.
THEOREM TypeCorrect == Spec => []TypeOK
<1>1. IInv => TypeOK
  BY DEF IInv
<1> QED
  BY <1>1, Invariance, PTL

\* No mbuf is leaked or freed twice (publisher.cpp:200).
THEOREM NoMbufLeak == Spec => []MbufsConserved
<1>1. IInv => MbufsConserved
  BY DEF IInv
<1> QED
  BY <1>1, Invariance, PTL

\* With TX_DESC + BURST_SIZE mbufs or more build_burst never fails
\* (publisher.cpp:117) and never drops a popped tick.
THEOREM PoolNeverDry == Spec => []PoolCoversBurst
<1>1. IInv => PoolCoversBurst
  BY PoolHasBurst DEF IInv, PoolCoversBurst
<1> QED
  BY <1>1, Invariance, PTL

\* Every tick pushed on the ring is still there, in the publisher's hands, or
\* in exactly one of sent_pkts and dropped_pkts.
THEOREM NoTickVanishes == Spec => []TicksAccounted
<1>1. IInv => TicksAccounted
  BY DEF IInv
<1> QED
  BY <1>1, Invariance, PTL

\* What the numbers along the path are, N being the last number that tx_burst
\* has been offered before: up to N in the TX queue and beyond, consecutive
\* from N + 1 on this side of it.
LEMMA PathNumbers ==
  ASSUME IInv
  PROVE  LET N == sent_pkts + dropped_pkts + 1 + Uncounted
             K == InFlight - Uncounted
         IN  /\ N \in Nat /\ K \in Nat /\ Len(Offered) \in Nat
             /\ Len(Offered) <= K /\ Len(ticks) <= K
             /\ Offered = <<>> \/ ticks = <<>>
             /\ \A i \in 1 .. Len(wire) : wire[i] \in Nat /\ wire[i] <= N
             /\ \A i \in 1 .. Len(txq) : txq[i] \in Nat /\ txq[i] <= N
             /\ \A i \in 1 .. Len(Offered) : Offered[i] = N + i
             /\ \A i \in 1 .. Len(ticks) : ticks[i] = N + i
             /\ \A i \in 1 .. Len(ring) : ring[i] = N + K + i
             /\ \A i \in 1 .. Len(InHand) : i = 1 /\ InHand[i] = N + K + Len(ring) + 1
<1> DEFINE N == sent_pkts + dropped_pkts + 1 + Uncounted
           K == InFlight - Uncounted
<1>1. /\ Len(ring) \in Nat /\ Len(ticks) \in Nat /\ Len(pkts) \in Nat
      /\ Len(wire) \in Nat /\ Len(txq) \in Nat
      /\ sent_pkts \in Nat /\ dropped_pkts \in Nat /\ seq \in Nat /\ Pushed \in Nat
      /\ sentNow \in Nat /\ sentNow <= Len(pkts)
  BY Counts DEF IInv
<1>e. Len(<<>>) = 0
  BY EmptySeq
<1>2. Uncounted \in Nat /\ InFlight \in Nat /\ K \in Nat
  BY <1>1 DEF Uncounted, InFlight
<1>3. /\ Len(Offered) \in Nat /\ Len(Offered) <= K /\ Len(ticks) <= K
      /\ Offered = <<>> \/ ticks = <<>>
      /\ Offered # <<>> \/ ticks # <<>> => Uncounted = 0
  BY <1>1, <1>e DEF IInv, BurstPhases, Offered, InFlight, Uncounted
<1>4. /\ Len(wire) + Len(txq) + 1 + dropped_pkts = N
      /\ Pushed + 1 = N + K + Len(ring)
  BY <1>1, <1>2 DEF IInv, TicksAccounted, PushedAccounted, SentAccounted
<1>5. N \in Nat
  BY <1>1, <1>2
<1>6. ASSUME NEW i \in 1 .. Len(wire) PROVE wire[i] \in Nat /\ wire[i] <= N
  BY <1>1, <1>4, <1>5, <1>6, Elements DEF IInv, Numbering
<1>7. ASSUME NEW i \in 1 .. Len(txq) PROVE txq[i] \in Nat /\ txq[i] <= N
  BY <1>1, <1>4, <1>5, <1>7, Elements DEF IInv, Numbering
<1>8. ASSUME NEW i \in 1 .. Len(Offered) PROVE Offered[i] = N + i
  <2>1. Offered # <<>>
    BY <1>e
  <2> QED
    BY <1>1, <1>3, <2>1 DEF IInv, Numbering
<1>9. ASSUME NEW i \in 1 .. Len(ticks) PROVE ticks[i] = N + i
  <2>1. ticks # <<>>
    BY <1>e
  <2> QED
    BY <1>1, <1>3, <2>1 DEF IInv, Numbering
<1>10. ASSUME NEW i \in 1 .. Len(ring) PROVE ring[i] = N + K + i
  <2>1. ring[i] = Pushed + 1 - Len(ring) + i
    BY DEF IInv, Numbering
  <2> HIDE DEF N, K
  <2> QED
    BY <1>1, <1>2, <1>4, <1>5, <2>1
<1>11. ASSUME NEW i \in 1 .. Len(InHand) PROVE i = 1 /\ InHand[i] = N + K + Len(ring) + 1
  <2>1. prodPc \in {"push", "full"} /\ InHand = <<seq>> /\ i = 1
    BY <1>e DEF InHand
  <2>2. seq = Pushed + 2
    BY <2>1 DEF IInv, Numbering
  <2> HIDE DEF N, K
  <2> QED
    BY <1>1, <1>2, <1>4, <1>5, <2>1, <2>2
<1> QED
  BY <1>2, <1>3, <1>5, <1>6, <1>7, <1>8, <1>9, <1>10, <1>11

\* Ticks reach the wire in the order in which they were generated, whatever
\* the sizes of the ring, the bursts and the TX queue.
THEOREM TicksInOrder == Spec => []PathInOrder
<1>1. IInv => PathInOrder
  <2> SUFFICES ASSUME IInv, NEW a \in 1 .. 6, NEW b \in 1 .. 6,
                      NEW i \in 1 .. Len(Path[a]), NEW j \in 1 .. Len(Path[b]),
                      a < b \/ (a = b /\ i < j)
               PROVE  Path[a][i] < Path[b][j]
    BY DEF PathInOrder
  <2> DEFINE N == sent_pkts + dropped_pkts + 1 + Uncounted
             K == InFlight - Uncounted
  <2>1. /\ N \in Nat /\ K \in Nat /\ Len(Offered) \in Nat
        /\ Len(Offered) <= K /\ Len(ticks) <= K
        /\ Offered = <<>> \/ ticks = <<>>
        /\ \A k \in 1 .. Len(wire) : wire[k] \in Nat /\ wire[k] <= N
        /\ \A k \in 1 .. Len(txq) : txq[k] \in Nat /\ txq[k] <= N
        /\ \A k \in 1 .. Len(Offered) : Offered[k] = N + k
        /\ \A k \in 1 .. Len(ticks) : ticks[k] = N + k
        /\ \A k \in 1 .. Len(ring) : ring[k] = N + K + k
        /\ \A k \in 1 .. Len(InHand) : k = 1 /\ InHand[k] = N + K + Len(ring) + 1
    BY PathNumbers
  <2>2. /\ Path[1] = wire /\ Path[2] = txq /\ Path[3] = Offered
        /\ Path[4] = ticks /\ Path[5] = ring /\ Path[6] = InHand
    BY DEF Path
  <2>3. Len(ticks) \in Nat /\ Len(ring) \in Nat
    BY Counts DEF IInv
  <2>e. Len(<<>>) = 0
    BY EmptySeq
  <2>n. N \in Nat /\ K \in Nat
    BY <2>1
  <2> HIDE DEF N, K
  <2>4. CASE b <= 2
    BY <2>2, <2>4, SMTT(30) DEF IInv, SentIncreasing, Increasing
  <2>5. CASE b >= 3
    <3>0. i \in Nat \ {0} /\ j \in Nat \ {0}
      <4>1. /\ Len(wire) \in Nat /\ Len(txq) \in Nat /\ Len(Offered) \in Nat
            /\ Len(InHand) \in Nat
        <5>1. wire \in Seq(Ticks) /\ txq \in Seq(Ticks)
          BY DEF IInv, TypeOK
        <5>2. Len(InHand) \in Nat
          BY DEF InHand
        <5> QED
          BY <2>1, <5>1, <5>2
      <4>2. ASSUME NEW c \in 1 .. 6 PROVE Len(Path[c]) \in Nat
        BY <2>2, <2>3, <4>1
      <4>3. Len(Path[a]) \in Nat /\ Len(Path[b]) \in Nat
        BY <4>2
      <4> QED
        BY <4>3
    <3>a. b = 5 => Path[b][j] = N + K + j /\ j <= Len(ring)
      BY <2>1, <2>2
    <3>b. b = 6 => Path[b][j] = N + K + Len(ring) + 1
      BY <2>1, <2>2
    <3>1. Path[b][j] > N /\ Path[b][j] \in Nat
      <4>1. CASE b = 3 \/ b = 4
        <5>1. Path[b][j] = N + j
          BY <2>1, <2>2, <4>1
        <5> QED
          BY <2>n, <3>0, <5>1
      <4>2. CASE b = 5
        BY <3>0, <3>a, <2>n, <4>2
      <4>3. CASE b = 6
        BY <2>3, <3>b, <2>n, <4>3
      <4> QED
        BY <2>5, <4>1, <4>2, <4>3
    <3>2. CASE a <= 2
      <4>1. Path[a][i] \in Nat /\ Path[a][i] <= N
        BY <2>1, <2>2, <3>2
      <4> QED
        BY <2>n, <3>1, <4>1
    <3>3. CASE a = 3 \/ a = 4
      <4>1. Path[a][i] = N + i /\ i <= K
        BY <2>1, <2>2, <2>3, <3>3, SMTT(30)
      <4>2. CASE b = a
        <5>1. Path[b][j] = N + j
          BY <2>1, <2>2, <3>3, <4>2
        <5> QED
          BY <2>n, <3>0, <4>1, <4>2, <5>1
      <4>3. ~(a = 3 /\ b = 4)
        BY <2>1, <2>2, <2>e
      <4>4. CASE b >= 5
        <5>1. Path[b][j] > N + K
          BY <2>5, <2>n, <2>3, <3>0, <3>a, <3>b, <4>4
        <5> QED
          BY <2>n, <2>3, <3>0, <3>1, <4>1, <5>1
      <4> QED
        BY <3>3, <4>2, <4>3, <4>4
    <3>4. CASE a >= 5
      <4>1. CASE a = 5 /\ b = 5
        <5>1. Path[a][i] = N + K + i
          BY <2>1, <2>2, <4>1
        <5> QED
          BY <2>n, <3>0, <3>a, <4>1, <5>1
      <4>2. CASE a = 5 /\ b = 6
        <5>1. Path[a][i] = N + K + i /\ i <= Len(ring)
          BY <2>1, <2>2, <4>2
        <5> QED
          BY <2>n, <2>3, <3>0, <3>b, <4>2, <5>1
      <4>3. ~(a = 6 /\ b = 6)
        BY <2>1, <2>2
      <4> QED
        BY <3>4, <4>1, <4>2, <4>3
    <3> QED
      BY <3>2, <3>3, <3>4
  <2> QED
    BY <2>4, <2>5
<1> QED
  BY <1>1, Invariance, PTL

\* A receiver never misses more numbers than dropped_pkts has counted.
THEOREM LossesAreReported == Spec => []GapsAreCounted
<1>1. IInv => GapsAreCounted
  <2> SUFFICES ASSUME IInv, wire # <<>>
               PROVE  wire[Len(wire)] - 1 - Len(wire) <= dropped_pkts
    BY DEF GapsAreCounted
  <2>1. Len(wire) \in Nat /\ dropped_pkts \in Nat /\ Len(wire) # 0
    BY Counts, EmptySeq DEF IInv, TypeOK
  <2>2. wire[Len(wire)] \in Nat /\ wire[Len(wire)] <= Len(wire) + 1 + dropped_pkts
    BY <2>1, Elements DEF IInv, Numbering
  <2> QED
    BY <2>1, <2>2
<1> QED
  BY <1>1, Invariance, PTL

\* tx_burst and the frees run only while the port is up.
THEOREM PortStaysUp == Spec => []PortOutlivesThreads
<1>1. IInv => PortOutlivesThreads
  BY DEF IInv, Joined, PortOutlivesThreads, InitPcs, ShutdownPcs
<1> QED
  BY <1>1, Invariance, PTL

\* The shutdown race leaves at most one tick in the ring.
THEOREM OneTickStranded == Spec => []StrandedAtMostOne
<1>1. IInv => StrandedAtMostOne
  <2> SUFFICES ASSUME IInv, pubPc = "finished" PROVE Len(ring) <= 1
    BY DEF StrandedAtMostOne
  <2>1. Len(ring) \in Nat
    BY LenProperties DEF IInv, TypeOK
  <2> QED
    BY <2>1 DEF IInv, Draining
<1> QED
  BY <1>1, Invariance, PTL
=============================================================================
