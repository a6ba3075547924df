------------------------------ MODULE MdpProofs ------------------------------
(***************************************************************************)
(* Theorems about the earlier publishers, whatever the size of the ring.   *)
(* The module extends MdpV3 and has MdpV2 as V2; the producer thread they  *)
(* share (TickProducer) has two names then, which the first lemma about V2 *)
(* identifies.                                                             *)
(***************************************************************************)
EXTENDS MdpV3, GapCheck, SequenceTheorems, TLAPS

VARIABLE consPc

V2 == INSTANCE MdpV2
-----------------------------------------------------------------------------
(***************************************************************************)
(* What the steps of the producer and a pop do to the parts of the         *)
(* invariants that MdpV2 and MdpV3 share.                                  *)
(***************************************************************************)

\* The lengths and counters are numbers.
LEMMA Counts ==
  ASSUME ProducerTypeOK
  PROVE  /\ Len(ring) \in Nat /\ Pushed \in Nat /\ Popped \in Int
         /\ FirstSeq \in Nat /\ Capacity \in Nat \ {0}
  BY LenProperties, ProducerAssumption DEF ProducerTypeOK, Pushed, Popped

\* push() appends the tick at the end of the ring.
LEMMA PushedTick ==
  ASSUME NEW s \in Seq(Nat), NEW n \in Nat
  PROVE  /\ Append(s, n) \in Seq(Nat)
         /\ Len(Append(s, n)) = Len(s) + 1
         /\ \A i \in 1 .. Len(s) : Append(s, n)[i] = s[i]
         /\ Append(s, n)[Len(s) + 1] = n
  BY AppendProperties

\* pop() takes the first tick.
LEMMA PoppedTick ==
  ASSUME NEW s \in Seq(Nat), s # <<>>
  PROVE  /\ Tail(s) \in Seq(Nat)
         /\ Len(s) \in Nat \ {0} /\ Len(Tail(s)) = Len(s) - 1
         /\ Head(s) = s[1] /\ Head(s) \in Nat
         /\ \A i \in 1 .. Len(s) - 1 : Tail(s)[i] = s[i + 1]
  BY HeadTailProperties, LenProperties, EmptySeq

\* The producer keeps its numbering, and takes nothing out of the ring.
LEMMA ProducerNumbers ==
  ASSUME ProducerTypeOK, Numbered, ProducerStep
  PROVE  /\ ProducerTypeOK' /\ Numbered' /\ Popped' = Popped
         /\ UNCHANGED RUNNING
<1>n. /\ Len(ring) \in Nat /\ Pushed \in Nat /\ Popped \in Int
      /\ FirstSeq \in Nat /\ Capacity \in Nat \ {0}
  BY Counts
<1> USE <1>n
<1>1. CASE Push /\ Len(ring) < Capacity
  <2>1. /\ ring' = Append(ring, tick) /\ prodPc = "push" /\ prodPc' = "count"
        /\ tick = FirstSeq + Pushed /\ tick \in Nat /\ ring \in Seq(Nat)
        /\ UNCHANGED <<RUNNING, status, nextSeq, produced>>
    BY <1>1 DEF Push, Numbered, tick, ProducerTypeOK
  <2>2. /\ ring' \in Seq(Nat) /\ Len(ring') = Len(ring) + 1
        /\ \A i \in 1 .. Len(ring) : ring'[i] = ring[i]
        /\ ring'[Len(ring) + 1] = FirstSeq + Pushed
    BY <2>1, PushedTick
  <2>3. Pushed' = Pushed + 1 /\ Popped' = Popped
    BY <2>1, <2>2 DEF Pushed, Popped, ProducerTypeOK
  <2>4. ASSUME NEW i \in 1 .. Len(ring') PROVE ring'[i] = FirstSeq + Popped' + i - 1
    <3>1. i \in 1 .. Len(ring) \/ i = Len(ring) + 1
      BY <2>2
    <3>2. CASE i \in 1 .. Len(ring)
      BY <2>2, <2>3, <3>2 DEF Numbered
    <3>3. CASE i = Len(ring) + 1
      BY <2>2, <2>3, <3>3 DEF Popped
    <3> QED
      BY <3>1, <3>2, <3>3
  <2>5. ProducerTypeOK'
    BY <1>1, <2>1, <2>2 DEF ProducerTypeOK
  <2>6. Numbered'
    BY <2>1, <2>2, <2>3, <2>4 DEF Numbered, tick, ProducerTypeOK
  <2> QED
    BY <2>1, <2>3, <2>5, <2>6
<1>2. ASSUME UNCHANGED ring, Pushed' = Pushed PROVE Popped' = Popped
  BY <1>2 DEF Popped
<1>3. CASE Pin \/ Generate \/ Leave \/ (Push /\ ~(Len(ring) < Capacity)) \/ Retry
  <2>1. UNCHANGED <<RUNNING, ring>> /\ Pushed' = Pushed
    BY <1>3 DEF Pin, Generate, Leave, Push, Retry, Pushed
  <2>2. ProducerTypeOK'
    BY <1>3 DEF Pin, Generate, Leave, Push, Retry, ProducerTypeOK
  <2>3. Numbered'
    BY <1>2, <1>3, <2>1 DEF Pin, Generate, Leave, Push, Retry, Numbered, ProducerTypeOK
  <2> QED
    BY <1>2, <2>1, <2>2, <2>3
<1>4. CASE Count
  <2>1. UNCHANGED <<RUNNING, ring>> /\ Pushed' = Pushed
    BY <1>4 DEF Count, Pushed, ProducerTypeOK
  <2>2. ProducerTypeOK'
    BY <1>4 DEF Count, ProducerTypeOK
  <2>3. Numbered'
    BY <1>2, <1>4, <2>1 DEF Count, Numbered
  <2> QED
    BY <1>2, <2>1, <2>2, <2>3
<1> QED
  BY <1>1, <1>3, <1>4 DEF ProducerStep

\* A pop keeps the numbering and gives the next number that has not been taken.
LEMMA PopNumbers ==
  ASSUME ProducerTypeOK, Numbered, ring # <<>>,
         ring' = Tail(ring), UNCHANGED <<RUNNING, status, prodPc, nextSeq, produced>>
  PROVE  /\ ProducerTypeOK' /\ Numbered' /\ Popped' = Popped + 1
         /\ Head(ring) = FirstSeq + Popped /\ Head(ring) \in Nat
<1>n. /\ Len(ring) \in Nat /\ Pushed \in Nat /\ Popped \in Int
      /\ FirstSeq \in Nat /\ Capacity \in Nat \ {0}
  BY Counts
<1>1. /\ ring' \in Seq(Nat) /\ Len(ring) # 0 /\ Len(ring') = Len(ring) - 1
      /\ Head(ring) = ring[1] /\ Head(ring) \in Nat
      /\ \A i \in 1 .. Len(ring) - 1 : ring'[i] = ring[i + 1]
  BY PoppedTick DEF ProducerTypeOK
<1>2. Pushed' = Pushed /\ Popped' = Popped + 1
  BY <1>n, <1>1 DEF Pushed, Popped
<1>3. Head(ring) = FirstSeq + Popped
  BY <1>n, <1>1 DEF Numbered
<1>4. ASSUME NEW i \in 1 .. Len(ring') PROVE ring'[i] = FirstSeq + Popped' + i - 1
  <2>1. i \in 1 .. Len(ring) - 1 /\ i + 1 \in 1 .. Len(ring)
    BY <1>n, <1>1
  <2>2. ring'[i] = FirstSeq + Popped + (i + 1) - 1
    BY <1>1, <2>1 DEF Numbered
  <2> QED
    BY <1>n, <1>2, <2>1, <2>2
<1>5. ProducerTypeOK'
  BY <1>n, <1>1 DEF ProducerTypeOK
<1>6. Numbered'
  BY <1>n, <1>1, <1>2, <1>4 DEF Numbered
<1> QED
  BY <1>1, <1>2, <1>3, <1>5, <1>6

\* Once the flag is cleared the producer pushes one more tick at most.
LEMMA LastTickStep ==
  ASSUME ProducerTypeOK, LastTick, ~RUNNING, ProducerStep
  PROVE  LastTick'
<1>n. Len(ring) \in Nat
  BY Counts
<1>1. CASE Push /\ Len(ring) < Capacity
  <2>1. ring = <<>> /\ ring' = Append(ring, tick) /\ prodPc' = "count"
    BY <1>1 DEF Push, LastTick
  <2>2. Len(ring') = 1
    BY <2>1, EmptySeq, AppendProperties
  <2> QED
    BY <2>1, <2>2 DEF LastTick
<1>2. CASE ring' = ring /\ prodPc' \in {"loop", "finished", "push", "full"} /\ ProducerStep
  BY <1>n, <1>2 DEF LastTick, ProducerStep, Pin, Generate, Leave, Push, Retry, Count
<1> QED
  BY <1>1, <1>2 DEF ProducerStep, Pin, Generate, Leave, Push, Retry, Count, LastTick
-----------------------------------------------------------------------------
(***************************************************************************)
(* mdp_v3.cpp.                                                             *)
(***************************************************************************)

LEMMA V3Init == Init => IInv
<1> SUFFICES ASSUME Init PROVE IInv
  OBVIOUS
<1>1. /\ ring = <<>> /\ Len(ring) = 0 /\ ring \in Seq(Nat)
      /\ net = <<>> /\ Len(net) = 0 /\ net \in Seq(Nat)
  BY EmptySeq DEF Init, ProducerInit
<1>2. Popped = 0 /\ Pushed = 0
  <2>1. Len(ring) = 0 /\ produced = 0 /\ prodPc # "count"
    BY <1>1 DEF Init, ProducerInit
  <2> QED
    BY <2>1 DEF Pushed, Popped
<1>3. TypeOK
  <2>1. ProducerTypeOK
    BY <1>1, ProducerAssumption DEF Init, ProducerInit, ProducerTypeOK
  <2>2. addrinfo \in BOOLEAN
    BY DEF Init, SetupInit
  <2> QED
    BY <1>1, <2>1, <2>2 DEF Init, SetupInit, SetupPcs, TypeOK
<1>4. Numbered /\ Born /\ Draining
  BY <1>1, <1>2, ProducerAssumption DEF Init, ProducerInit, Numbered, Born, Draining
<1>5. SentInOrder /\ Sending
  BY <1>1, <1>2 DEF Init, SentInOrder, Sending
<1> QED
  BY <1>3, <1>4, <1>5 DEF IInv

\* A step that neither takes a tick out of the ring nor sends one.
LEMMA V3QuietStep ==
  ASSUME SentInOrder, Sending, Popped' = Popped, UNCHANGED <<taken, sent, net>>,
         pubPc' = pubPc \/ {pubPc, pubPc'} \cap {"send", "count"} = {}
  PROVE  SentInOrder' /\ Sending'
<1>1. /\ (pubPc' = "count") <=> (pubPc = "count")
      /\ (pubPc' = "send") <=> (pubPc = "send")
  OBVIOUS
<1> QED
  BY <1>1 DEF SentInOrder, Sending

\* What main() and the signal leave alone keeps its numbering.
LEMMA RingUntouched ==
  ASSUME Numbered, UNCHANGED <<ring, nextSeq, produced>>,
         prodPc' = prodPc \/ (prodPc = "unborn" /\ prodPc' = "pin")
  PROVE  Numbered' /\ Popped' = Popped
<1>1. Pushed' = Pushed
  BY DEF Pushed
<1> QED
  BY <1>1 DEF Numbered, Popped

LEMMA V3PublisherStep ==
  ASSUME IInv, Publisher
  PROVE  IInv'
<1> USE DEF prodVars, sockVars
<1>t. /\ TypeOK /\ ProducerTypeOK /\ Numbered /\ Born /\ SentInOrder /\ Sending
      /\ Draining
  BY DEF IInv, TypeOK
<1>u. UNCHANGED <<prodVars, mainPc>> /\ pubPc # "unborn"
  BY DEF Publisher, PublisherPin, PublisherLoop, PublisherLoopEmpty, PublisherPop,
         PublisherRetry, PublisherRetryEmpty, PublisherSend, PublisherStop, PublisherCount
<1>b. Born'
  BY <1>t, <1>u DEF Born
<1>n. /\ Len(ring) \in Nat /\ Pushed \in Nat /\ Popped \in Int /\ FirstSeq \in Nat
      /\ Len(net) \in Nat
  BY <1>t, Counts, LenProperties DEF TypeOK
<1>1. CASE PublisherPop /\ ring # <<>>
  <2>1. /\ taken' = Head(ring) /\ ring' = Tail(ring) /\ pubPc = "pop" /\ pubPc' = "send"
        /\ UNCHANGED <<RUNNING, status, sent, socket, addrinfo, net>>
    BY <1>1 DEF PublisherPop
  <2>2. /\ ProducerTypeOK' /\ Numbered' /\ Popped' = Popped + 1
        /\ Head(ring) = FirstSeq + Popped /\ Head(ring) \in Nat
    BY <1>1, <1>t, <1>u, <2>1, PopNumbers
  <2>3. TypeOK'
    BY <1>t, <1>u, <2>1, <2>2 DEF TypeOK
  <2>4. SentInOrder'
    BY <1>t, <2>1 DEF SentInOrder
  <2>5. Sending'
    BY <1>t, <1>n, <2>1, <2>2 DEF Sending
  <2>6. Draining'
    BY <2>1 DEF Draining
  <2> QED
    BY <1>b, <2>2, <2>3, <2>4, <2>5, <2>6 DEF IInv
<1>2. CASE PublisherSend /\ net' = Append(net, taken)
  <2>1. /\ pubPc = "send" /\ pubPc' = "count"
        /\ UNCHANGED <<RUNNING, status, ring, taken, sent, socket, addrinfo>>
    <3>1. Len(net') = Len(net) + 1
      BY <1>2, <1>t, PushedTick DEF TypeOK
    <3>2. net' # net
      BY <1>n, <3>1
    <3> QED
      BY <1>2, <3>2 DEF PublisherSend
  <2>2. /\ net' \in Seq(Nat) /\ Len(net') = Len(net) + 1
        /\ \A i \in 1 .. Len(net) : net'[i] = net[i]
        /\ net'[Len(net) + 1] = taken
    BY <1>2, <1>t, PushedTick DEF TypeOK
  <2>3. Numbered' /\ Popped' = Popped
    BY <1>t, <1>u, <2>1, RingUntouched
  <2>4. taken = FirstSeq + Popped - 1 /\ \A i \in 1 .. Len(net) : net[i] < taken
    BY <1>t, <1>n, <2>1 DEF Sending
  <2>5. \A i \in 1 .. Len(net') : i \in 1 .. Len(net) \/ i = Len(net) + 1
    BY <1>n, <2>2
  <2>6. SentInOrder'
    <3>1. ASSUME NEW i \in 1 .. Len(net') - 1 PROVE net'[i] < net'[i + 1]
      <4>1. i \in 1 .. Len(net) /\ (i = Len(net) \/ i \in 1 .. Len(net) - 1)
        BY <1>n, <2>2
      <4>2. CASE i = Len(net)
        BY <2>2, <2>4, <4>1, <4>2
      <4>3. CASE i \in 1 .. Len(net) - 1
        <5>1. i + 1 \in 1 .. Len(net)
          BY <1>n, <4>3
        <5> QED
          BY <1>t, <2>2, <4>1, <4>3, <5>1 DEF SentInOrder
      <4> QED
        BY <4>1, <4>2, <4>3
    <3> QED
      BY <1>t, <1>n, <2>1, <2>2, <3>1 DEF SentInOrder, TypeOK
  <2>7. Sending'
    <3>1. ASSUME NEW i \in 1 .. Len(net') PROVE net'[i] < FirstSeq + Popped
      <4>1. CASE i \in 1 .. Len(net)
        <5>1. net[i] < taken /\ net'[i] = net[i] /\ net[i] \in Nat
          BY <1>t, <2>2, <2>4, <4>1, ElementOfSeq DEF TypeOK
        <5> QED
          BY <1>n, <2>4, <5>1
      <4>2. CASE i = Len(net) + 1
        BY <1>n, <2>2, <2>4, <4>2
      <4> QED
        BY <2>5, <4>1, <4>2
    <3> QED
      BY <2>1, <2>3, <3>1, <1>n DEF Sending
  <2>8. TypeOK' /\ Draining'
    BY <1>t, <1>u, <2>1, <2>2 DEF TypeOK, ProducerTypeOK, Draining
  <2> QED
    BY <1>b, <2>3, <2>6, <2>7, <2>8 DEF IInv
<1>3. CASE PublisherSend /\ net' = net
  <2>1. /\ pubPc = "send" /\ pubPc' \in {"loop", "stop"}
        /\ UNCHANGED <<RUNNING, status, ring, taken, sent, addrinfo, net>>
        /\ \/ pubPc' = "loop" /\ UNCHANGED socket
           \/ pubPc' = "stop" /\ socket' = "failed"
    <3>1. net' # Append(net, taken)
      <4>1. Len(Append(net, taken)) = Len(net) + 1
        BY <1>t, PushedTick DEF TypeOK
      <4> QED
        BY <1>3, <1>n, <4>1
    <3> QED
      BY <1>3, <3>1 DEF PublisherSend
  <2>2. Numbered' /\ Popped' = Popped
    BY <1>t, <1>u, <2>1, RingUntouched
  <2>3. SentInOrder'
    BY <1>t, <2>1 DEF SentInOrder
  <2>4. Sending'
    <3>1. ASSUME NEW i \in 1 .. Len(net) PROVE net[i] < FirstSeq + Popped
      <4>1. net[i] < FirstSeq + Popped - 1 /\ net[i] \in Nat
        BY <1>t, <2>1, ElementOfSeq DEF Sending, TypeOK
      <4> QED
        BY <1>n, <4>1
    <3> QED
      BY <2>1, <2>2, <3>1, <1>n DEF Sending
  <2>5. TypeOK' /\ Draining'
    BY <1>t, <1>u, <2>1 DEF TypeOK, ProducerTypeOK, Draining
  <2> QED
    BY <1>b, <2>2, <2>3, <2>4, <2>5 DEF IInv
<1>4. CASE PublisherCount
  <2>1. /\ pubPc = "count" /\ pubPc' = "loop" /\ sent' = sent + 1
        /\ UNCHANGED <<RUNNING, status, ring, taken, socket, addrinfo, net>>
    BY <1>4 DEF PublisherCount
  <2>2. Numbered' /\ Popped' = Popped
    BY <1>t, <1>u, <2>1, RingUntouched
  <2>3. SentInOrder' /\ Sending'
    BY <1>t, <2>1, <2>2 DEF SentInOrder, Sending, TypeOK
  <2>4. TypeOK' /\ Draining'
    BY <1>t, <1>u, <2>1 DEF TypeOK, ProducerTypeOK, Draining
  <2> QED
    BY <1>b, <2>2, <2>3, <2>4 DEF IInv
<1>5. CASE \/ PublisherPin \/ PublisherLoop \/ PublisherLoopEmpty
           \/ (PublisherPop /\ ring = <<>>) \/ PublisherRetry \/ PublisherRetryEmpty
           \/ PublisherStop
  <2>1. /\ UNCHANGED <<ring, taken, sent, socket, addrinfo, net>>
        /\ {pubPc, pubPc'} \cap {"send", "count"} = {}
        /\ status' \in {"running", "success", "failure"} /\ RUNNING' \in BOOLEAN
        /\ pubPc' \in {"pin", "loop", "loopEmpty", "pop", "retry", "retryEmpty", "finished"}
    BY <1>5, <1>t DEF PublisherPin, PublisherLoop, PublisherLoopEmpty, PublisherPop,
         PublisherRetry, PublisherRetryEmpty, PublisherStop, TypeOK, ProducerTypeOK
  <2>2. Numbered' /\ Popped' = Popped
    BY <1>t, <1>u, <2>1, RingUntouched
  <2>3. TypeOK'
    BY <1>t, <1>u, <2>1 DEF TypeOK, ProducerTypeOK
  <2>4. SentInOrder' /\ Sending'
    BY <1>t, <2>1, <2>2, V3QuietStep
  <2>5. Draining'
    <3>1. ring = <<>> => LastTick'
      BY <2>1, EmptySeq DEF LastTick
    <3> QED
      BY <1>5, <1>t, <1>u, <2>1, <3>1
         DEF PublisherPin, PublisherLoop, PublisherLoopEmpty, PublisherPop,
             PublisherRetry, PublisherRetryEmpty, PublisherStop, Draining
  <2> QED
    BY <1>b, <2>2, <2>3, <2>4, <2>5 DEF IInv
<1>6. PublisherSend => net' = net \/ net' = Append(net, taken)
  BY DEF PublisherSend
<1> QED
  BY <1>1, <1>2, <1>3, <1>4, <1>5, <1>6 DEF Publisher

LEMMA V3Step == IInv /\ [Next]_vars => IInv'
<1> SUFFICES ASSUME IInv, [Next]_vars PROVE IInv'
  OBVIOUS
<1> USE DEF pubVars, prodVars, sockVars
<1>t. /\ TypeOK /\ ProducerTypeOK /\ Numbered /\ Born /\ SentInOrder /\ Sending
      /\ Draining
  BY DEF IInv, TypeOK
<1>1. CASE Signal \/ Exited \/ UNCHANGED vars
  <2>1. /\ UNCHANGED <<status, prodVars, ring, mainPc, pubVars, sockVars, net>>
        /\ RUNNING' \in BOOLEAN /\ (~RUNNING => ~RUNNING')
    <3>1. CASE Signal
      BY <3>1 DEF Signal
    <3>2. CASE Exited \/ UNCHANGED vars
      <4>1. UNCHANGED <<RUNNING, status, prodVars, ring, mainPc, pubVars, sockVars, net>>
        BY <3>2 DEF Exited, vars
      <4> QED
        BY <1>t, <4>1 DEF ProducerTypeOK
    <3> QED
      BY <1>1, <3>1, <3>2
  <2>2. TypeOK' /\ Born'
    BY <1>t, <2>1 DEF TypeOK, ProducerTypeOK, Born
  <2>3. Draining'
    <3>1. LastTick => LastTick'
      BY <2>1 DEF LastTick
    <3>2. UNCHANGED <<pubPc, socket>> /\ (~RUNNING => ~RUNNING')
      BY <2>1
    <3> QED
      BY <1>t, <3>1, <3>2, Zenon DEF Draining
  <2> QED
    BY <1>t, <2>1, <2>2, <2>3, RingUntouched, V3QuietStep DEF IInv
<1>2. CASE Producer
  <2>1. /\ ProducerTypeOK' /\ Numbered' /\ Popped' = Popped /\ UNCHANGED RUNNING
        /\ UNCHANGED <<mainPc, pubVars, sockVars, net>>
    BY <1>2, <1>t, ProducerNumbers DEF Producer
  <2>2. prodPc # "unborn"
    BY <1>2 DEF Producer, ProducerStep, Pin, Generate, Leave, Push, Retry, Count
  <2>3. TypeOK' /\ Born'
    BY <1>t, <2>1, <2>2 DEF TypeOK, Born
  <2>4. ~RUNNING /\ LastTick => LastTick'
    BY <1>2, <1>t, LastTickStep DEF Producer
  <2>5. Draining'
    BY <1>t, <2>1, <2>4 DEF Draining
  <2> QED
    BY <1>t, <2>1, <2>3, <2>5, V3QuietStep DEF IInv
<1>3. CASE Publisher
  BY <1>3, V3PublisherStep
<1>4. CASE Main
  <2>1. /\ UNCHANGED <<RUNNING, ring, nextSeq, produced, taken, sent, net>>
        /\ prodPc' = prodPc \/ (prodPc = "unborn" /\ prodPc' = "pin")
        /\ pubPc' = pubPc \/ (pubPc = "unborn" /\ pubPc' = "pin")
        /\ Born'
    BY <1>4, <1>t DEF Main, MainSetup, setup, getaddrinfo, create_socket, attach,
         freeaddrinfo, MainSpawnProducer, MainSpawnPublisher, MainStats,
         MainJoinProducer, MainJoinPublisher, MainShutdown, MainClose, Born, SetupPcs
  <2>2. \/ UNCHANGED socket \/ socket' \in {"shut", "closed"}
        \/ pubPc = "unborn" /\ pubPc' = "unborn" /\ socket' = "open"
    BY <1>4, <1>t DEF Main, MainSetup, setup, getaddrinfo, create_socket, attach,
         freeaddrinfo, MainSpawnProducer, MainSpawnPublisher, MainStats,
         MainJoinProducer, MainJoinPublisher, MainShutdown, MainClose, Born, SetupPcs
  <2>3. /\ status' \in {"running", "success", "failure"} /\ addrinfo' \in BOOLEAN
        /\ mainPc' \in SetupPcs \cup
             {"spawnProducer", "spawnPublisher", "stats", "joinProducer",
              "joinPublisher", "shutdown", "close"}
    BY <1>4, <1>t DEF Main, MainSetup, setup, getaddrinfo, create_socket, attach,
         freeaddrinfo, MainSpawnProducer, MainSpawnPublisher, MainStats,
         MainJoinProducer, MainJoinPublisher, MainShutdown, MainClose, SetupPcs,
         TypeOK, ProducerTypeOK
  <2>4. TypeOK'
    BY <1>t, <2>1, <2>2, <2>3 DEF TypeOK, ProducerTypeOK
  <2>5. Draining'
    <3>1. LastTick => LastTick'
      BY <2>1 DEF LastTick
    <3> QED
      BY <1>t, <2>1, <2>2, <3>1 DEF Draining
  <2>6. {pubPc, pubPc'} \cap {"send", "count"} = {} \/ pubPc' = pubPc
    BY <2>1
  <2> QED
    BY <1>t, <2>1, <2>4, <2>5, <2>6, RingUntouched, V3QuietStep DEF IInv
<1> QED
  BY <1>1, <1>2, <1>3, <1>4 DEF Next

LEMMA V3Invariance == Spec => []IInv
  BY V3Init, V3Step, PTL DEF Spec

\* The datagrams the kernel takes have increasing numbers, and `sent' counts
\* exactly those.
THEOREM DatagramsInOrder == Spec => []SentInOrder
<1>1. IInv => SentInOrder
  BY DEF IInv
<1> QED
  BY <1>1, V3Invariance, PTL

\* When the publisher has left without an error one tick may be in the ring.
THEOREM OneTickStranded == Spec => []StrandedAtMostOne
<1>1. IInv => StrandedAtMostOne
  BY DEF IInv, Draining, LastTick, StrandedAtMostOne
<1> QED
  BY <1>1, V3Invariance, PTL

\* What main() holds; the threads, which do not exist while it sets up the
\* socket, cannot disturb that.
LEMMA HoldsStep ==
  ASSUME Born, SetupHolds, [Next]_vars
  PROVE  SetupHolds'
<1> USE DEF SetupPcs, sockVars
<1>1. CASE Signal \/ Exited \/ UNCHANGED vars
  BY <1>1 DEF Signal, Exited, vars, SetupHolds
<1>2. CASE Producer
  <2>1. mainPc \notin SetupPcs
    BY <1>2 DEF Producer, ProducerStep, Pin, Generate, Leave, Push, Retry, Count, Born
  <2>2. status' \in {"running", "failure"} /\ status = "running"
        /\ UNCHANGED <<mainPc, sockVars>>
    BY <1>2 DEF Producer, ProducerStep, Pin, Generate, Leave, Push, Retry, Count
  <2> QED
    BY <2>1, <2>2 DEF SetupHolds
<1>3. CASE Publisher
  <2>1. mainPc \notin SetupPcs
    BY <1>3 DEF Publisher, PublisherPin, PublisherLoop, PublisherLoopEmpty, PublisherPop,
         PublisherRetry, PublisherRetryEmpty, PublisherSend, PublisherStop, PublisherCount,
         Born
  <2>2. status' \in {"running", "failure"} /\ status = "running"
        /\ UNCHANGED <<mainPc, addrinfo>>
    BY <1>3 DEF Publisher, PublisherPin, PublisherLoop, PublisherLoopEmpty, PublisherPop,
         PublisherRetry, PublisherRetryEmpty, PublisherSend, PublisherStop, PublisherCount
  <2> QED
    BY <2>1, <2>2 DEF SetupHolds
<1>4. CASE Main
  BY <1>4 DEF Main, MainSetup, setup, getaddrinfo, create_socket, attach, freeaddrinfo,
       MainSpawnProducer, MainSpawnPublisher, MainStats, MainJoinProducer,
       MainJoinPublisher, MainShutdown, MainClose, SetupHolds
<1> QED
  BY <1>1, <1>2, <1>3, <1>4 DEF Next

\* main() of mdp_v3.cpp gives back the socket and the address list on every
\* way out.
THEOREM V3Releases == Spec => []SetupReleases
<1>1. Init => SetupHolds
  BY DEF Init, ProducerInit, SetupInit, SetupHolds
<1>2. IInv => Born
  BY DEF IInv
<1>3. Born /\ SetupHolds /\ [Next]_vars => SetupHolds'
  BY HoldsStep
<1>4. SetupHolds => SetupReleases
  BY DEF SetupHolds, SetupReleases, SetupPcs
<1> QED
  BY <1>1, <1>2, <1>3, <1>4, V3Invariance, PTL DEF Spec
-----------------------------------------------------------------------------
(***************************************************************************)
(* mdp_v2.1.cpp and mdp_v2.2.cpp.                                          *)
(***************************************************************************)

\* What MdpV2 gets from TickProducer and GapCheck is what is used here.
LEMMA SameProducer ==
  /\ V2!ProducerInit <=> ProducerInit
  /\ V2!ProducerStep <=> ProducerStep
  /\ V2!prodVars = prodVars /\ V2!prodVars' = prodVars'
  /\ V2!Popped = Popped /\ V2!Popped' = Popped'
  /\ V2!ProducerTypeOK <=> ProducerTypeOK
  /\ V2!ProducerTypeOK' <=> ProducerTypeOK'
  /\ V2!Numbered <=> Numbered
  /\ V2!Numbered' <=> Numbered'
<1>1. V2!ProducerInit <=> ProducerInit
  BY DEF V2!ProducerInit, ProducerInit
<1>2. V2!ProducerStep <=> ProducerStep
  BY Zenon
     DEF V2!ProducerStep, ProducerStep, V2!Pin, Pin, V2!Generate, Generate, V2!Leave, Leave,
         V2!Push, Push, V2!tick, tick, V2!Retry, Retry, V2!Count, Count
<1>3. V2!prodVars = prodVars /\ V2!prodVars' = prodVars'
  BY DEF V2!prodVars, prodVars
<1>4. /\ V2!Pushed = Pushed /\ V2!Pushed' = Pushed'
      /\ V2!Popped = Popped /\ V2!Popped' = Popped'
  BY DEF V2!Pushed, Pushed, V2!Popped, Popped
<1>5. /\ V2!ProducerTypeOK <=> ProducerTypeOK
      /\ V2!ProducerTypeOK' <=> ProducerTypeOK'
  BY DEF V2!ProducerTypeOK, ProducerTypeOK
<1>6. V2!Numbered <=> Numbered
  BY <1>4, Zenon DEF V2!Numbered, Numbered
<1>7. V2!Numbered' <=> Numbered'
  BY <1>4, Zenon DEF V2!Numbered, Numbered
<1> QED
  BY <1>1, <1>2, <1>3, <1>4, <1>5, <1>6, <1>7

LEMMA SameCheck ==
  /\ V2!GapInit <=> GapInit
  /\ V2!NoGapPrinted <=> NoGapPrinted
  /\ V2!NoGapPrinted' <=> NoGapPrinted'
  /\ V2!CheckGap(taken) <=> CheckGap(taken)
  BY DEF V2!GapInit, GapInit, V2!NoGapPrinted, NoGapPrinted, V2!CheckGap, CheckGap

LEMMA V2Init ==
  ASSUME FirstSeq = 1, V2!Init
  PROVE  V2!IInv
<1> USE SameProducer, SameCheck
<1>1. ring = <<>> /\ Len(ring) = 0 /\ ring \in Seq(Nat)
  BY EmptySeq DEF V2!Init, ProducerInit
<1>2. V2!TypeOK
  <2>1. ProducerTypeOK
    BY <1>1, ProducerAssumption DEF V2!Init, ProducerInit, ProducerTypeOK
  <2> QED
    BY <2>1 DEF V2!Init, GapInit, V2!TypeOK
<1>3. Numbered /\ V2!Born
  BY <1>1, ProducerAssumption DEF V2!Init, ProducerInit, Numbered, Pushed, Popped, V2!Born
<1>4. V2!Consumption /\ NoGapPrinted
  <2>1. Len(ring) = 0 /\ produced = 0 /\ prodPc # "count"
    BY <1>1 DEF V2!Init, ProducerInit
  <2>2. Popped = 0
    BY <2>1 DEF Pushed, Popped
  <2> QED
    BY <2>2 DEF V2!Init, GapInit, V2!Consumption, NoGapPrinted
<1> QED
  BY <1>2, <1>3, <1>4 DEF V2!IInv

\* A step that changes neither what is in the ring nor the consumer's numbers.
LEMMA V2QuietStep ==
  ASSUME V2!TypeOK, V2!Consumption, NoGapPrinted, Popped' = Popped,
         UNCHANGED <<taken, expected, gaps, consumed>>,
         consPc' = consPc \/ (consPc # "check" /\ consPc' # "check")
  PROVE  V2!Consumption' /\ NoGapPrinted'
<1>1. (consPc' = "check") <=> (consPc = "check")
  OBVIOUS
<1> QED
  BY <1>1, SameProducer DEF V2!Consumption, NoGapPrinted

LEMMA V2Step ==
  ASSUME FirstSeq = 1, V2!IInv, [V2!Next]_(V2!vars)
  PROVE  V2!IInv'
<1> USE SameProducer, SameCheck DEF V2!consVars, prodVars
<1>t. V2!TypeOK /\ ProducerTypeOK /\ Numbered /\ V2!Born /\ V2!Consumption /\ NoGapPrinted
  BY DEF V2!IInv, V2!TypeOK
<1>q. ASSUME UNCHANGED <<ring, nextSeq, produced>>,
             prodPc' = prodPc \/ (prodPc = "unborn" /\ prodPc' = "pin")
      PROVE  Numbered' /\ Popped' = Popped
  <2>1. Pushed' = Pushed
    BY <1>q DEF Pushed
  <2> QED
    BY <1>q, <1>t, <2>1 DEF Numbered, Popped
<1>1. CASE V2!Signal \/ V2!Exited \/ UNCHANGED V2!vars
  <2>1. UNCHANGED <<status, prodVars, ring, mainPc, V2!consVars>> /\ RUNNING' \in BOOLEAN
    BY <1>1, <1>t DEF V2!Signal, V2!Exited, V2!vars, ProducerTypeOK
  <2>2. V2!TypeOK' /\ V2!Born'
    BY <1>t, <2>1 DEF V2!TypeOK, ProducerTypeOK, V2!Born
  <2> QED
    BY <1>q, <1>t, <2>1, <2>2, V2QuietStep DEF V2!IInv
<1>2. CASE V2!Producer
  <2>1. /\ ProducerTypeOK' /\ Numbered' /\ Popped' = Popped
        /\ UNCHANGED <<mainPc, V2!consVars>>
    BY <1>2, <1>t, ProducerNumbers DEF V2!Producer
  <2>2. prodPc # "unborn"
    BY <1>2 DEF V2!Producer, ProducerStep, Pin, Generate, Leave, Push, Retry, Count
  <2>3. V2!TypeOK' /\ V2!Born'
    BY <1>t, <2>1, <2>2 DEF V2!TypeOK, V2!Born
  <2> QED
    BY <1>t, <2>1, <2>3, V2QuietStep DEF V2!IInv
<1>3. CASE V2!Consumer
  <2>1. UNCHANGED <<RUNNING, prodVars, mainPc>> /\ consPc # "unborn"
    BY <1>3 DEF V2!Consumer, V2!ConsumerPin, V2!ConsumerLoop, V2!ConsumerLoopEmpty, V2!ConsumerPop,
                V2!ConsumerRetry, V2!ConsumerRetryEmpty, V2!ConsumerCheck
  <2>2. CASE V2!ConsumerPop /\ ring # <<>>
    <3>1. /\ taken' = Head(ring) /\ ring' = Tail(ring) /\ consPc = "pop" /\ consPc' = "check"
          /\ UNCHANGED <<expected, gaps, consumed, status>>
      BY <2>2 DEF V2!ConsumerPop
    <3>2. /\ ProducerTypeOK' /\ Numbered' /\ Popped' = Popped + 1
          /\ Head(ring) = FirstSeq + Popped /\ Head(ring) \in Nat
      BY <1>t, <2>1, <2>2, <3>1, PopNumbers
    <3>3. V2!TypeOK' /\ V2!Born'
      BY <1>t, <2>1, <3>1, <3>2 DEF V2!TypeOK, V2!Born
    <3>4. V2!Consumption' /\ NoGapPrinted'
      <4>1. Popped = consumed /\ consumed \in Nat
        BY <1>t, <3>1 DEF V2!Consumption, V2!TypeOK
      <4>2. Popped' = consumed' + 1 /\ taken' = FirstSeq + consumed'
        BY <3>1, <3>2, <4>1
      <4> QED
        BY <1>t, <3>1, <4>2 DEF V2!Consumption, NoGapPrinted
    <3> QED
      BY <3>2, <3>3, <3>4 DEF V2!IInv
  <2>3. CASE V2!ConsumerCheck
    <3>1. taken = expected
      BY <1>t, <2>3 DEF V2!ConsumerCheck, CheckGap, V2!Consumption, NoGapPrinted, V2!TypeOK
    <3>2. /\ consPc = "check" /\ consPc' = "loop" /\ gaps' = gaps
          /\ expected' = expected + 1 /\ consumed' = consumed + 1
          /\ UNCHANGED <<taken, ring, status>>
      BY <1>t, <2>3, <3>1 DEF V2!ConsumerCheck, CheckGap, V2!TypeOK
    <3>3. Numbered' /\ Popped' = Popped
      BY <1>q, <2>1, <3>2
    <3>4. V2!TypeOK' /\ V2!Born'
      BY <1>t, <2>1, <3>2 DEF V2!TypeOK, ProducerTypeOK, V2!Born
    <3>5. V2!Consumption' /\ NoGapPrinted'
      <4>1. Popped = consumed + 1 /\ gaps = 0 /\ expected = consumed + 1 /\ consumed \in Nat
        BY <1>t, <3>2 DEF V2!Consumption, NoGapPrinted, V2!TypeOK
      <4>2. Popped' = consumed' /\ gaps' = 0 /\ expected' = consumed' + 1
        BY <3>2, <3>3, <4>1
      <4>3. consPc' # "check"
        BY <3>2
      <4>4. V2!Popped' = consumed' + 0
        BY <3>2, <4>1, <4>2
      <4> QED
        BY <4>2, <4>3, <4>4 DEF V2!Consumption, NoGapPrinted
    <3> QED
      BY <3>3, <3>4, <3>5 DEF V2!IInv
  <2>4. CASE \/ V2!ConsumerPin \/ V2!ConsumerLoop \/ V2!ConsumerLoopEmpty
             \/ (V2!ConsumerPop /\ ring = <<>>) \/ V2!ConsumerRetry \/ V2!ConsumerRetryEmpty
    <3>1. /\ UNCHANGED <<taken, expected, gaps, consumed, ring>>
          /\ consPc # "check" /\ consPc' # "check"
          /\ status' \in {"running", "success", "failure"}
          /\ consPc' \in {"unborn", "pin", "loop", "loopEmpty", "pop", "retry",
                          "retryEmpty", "check", "finished"}
      BY <1>t, <2>4 DEF V2!ConsumerPin, V2!ConsumerLoop, V2!ConsumerLoopEmpty, V2!ConsumerPop,
                        V2!ConsumerRetry, V2!ConsumerRetryEmpty, V2!TypeOK, ProducerTypeOK
    <3>2. V2!TypeOK' /\ V2!Born'
      BY <1>t, <2>1, <3>1 DEF V2!TypeOK, ProducerTypeOK, V2!Born
    <3> QED
      BY <1>q, <1>t, <2>1, <3>1, <3>2, V2QuietStep DEF V2!IInv
  <2> QED
    BY <1>3, <2>2, <2>3, <2>4 DEF V2!Consumer
<1>4. CASE V2!Main
  <2>1. /\ UNCHANGED <<RUNNING, ring, nextSeq, produced, taken, expected, gaps, consumed>>
        /\ prodPc' = prodPc \/ (prodPc = "unborn" /\ prodPc' = "pin")
        /\ V2!Born'
    BY <1>4, <1>t DEF V2!Main, V2!MainSpawnProducer, V2!MainSpawnConsumer, V2!MainStats,
                      V2!MainJoinProducer, V2!MainJoinConsumer, V2!Born
  <2>2. consPc' = consPc \/ (consPc # "check" /\ consPc' # "check")
    BY <1>4, <1>t DEF V2!Main, V2!MainSpawnProducer, V2!MainSpawnConsumer, V2!MainStats,
                      V2!MainJoinProducer, V2!MainJoinConsumer, V2!Born
  <2>3. V2!TypeOK'
    BY <1>4, <1>t, <2>1 DEF V2!Main, V2!MainSpawnProducer, V2!MainSpawnConsumer, V2!MainStats,
                      V2!MainJoinProducer, V2!MainJoinConsumer, V2!TypeOK, ProducerTypeOK
  <2> QED
    BY <1>q, <1>t, <2>1, <2>2, <2>3, V2QuietStep DEF V2!IInv
<1> QED
  BY <1>1, <1>2, <1>3, <1>4 DEF V2!Next

\* The ring loses nothing, so that the consumer sees the numbers from 1 on one
\* by one and prints no gap (mdp_v2.1.cpp and mdp_v2.2.cpp start with 1).
THEOREM NoTickSkipped ==
  ASSUME FirstSeq = 1
  PROVE  V2!Spec => []NoGapPrinted
<1>1. V2!Init => V2!IInv
  BY V2Init
<1>2. V2!IInv /\ [V2!Next]_(V2!vars) => V2!IInv'
  BY V2Step
<1>3. V2!IInv => NoGapPrinted
  BY SameCheck DEF V2!IInv
<1> QED
  BY <1>1, <1>2, <1>3, PTL DEF V2!Spec
=============================================================================
