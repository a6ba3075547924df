------------------------- MODULE FeedHandlerV2Proofs -------------------------
(***************************************************************************)
(* Theorems about FeedHandlerV2, for every stream, network, queue, pool    *)
(* and burst size.                                                         *)
(***************************************************************************)
EXTENDS FeedHandlerV2, DataLemmas

LEMMA Sizes ==
  /\ FirstSeq \in Nat /\ MaxSeq \in Nat /\ MaxArrivals \in Nat
  /\ QueueLen \in Nat /\ QueueLen >= 1
  /\ BurstSize \in Nat /\ BurstSize >= 1
  /\ NumMbufs \in Nat /\ NumMbufs >= QueueLen + BurstSize
  BY ReceiverAssumption, RxPoolAssumption

LEMMA NumbersAreNaturals == Numbers \subseteq Nat /\ IsFiniteSet(Numbers) /\ Other \notin Numbers
<1>1. Numbers \subseteq Nat
  BY Sizes DEF Numbers
<1>2. IsFiniteSet(Numbers)
  BY Sizes, FS_Interval DEF Numbers
<1> QED
  BY <1>1, <1>2, ReceiverAssumption

\* What Append, Tail and SubSeq do to the frames that wait.
LEMMA AppendFrame ==
  ASSUME NEW s \in Seq(Frames), NEW f \in Frames
  PROVE  /\ Append(s, f) \in Seq(Frames)
         /\ Len(Append(s, f)) = Len(s) + 1
         /\ \A i \in 1 .. Len(s) : Append(s, f)[i] = s[i]
         /\ Append(s, f)[Len(s) + 1] = f
  BY AppendProperties

LEMMA TailFrame ==
  ASSUME NEW s \in Seq(Frames), s # <<>>
  PROVE  /\ Head(s) \in Frames /\ Tail(s) \in Seq(Frames)
         /\ Len(s) \in Nat /\ Len(s) >= 1 /\ Len(Tail(s)) = Len(s) - 1
         /\ Head(s) = s[1]
         /\ \A i \in 1 .. Len(s) - 1 : Tail(s)[i] = s[i + 1]
  BY HeadTailProperties, EmptySeq, LenProperties

LEMMA Split ==
  ASSUME NEW s \in Seq(Frames), NEW n \in 1 .. Len(s)
  PROVE  /\ SubSeq(s, 1, n) \in Seq(Frames) /\ Len(SubSeq(s, 1, n)) = n
         /\ \A i \in 1 .. n : SubSeq(s, 1, n)[i] = s[i]
         /\ SubSeq(s, n + 1, Len(s)) \in Seq(Frames)
         /\ Len(SubSeq(s, n + 1, Len(s))) = Len(s) - n
         /\ \A i \in 1 .. Len(s) - n : SubSeq(s, n + 1, Len(s))[i] = s[n + i]
<1>1. Len(s) \in Nat /\ n \in Nat /\ n >= 1 /\ n <= Len(s)
  BY LenProperties
<1>2. \A i \in 1 .. Len(s) : s[i] \in Frames
  BY ElementOfSeq
<1>3. /\ SubSeq(s, 1, n) \in Seq(Frames) /\ Len(SubSeq(s, 1, n)) = n
      /\ \A i \in 1 .. n : SubSeq(s, 1, n)[i] = s[i]
  BY <1>1, <1>2, SubSeqProperties
<1>4. CASE n = Len(s)
  BY <1>1, <1>3, <1>4, SubSeqProperties, EmptySeq
<1>5. CASE n < Len(s)
  BY <1>1, <1>2, <1>3, <1>5, SubSeqProperties
<1> QED
  BY <1>1, <1>4, <1>5

LEMMA Joined ==
  ASSUME NEW p \in Seq(Frames), NEW q \in Seq(Frames)
  PROVE  /\ Len(p) \in Nat /\ Len(q) \in Nat /\ Len(p \o q) = Len(p) + Len(q)
         /\ \A i \in 1 .. Len(p) : (p \o q)[i] = p[i]
         /\ \A i \in Len(p) + 1 .. Len(p) + Len(q) : (p \o q)[i] = q[i - Len(p)]
  BY ConcatProperties, LenProperties
-----------------------------------------------------------------------------
(***************************************************************************)
(* Sequence tracking.                                                      *)
(***************************************************************************)

\* A tick, whatever its number, keeps the balance.
LEMMA TrackingKeepsBalance ==
  ASSUME TrackTypes, Balance, NEW n \in Numbers, CountMissing(n), Remember(n)
  PROVE  TrackTypes' /\ Balance' /\ tracked' = tracked + 1 /\ seen' = seen \cup {n}
<1>1. n \in Nat /\ \A m \in seen : m \in Nat
  BY NumbersAreNaturals DEF TrackTypes
<1>2. /\ seen' = seen \cup {n} /\ tracked' = tracked + 1
      /\ orderly' = (orderly /\ \A m \in seen : m < n)
  BY DEF Remember
<1>3. orderly' \in BOOLEAN
  BY <1>2
<1>4. CASE n > expected
  <2>1. gaps' = gaps + (n - expected) /\ expected' = n + 1
    BY <1>4 DEF CountMissing
  <2>2. gaps' \in Nat /\ expected' \in Nat \ {0} /\ expected' = 1 + gaps' + tracked'
    BY <1>1, <1>2, <1>4, <2>1 DEF TrackTypes, Balance
  <2>3. \A m \in seen' : m < expected'
    BY <1>1, <1>2, <1>4, <2>1 DEF TrackTypes, Balance
  <2>4. Balance'
    BY <2>2, <2>3 DEF Balance
  <2>5. tracked' \in Nat /\ seen' \in SUBSET Numbers
    BY <1>2 DEF TrackTypes
  <2> QED
    BY <1>2, <1>3, <2>2, <2>4, <2>5 DEF TrackTypes
<1>5. CASE ~(n > expected)
  <2>1. gaps' = gaps /\ expected' = expected + 1
    BY <1>5 DEF CountMissing
  <2>2. expected' \in Nat \ {0} /\ expected' = 1 + gaps' + tracked'
    BY <1>1, <1>2, <1>5, <2>1 DEF TrackTypes, Balance
  <2>3. \A m \in seen' : m < expected'
    BY <1>1, <1>2, <1>5, <2>1 DEF TrackTypes, Balance
  <2> QED
    BY <1>2, <1>3, <2>1, <2>2, <2>3 DEF TrackTypes, Balance
<1> QED
  BY <1>4, <1>5

\* The numbers tracked and the numbers missing share FirstSeq .. expected - 1.
LEMMA BalanceBoundsLosses ==
  ASSUME TrackTypes, Balance
  PROVE  RepeatsHideLosses
<1> SUFFICES ASSUME seen # {}
             PROVE  Cardinality(Missing) <= gaps + Repeats + 1 - FirstSeq
  BY DEF RepeatsHideLosses
<1>1. /\ FirstSeq \in Nat /\ MaxSeq \in Nat /\ expected \in Nat
      /\ seen \in SUBSET (FirstSeq .. MaxSeq) /\ \A n \in seen : n < expected
  BY Sizes DEF TrackTypes, Balance, Numbers
<1>2. Missing = {n \in FirstSeq .. MaxSeq : n \notin seen /\ \E k \in seen : n < k}
  BY DEF Missing, Numbers
<1>3. /\ Cardinality(seen) \in Nat /\ Cardinality(Missing) \in Nat
      /\ Cardinality(seen) + Cardinality(Missing) <= expected - FirstSeq
  BY <1>1, <1>2, LeftOut
<1> QED
  BY <1>1, <1>3 DEF Repeats, TrackTypes, Balance
-----------------------------------------------------------------------------
(***************************************************************************)
(* The inductive invariant, one lemma per actor.                           *)
(***************************************************************************)

\* A tick that is new is no repeat.
LEMMA TrackingNewTick ==
  ASSUME TrackTypes, NoRepeat, NEW n \in Numbers, Remember(n), ~Duplicates => n \notin seen
  PROVE  NoRepeat'
<1> SUFFICES ASSUME ~Duplicates \/ orderly' PROVE tracked' = Cardinality(seen')
  BY DEF NoRepeat
<1>1. seen' = seen \cup {n} /\ tracked' = tracked + 1
  BY DEF Remember
<1>2. n \notin seen /\ tracked = Cardinality(seen)
  <2>1. orderly' => orderly /\ n \notin seen
    <3>1. ~(n < n)
      BY NumbersAreNaturals
    <3>2. orderly' => orderly /\ \A m \in seen : m < n
      BY DEF Remember
    <3> QED
      BY <3>1, <3>2
  <2> QED
    BY <2>1 DEF NoRepeat
<1>3. IsFiniteSet(seen)
  BY NumbersAreNaturals, FS_Subset DEF TrackTypes
<1> QED
  BY <1>1, <1>2, <1>3, FS_AddElement

\* Without repeats and from 1 on the bound is the number of losses itself.
LEMMA NoRepeatIsExact ==
  ASSUME TrackTypes, Balance, NoRepeat, FirstSeq # 0
  PROVE  GapsAreExact
<1> SUFFICES ASSUME orderly
             PROVE  gaps = Cardinality({n \in 1 .. expected - 1 : n \notin seen})
  BY DEF GapsAreExact
<1> DEFINE Window == 1 .. expected - 1
           Passed == {n \in 1 .. expected - 1 : n \notin seen}
<1>1. IsFiniteSet(seen)
  BY NumbersAreNaturals, FS_Subset DEF TrackTypes
<1>2. expected - 1 \in Nat /\ 1 \in Int /\ expected - 1 \in Int
  BY DEF TrackTypes
<1>3. IsFiniteSet(Window) /\ Cardinality(Window) = expected - 1
  BY <1>2, FS_Interval
<1>4. seen \subseteq Window
  BY Sizes DEF TrackTypes, Balance, Numbers
<1>5. Passed = Window \ seen /\ Window \cap seen = seen
  BY <1>4
<1>6. Cardinality(Passed) = Cardinality(Window) - Cardinality(seen)
  <2>1. Cardinality(Window \ seen) = Cardinality(Window) - Cardinality(Window \cap seen)
    BY <1>1, <1>3, FS_Difference
  <2> QED
    BY <1>5, <2>1
<1> HIDE DEF Window, Passed
<1>7. gaps = Cardinality(Passed)
  BY <1>3, <1>6 DEF NoRepeat, Balance, TrackTypes
<1> QED
  BY <1>7 DEF Passed

LEMMA NoRepeatHidesNone ==
  ASSUME TrackTypes, Balance, NoRepeat, FirstSeq # 0, ~Duplicates
  PROVE  LossesAreCounted
<1>1. CASE seen = {}
  <2>1. Missing = {}
    BY <1>1 DEF Missing
  <2> QED
    BY <2>1, FS_EmptySet DEF LossesAreCounted, TrackTypes
<1>2. CASE seen # {}
  <2>1. Cardinality(Missing) <= gaps + Repeats + 1 - FirstSeq /\ Repeats = 0
    BY <1>2, BalanceBoundsLosses DEF RepeatsHideLosses, Repeats, NoRepeat, TrackTypes
  <2>2. Cardinality(Missing) \in Nat
    <3>1. Missing \in SUBSET Numbers
      BY DEF Missing
    <3> QED
      BY <3>1, NumbersAreNaturals, FS_Subset, FS_CardinalityType
  <2> QED
    BY <2>1, <2>2, Sizes DEF LossesAreCounted, TrackTypes
<1> QED
  BY <1>1, <1>2

LEMMA InvInit == Init => IInv
<1> SUFFICES ASSUME Init PROVE IInv
  OBVIOUS
<1>1. <<>> \in Seq(Frames) /\ Len(<<>>) = 0
  BY EmptySeq
<1>2. FreshInFlight
  <2>1. Len(InFlight) = 0
    BY <1>1, Joined DEF Init, BaseInit, InFlight
  <2> QED
    BY <2>1 DEF FreshInFlight
<1>3. NoRepeat
  BY FS_EmptySet DEF Init, BaseInit, NoRepeat
<1> QED
  BY <1>1, <1>2, <1>3, Sizes
     DEF InitPcs, Ports, Init, BaseInit, IInv, TypeOK, BaseTypeOK, MbufsConserved, BurstCounted, Started,
         InArrived, Balance, Frames

LEMMA InvTypes ==
  ASSUME IInv
  PROVE  /\ TrackTypes /\ received \in Nat /\ pool \in Nat
         /\ queue \in Seq(Frames) /\ Len(queue) \in Nat
         /\ pkts \in Seq(Frames) /\ Len(pkts) \in Nat
<1>1. queue \in Seq(Frames) /\ pkts \in Seq(Frames)
  BY DEF IInv, TypeOK, BaseTypeOK, Frames
<1>2. TrackTypes
  BY DEF IInv, TypeOK, BaseTypeOK, TrackTypes
<1> QED
  BY <1>1, <1>2, LenProperties DEF IInv, TypeOK, BaseTypeOK

\* What the process control of main(), the reporter and the signal change.
ControlTypes ==
  /\ RUNNING \in BOOLEAN
  /\ status \in {"running", "success", "failure"}
  /\ mainPc \in InitPcs \cup ThreadPcs \cup ShutdownPcs
  /\ repPc \in {"unborn", "pin", "loop", "load", "finished"}
  /\ prev_received \in 0 .. received
  /\ port \in Ports

\* A step of process control leaves the data, and so the rest of the
\* invariant, alone; it may start the receiver, which has no burst then.
LEMMA ControlStep ==
  ASSUME IInv, ControlTypes', Started',
         UNCHANGED <<received, trackVars, netVars, pkts, pool>>,
         rcvPc' = rcvPc \/ (rcvPc = "unborn" /\ rcvPc' = "pin")
  PROVE  IInv'
<1>1. TypeOK'
  BY DEF IInv, TypeOK, BaseTypeOK, ControlTypes, trackVars, netVars
<1>2. MbufsConserved'
  BY DEF IInv, MbufsConserved, netVars
<1>3. BurstCounted'
  BY DEF IInv, BurstCounted, trackVars
<1>4. InArrived(queue)' /\ InArrived(pkts)'
  BY DEF IInv, InArrived, netVars
<1>5. Balance' /\ NoRepeat' /\ FreshInFlight'
  BY DEF IInv, Balance, NoRepeat, FreshInFlight, InFlight, trackVars, netVars
<1> QED
  BY <1>1, <1>2, <1>3, <1>4, <1>5 DEF IInv

LEMMA InvControlTypes == IInv => ControlTypes /\ Started
  BY DEF IInv, TypeOK, BaseTypeOK, ControlTypes

LEMMA InvSignal == IInv /\ Signal => IInv'
<1> SUFFICES ASSUME IInv, Signal PROVE IInv'
  OBVIOUS
<1>1. ControlTypes' /\ Started'
  BY InvControlTypes DEF Signal, ControlTypes, Started
<1> QED
  BY <1>1, ControlStep DEF Signal

LEMMA InvReport == IInv /\ Report => IInv'
<1> SUFFICES ASSUME IInv, Report PROVE IInv'
  OBVIOUS
<1>1. received \in Nat
  BY InvTypes
<1> USE InvControlTypes, <1>1 DEF Report, Reporter, ControlTypes, Started
<1>2. CASE ReporterPin
  <2>1. ControlTypes' /\ Started'
    BY <1>2 DEF ReporterPin
  <2> QED
    BY <2>1, ControlStep
<1>3. CASE ReporterLoop
  <2>1. ControlTypes' /\ Started'
    BY <1>3 DEF ReporterLoop
  <2> QED
    BY <2>1, ControlStep
<1>4. CASE ReporterLoad
  <2>1. ControlTypes' /\ Started'
    BY <1>4 DEF ReporterLoad
  <2> QED
    BY <2>1, ControlStep
<1> QED
  BY <1>2, <1>3, <1>4

\* Bringing the port up or taking it down does not start a thread, and once
\* the threads may run main() does not come back to the start.
PortStep ==
  /\ status' \in {"running", "success", "failure"}
  /\ port' \in Ports
  /\ \/ mainPc \in InitPcs /\ mainPc' \in InitPcs \cup {"spawnReceiver"}
     \/ mainPc \in ShutdownPcs /\ mainPc' \in ShutdownPcs

LEMMA PortSteps ==
  ASSUME status = "running", port \in Ports, init("spawnReceiver") \/ shutdown
  PROVE  PortStep
<1>1. CASE init("spawnReceiver")
  BY <1>1 DEF init, eal_init, discover_port, port_config, create_rx_pool_q,
     create_tx_pool, create_tx_q, start_port, Call, PortStep, InitPcs, Ports
<1>2. CASE shutdown
  BY <1>2 DEF shutdown, Call, PortStep, ShutdownPcs, Ports
<1> QED
  BY <1>1, <1>2

LEMMA InvMain == IInv /\ Main => IInv'
<1> SUFFICES ASSUME IInv, Main PROVE IInv'
  OBVIOUS
<1>1. ControlTypes /\ Started
  BY InvControlTypes
<1>2. CASE MainThreads("dev_stop") /\ UNCHANGED <<pkts, pool, port>>
  <2>1. ControlTypes' /\ Started'
    BY <1>1, <1>2
       DEF MainThreads, MainSpawnReceiver, MainSpawnReporter, MainJoinReceiver,
           MainJoinReporter, ControlTypes, Started, InitPcs, ThreadPcs, ShutdownPcs
  <2>2. rcvPc' = rcvPc \/ (rcvPc = "unborn" /\ rcvPc' = "pin")
    BY <1>1, <1>2
       DEF MainThreads, MainSpawnReceiver, MainSpawnReporter, MainJoinReceiver,
           MainJoinReporter, Started
  <2>3. UNCHANGED <<received, trackVars, netVars, pkts, pool>>
    BY <1>2 DEF MainThreads
  <2> QED
    BY <2>1, <2>2, <2>3, ControlStep
<1>3. CASE MainPort
  <2>1. PortStep
    BY <1>1, <1>3, PortSteps DEF MainPort, ControlTypes
  <2>2. /\ UNCHANGED <<RUNNING, repPc, prev_received, rcvPc, received, trackVars,
                       netVars, pkts, pool>>
    BY <1>3 DEF MainPort
  <2>3. ControlTypes' /\ Started'
    BY <1>1, <2>1, <2>2
       DEF PortStep, ControlTypes, Started, InitPcs, ThreadPcs, ShutdownPcs
  <2> QED
    BY <2>2, <2>3, ControlStep
<1> QED
  BY <1>2, <1>3 DEF Main

LEMMA InvNic == IInv /\ NicReceive => IInv'
<1> SUFFICES ASSUME IInv, NicReceive PROVE IInv'
  OBVIOUS
<1>1. PICK f \in NextFrames : Arrive(f)
  BY DEF NicReceive
<1>2. f \in Frames
  BY <1>1 DEF NextFrames, Frames
<1>3. /\ queue' = Append(queue, f) /\ arrived' = arrived \cup ({f} \ {Other})
      /\ arrivals' = arrivals + 1 /\ arrivals < MaxArrivals
      /\ Len(queue) < QueueLen
      /\ pool' = pool - 1 /\ pool > 0
      /\ UNCHANGED <<procVars, rcvPc, received, trackVars, pkts, port>>
  BY <1>1 DEF Arrive, NicReceive
<1>4. /\ queue' \in Seq(Frames) /\ Len(queue') = Len(queue) + 1
      /\ \A i \in 1 .. Len(queue) : queue'[i] = queue[i]
      /\ queue'[Len(queue) + 1] = f
  BY <1>2, <1>3, InvTypes, AppendFrame
<1>5. arrived' \in SUBSET Numbers /\ arrived \subseteq arrived'
  BY <1>2, <1>3 DEF IInv, TypeOK, BaseTypeOK, Frames
<1>6. TypeOK'
  <2>1. BaseTypeOK'
    <3>1. Len(queue') <= QueueLen /\ arrivals' \in 0 .. MaxArrivals
      BY <1>3, <1>4, InvTypes, Sizes DEF IInv, TypeOK, BaseTypeOK
    <3>2. seen' \in SUBSET arrived'
      BY <1>3, <1>5 DEF IInv, TypeOK, BaseTypeOK, trackVars
    <3> QED
      BY <1>3, <1>4, <1>5, <3>1, <3>2
         DEF IInv, TypeOK, BaseTypeOK, trackVars, procVars, Frames
  <2> QED
    BY <1>3, <2>1, InvTypes DEF IInv, TypeOK, procVars
<1>7. MbufsConserved'
  BY <1>3, <1>4, InvTypes, Sizes DEF IInv, MbufsConserved
<1>8. BurstCounted' /\ Balance' /\ Started'
  BY <1>3 DEF IInv, BurstCounted, Started, Balance, trackVars, procVars
<1>11. NoRepeat'
  BY <1>3 DEF IInv, NoRepeat, trackVars
<1>12. FreshInFlight'
  <2> SUFFICES ASSUME ~Duplicates, NEW i \in 1 .. Len(InFlight'), InFlight'[i] # Other
               PROVE  /\ InFlight'[i] \notin seen'
                      /\ \A j \in 1 .. i - 1 : InFlight'[j] # InFlight'[i]
    BY DEF FreshInFlight
  <2> DEFINE L == Len(pkts) + Len(queue)
  <2>1. /\ Len(InFlight) = L /\ L \in Nat /\ Len(InFlight') = L + 1
        /\ \A k \in 1 .. L : InFlight'[k] = InFlight[k]
        /\ InFlight'[L + 1] = f
    <3>1. pkts' = pkts /\ queue' \in Seq(Frames) /\ pkts \in Seq(Frames)
      BY <1>3, <1>4, InvTypes
    <3>2. Len(pkts) \in Nat /\ Len(queue) \in Nat /\ Len(queue') = Len(queue) + 1
      BY <1>4, InvTypes
    <3>3. /\ Len(InFlight) = Len(pkts) + Len(queue)
          /\ \A k \in 1 .. Len(pkts) : InFlight[k] = pkts[k]
          /\ \A k \in Len(pkts) + 1 .. Len(pkts) + Len(queue) :
               InFlight[k] = queue[k - Len(pkts)]
      BY InvTypes, Joined DEF InFlight
    <3>4. /\ Len(InFlight') = Len(pkts) + Len(queue')
          /\ \A k \in 1 .. Len(pkts) : InFlight'[k] = pkts[k]
          /\ \A k \in Len(pkts) + 1 .. Len(pkts) + Len(queue') :
               InFlight'[k] = queue'[k - Len(pkts)]
      <4>1. InFlight' = pkts \o queue'
        BY <3>1 DEF InFlight
      <4> QED
        BY <3>1, <4>1, Joined
    <3>5. ASSUME NEW k \in 1 .. L PROVE InFlight'[k] = InFlight[k]
      <4>1. CASE k \in 1 .. Len(pkts)
        BY <3>3, <3>4, <4>1
      <4>2. CASE k \in Len(pkts) + 1 .. L
        <5>1. k - Len(pkts) \in 1 .. Len(queue) /\ k \in Len(pkts) + 1 .. Len(pkts) + Len(queue')
          BY <3>2, <4>2
        <5> QED
          BY <1>4, <3>3, <3>4, <4>2, <5>1
      <4> QED
        BY <3>2, <4>1, <4>2
    <3>6. InFlight'[L + 1] = f
      <4>1. /\ L + 1 \in Len(pkts) + 1 .. Len(pkts) + Len(queue')
            /\ L + 1 - Len(pkts) = Len(queue) + 1
        BY <3>2
      <4> QED
        BY <1>4, <3>4, <4>1
    <3> QED
      BY <3>2, <3>3, <3>4, <3>5, <3>6
  <2>2. \A k \in 1 .. L : InFlight[k] # Other => InFlight[k] \in arrived
    <3> SUFFICES ASSUME NEW k \in 1 .. L, InFlight[k] # Other
                 PROVE  InFlight[k] \in arrived
      OBVIOUS
    <3>1. CASE k \in 1 .. Len(pkts)
      BY <3>1, InvTypes, Joined DEF InFlight, IInv, InArrived
    <3>2. CASE k \in Len(pkts) + 1 .. L
      <4>1. k - Len(pkts) \in 1 .. Len(queue)
        BY <3>2, InvTypes
      <4> QED
        BY <3>2, <4>1, InvTypes, Joined DEF InFlight, IInv, InArrived
    <3> QED
      BY <3>1, <3>2, InvTypes
  <2>3. seen' = seen /\ seen \in SUBSET arrived
    BY <1>3 DEF IInv, TypeOK, BaseTypeOK, trackVars
  <2>4. CASE i \in 1 .. L
    BY <2>1, <2>3, <2>4 DEF IInv, FreshInFlight
  <2>5. CASE i = L + 1
    <3>1. f \notin arrived
      BY <1>1, <2>1, <2>5, NumbersAreNaturals DEF NextFrames, IInv, TypeOK, BaseTypeOK
    <3> QED
      BY <2>1, <2>2, <2>3, <2>5, <3>1
  <2> QED
    BY <2>1, <2>4, <2>5
<1>9. InArrived(pkts)'
  BY <1>3, <1>5 DEF IInv, InArrived
<1>10. InArrived(queue)'
  <2> SUFFICES ASSUME NEW i \in 1 .. Len(queue'), queue'[i] # Other
               PROVE  queue'[i] \in arrived'
    BY DEF InArrived
  <2>1. CASE i \in 1 .. Len(queue)
    BY <1>4, <1>5, <2>1 DEF IInv, InArrived
  <2>2. CASE i = Len(queue) + 1
    BY <1>3, <1>4, <2>2
  <2> QED
    BY <1>4, <2>1, <2>2, InvTypes
<1> QED
  BY <1>6, <1>7, <1>8, <1>9, <1>10, <1>11, <1>12 DEF IInv

LEMMA InvReceiver == IInv /\ Receiver => IInv'
<1> SUFFICES ASSUME IInv, Receiver PROVE IInv'
  OBVIOUS
<1>0. /\ UNCHANGED <<RUNNING, mainPc, repPc, prev_received, port>>
      /\ \A i \in 1 .. Len(pkts) : pkts[i] # Other => pkts[i] \in arrived
      /\ \A i \in 1 .. Len(queue) : queue[i] # Other => queue[i] \in arrived
  BY DEF Receiver, IInv, InArrived
<1>a. Started' <=> (mainPc \in InitPcs \cup {"spawnReceiver"} => rcvPc' = "unborn")
  BY <1>0 DEF Started
<1>b. UNCHANGED <<trackVars, pkts, queue>> => NoRepeat' /\ FreshInFlight'
  BY DEF IInv, NoRepeat, FreshInFlight, InFlight, trackVars
<1>1. CASE ReceiverPin
  BY <1>0, <1>b, <1>1 DEF ReceiverPin, IInv, TypeOK, BaseTypeOK, MbufsConserved, BurstCounted,
     Started, InArrived, Balance, trackVars, netVars
<1>2. CASE ReceiverLoop
  BY <1>0, <1>b, <1>2 DEF ReceiverLoop, IInv, TypeOK, BaseTypeOK, MbufsConserved, BurstCounted,
     Started, InArrived, Balance, trackVars, netVars
<1>3. CASE ReceiverRx
  <2>1. CASE queue = <<>>
    BY <1>0, <1>b, <1>3, <2>1 DEF ReceiverRx, IInv, TypeOK, BaseTypeOK, MbufsConserved,
       BurstCounted, Started, InArrived, Balance, trackVars
  <2>2. CASE queue # <<>>
    <3>1. PICK n \in 1 .. BurstSize :
            /\ n <= Len(queue)
            /\ pkts' = SubSeq(queue, 1, n)
            /\ queue' = SubSeq(queue, n + 1, Len(queue))
            /\ rcvPc' = "count"
      BY <1>3, <2>2 DEF ReceiverRx
    <3>2. /\ pkts' \in Seq(Frames) /\ Len(pkts') = n
          /\ \A i \in 1 .. n : pkts'[i] = queue[i]
          /\ queue' \in Seq(Frames) /\ Len(queue') = Len(queue) - n
          /\ \A i \in 1 .. Len(queue) - n : queue'[i] = queue[n + i]
      <4>1. n \in 1 .. Len(queue) /\ queue \in Seq(Frames)
        BY <3>1, InvTypes, Sizes
      <4> QED
        BY <3>1, <4>1, Split
    <3>3. /\ UNCHANGED <<status, received, trackVars, arrived, arrivals, pool>>
          /\ rcvPc = "rx" /\ pkts = <<>> /\ Len(pkts) = 0
      BY <1>3, EmptySeq DEF ReceiverRx, IInv, BurstCounted
    <3>4. TypeOK'
      BY <1>0, <3>1, <3>2, <3>3, InvTypes, Sizes
         DEF IInv, TypeOK, BaseTypeOK, trackVars, Frames
    <3>5. MbufsConserved'
      <4>1. pool + Len(queue) + Len(pkts) = NumMbufs /\ Len(pkts) = 0
        BY <3>3 DEF IInv, MbufsConserved
      <4>2. pool' = pool /\ Len(queue') = Len(queue) - n /\ Len(pkts') = n
        BY <3>2, <3>3
      <4>3. pool \in Nat /\ Len(queue) \in Nat /\ n \in Nat
        BY InvTypes, Sizes
      <4>4. pool' + Len(queue') + Len(pkts') = NumMbufs
        BY <4>1, <4>2, <4>3
      <4> QED
        BY <4>4 DEF MbufsConserved
    <3>6. BurstCounted' /\ Balance' /\ Started'
      <4>1. tracked \in Nat /\ tracked + Len(pkts) <= received
        BY <3>3, InvTypes DEF IInv, BurstCounted, TrackTypes
      <4>2. tracked' <= received'
        BY <3>3, <4>1, InvTypes DEF trackVars
      <4>3. tracked' + 0 <= received' /\ tracked' \in Nat
        BY <3>3, <4>1, <4>2 DEF trackVars
      <4>4. BurstCounted'
        BY <3>1, <4>3 DEF BurstCounted
      <4> QED
        BY <1>0, <3>1, <3>3, <4>4 DEF IInv, Started, Balance, trackVars
    <3>7. InArrived(pkts)'
      BY <1>0, <3>1, <3>2, <3>3, InvTypes DEF InArrived
    <3>8. InArrived(queue)'
      <4> SUFFICES ASSUME NEW i \in 1 .. Len(queue'), queue'[i] # Other
                   PROVE  queue'[i] \in arrived'
        BY DEF InArrived
      <4>1. n + i \in 1 .. Len(queue) /\ queue'[i] = queue[n + i]
        BY <3>1, <3>2, InvTypes
      <4> QED
        BY <1>0, <3>3, <4>1
    <3>9. NoRepeat'
      BY <3>3 DEF IInv, NoRepeat, trackVars
    <3>10. FreshInFlight'
      <4>1. queue \in Seq(Frames) /\ pkts \in Seq(Frames)
        BY InvTypes
      <4>2. /\ Len(InFlight) = Len(queue) /\ Len(queue) \in Nat
            /\ \A k \in 1 .. Len(queue) : InFlight[k] = queue[k]
        <5>1. Len(pkts) = 0 /\ Len(queue) \in Nat
          BY <3>3, InvTypes
        <5> QED
          BY <4>1, <5>1, Joined DEF InFlight
      <4>3. /\ Len(InFlight') = Len(queue)
            /\ \A k \in 1 .. Len(queue) : InFlight'[k] = queue[k]
        <5>1. n \in 1 .. Len(queue) /\ n \in Nat
          BY <3>1, <4>2, Sizes
        <5>2. /\ Len(InFlight') = n + (Len(queue) - n)
              /\ \A k \in 1 .. n : InFlight'[k] = pkts'[k]
              /\ \A k \in n + 1 .. n + (Len(queue) - n) : InFlight'[k] = queue'[k - n]
          <6>1. pkts' \in Seq(Frames) /\ queue' \in Seq(Frames)
                /\ Len(pkts') = n /\ Len(queue') = Len(queue) - n
            BY <3>2
          <6>2. InFlight' = pkts' \o queue'
            BY DEF InFlight
          <6>3. /\ Len(InFlight') = Len(pkts') + Len(queue')
                /\ \A k \in 1 .. Len(pkts') : InFlight'[k] = pkts'[k]
                /\ \A k \in Len(pkts') + 1 .. Len(pkts') + Len(queue') :
                     InFlight'[k] = queue'[k - Len(pkts')]
            BY <6>1, <6>2, Joined
          <6> QED
            BY <6>1, <6>3
        <5>3. \A k \in n + 1 .. Len(queue) : InFlight'[k] = queue[k]
          <6> SUFFICES ASSUME NEW k \in n + 1 .. Len(queue) PROVE InFlight'[k] = queue[k]
            OBVIOUS
          <6>1. k - n \in 1 .. Len(queue) - n /\ n + (k - n) = k
            BY <4>2, <5>1
          <6> QED
            BY <3>2, <4>2, <5>1, <5>2, <6>1
        <5> QED
          BY <3>2, <4>2, <5>1, <5>2, <5>3
      <4>4. seen' = seen
        BY <3>3 DEF trackVars
      <4> QED
        BY <4>2, <4>3, <4>4 DEF IInv, FreshInFlight
    <3> QED
      BY <3>4, <3>5, <3>6, <3>7, <3>8, <3>9, <3>10 DEF IInv
  <2> QED
    BY <2>1, <2>2
<1>4. CASE ReceiverCount
  BY <1>0, <1>b, <1>4, InvTypes
     DEF ReceiverCount, IInv, TypeOK, BaseTypeOK, MbufsConserved, BurstCounted,
     Started, InArrived, Balance, trackVars, netVars, TrackTypes
<1>5. CASE ReceiverNextBurst
  BY <1>0, <1>b, <1>5 DEF ReceiverNextBurst, IInv, TypeOK, BaseTypeOK, MbufsConserved,
     BurstCounted, Started, InArrived, Balance, trackVars, netVars
<1>6. CASE ReceiverShort \/ ReceiverTick
  <2>1. /\ rcvPc = "frames" /\ rcvPc' = "frames" /\ pkts # <<>>
        /\ pkts' = Tail(pkts) /\ pool' = pool + 1
        /\ UNCHANGED <<status, received, queue, arrived, arrivals>>
    BY <1>6 DEF ReceiverShort, ReceiverTick, netVars
  <2>2. /\ pkts' \in Seq(Frames) /\ Len(pkts) >= 1 /\ Len(pkts') = Len(pkts) - 1
        /\ \A i \in 1 .. Len(pkts) - 1 : pkts'[i] = pkts[i + 1]
        /\ Head(pkts) = pkts[1] /\ Head(pkts) \in Frames
    BY <2>1, InvTypes, TailFrame
  <2>8. /\ Len(InFlight) \in Nat /\ Len(InFlight) >= 1
        /\ Len(InFlight') = Len(InFlight) - 1 /\ InFlight[1] = Head(pkts)
        /\ \A k \in 1 .. Len(InFlight) - 1 : InFlight'[k] = InFlight[k + 1]
    <3>1. pkts' \in Seq(Frames) /\ queue' = queue /\ queue \in Seq(Frames)
          /\ pkts \in Seq(Frames)
      BY <2>1, <2>2, InvTypes
    <3>2. /\ Len(InFlight) = Len(pkts) + Len(queue)
          /\ \A k \in 1 .. Len(pkts) : InFlight[k] = pkts[k]
          /\ \A k \in Len(pkts) + 1 .. Len(pkts) + Len(queue) :
               InFlight[k] = queue[k - Len(pkts)]
      BY <3>1, Joined DEF InFlight
    <3>3. /\ Len(InFlight') = Len(pkts') + Len(queue)
          /\ \A k \in 1 .. Len(pkts') : InFlight'[k] = pkts'[k]
          /\ \A k \in Len(pkts') + 1 .. Len(pkts') + Len(queue) :
               InFlight'[k] = queue[k - Len(pkts')]
      BY <3>1, Joined DEF InFlight
    <3>4. Len(pkts) \in Nat /\ Len(queue) \in Nat
      BY InvTypes
    <3>5. ASSUME NEW k \in 1 .. Len(InFlight) - 1 PROVE InFlight'[k] = InFlight[k + 1]
      <4>1. CASE k \in 1 .. Len(pkts) - 1
        BY <2>2, <3>2, <3>3, <3>4, <4>1
      <4>2. CASE k >= Len(pkts)
        <5>1. /\ k \in Len(pkts') + 1 .. Len(pkts') + Len(queue)
              /\ k + 1 \in Len(pkts) + 1 .. Len(pkts) + Len(queue)
              /\ k - Len(pkts') = k + 1 - Len(pkts)
          BY <2>2, <3>2, <3>4, <4>2
        <5>2. /\ InFlight'[k] = queue[k - Len(pkts')]
              /\ InFlight[k + 1] = queue[k + 1 - Len(pkts)]
          BY <3>2, <3>3, <5>1
        <5> QED
          BY <5>1, <5>2
      <4> QED
        BY <3>4, <4>1, <4>2
    <3>6. /\ Len(InFlight) \in Nat /\ Len(InFlight) >= 1
          /\ Len(InFlight') = Len(InFlight) - 1
      BY <2>2, <3>2, <3>3, <3>4
    <3>7. InFlight[1] = Head(pkts)
      <4>1. 1 \in 1 .. Len(pkts)
        BY <2>2, <3>4
      <4> QED
        BY <2>2, <3>2, <4>1
    <3> QED
      BY <3>5, <3>6, <3>7
  <2>3. /\ TrackTypes' /\ Balance' /\ seen' \in SUBSET arrived
        /\ tracked' <= tracked + 1
        /\ NoRepeat'
        /\ \/ seen' = seen
           \/ seen' = seen \cup {Head(pkts)} /\ Head(pkts) # Other
    <3>1. CASE ReceiverShort
      BY <3>1, InvTypes
         DEF ReceiverShort, trackVars, IInv, TypeOK, BaseTypeOK, TrackTypes, Balance,
             NoRepeat
    <3>2. CASE ReceiverTick
      <4>1. Head(pkts) \in Numbers /\ CountMissing(Head(pkts)) /\ Remember(Head(pkts))
        BY <2>2, <3>2 DEF ReceiverTick, Frames
      <4>2. Head(pkts) \in arrived
        BY <1>0, <2>2, <3>2, InvTypes DEF ReceiverTick
      <4>3. /\ TrackTypes' /\ Balance' /\ tracked' = tracked + 1
            /\ seen' = seen \cup {Head(pkts)}
        BY <4>1, InvTypes, TrackingKeepsBalance DEF IInv
      <4>4. ~Duplicates => Head(pkts) \notin seen
        BY <2>8, <3>2 DEF IInv, FreshInFlight, ReceiverTick
      <4>5. NoRepeat'
        BY <4>1, <4>4, InvTypes, TrackingNewTick DEF IInv
      <4>6. Head(pkts) # Other
        BY <3>2 DEF ReceiverTick
      <4> QED
        BY <4>2, <4>3, <4>5, <4>6, InvTypes DEF IInv, TypeOK, BaseTypeOK, TrackTypes
    <3> QED
      BY <1>6, <3>1, <3>2
  <2>4. TypeOK'
    <3>1. tracked + Len(pkts) <= received
      BY <2>1 DEF IInv, BurstCounted
    <3>2. tracked' \in 0 .. received' /\ Len(pkts') <= BurstSize /\ pool' \in Nat
      BY <2>1, <2>2, <2>3, <3>1, InvTypes, Sizes DEF TrackTypes, IInv, TypeOK
    <3> QED
      BY <1>0, <2>1, <2>2, <2>3, <3>2, InvTypes
         DEF IInv, TypeOK, BaseTypeOK, TrackTypes, Frames
  <2>5. MbufsConserved'
    BY <2>1, <2>2, InvTypes, Sizes DEF IInv, MbufsConserved
  <2>6. BurstCounted' /\ Started'
    BY <1>0, <2>1, <2>2, <2>3, InvTypes, SMTT(30)
       DEF IInv, BurstCounted, Started, TrackTypes
  <2>7. InArrived(pkts)' /\ InArrived(queue)'
    BY <1>0, <2>1, <2>2, InvTypes DEF InArrived
  <2>9. FreshInFlight'
    <3> SUFFICES ASSUME ~Duplicates, NEW i \in 1 .. Len(InFlight'), InFlight'[i] # Other
                 PROVE  /\ InFlight'[i] \notin seen'
                        /\ \A j \in 1 .. i - 1 : InFlight'[j] # InFlight'[i]
      BY DEF FreshInFlight
    <3>1. i + 1 \in 1 .. Len(InFlight) /\ InFlight'[i] = InFlight[i + 1]
      BY <2>8
    <3>2. /\ InFlight[i + 1] \notin seen
          /\ \A j \in 1 .. (i + 1) - 1 : InFlight[j] # InFlight[i + 1]
      BY <3>1 DEF IInv, FreshInFlight
    <3>3. InFlight[1] # InFlight[i + 1]
      BY <2>8, <3>2
    <3>4. \A j \in 1 .. i - 1 : InFlight'[j] = InFlight[j + 1] /\ j + 1 \in 1 .. (i + 1) - 1
      BY <2>8
    <3> QED
      BY <2>3, <2>8, <3>1, <3>2, <3>3, <3>4
  <2> QED
    BY <2>3, <2>4, <2>5, <2>6, <2>7, <2>9 DEF IInv
<1> QED
  BY <1>1, <1>2, <1>3, <1>4, <1>5, <1>6 DEF Receiver
-----------------------------------------------------------------------------
(***************************************************************************)
(* The theorems.                                                           *)
(***************************************************************************)

LEMMA Invariance == Spec => []IInv
<1>1. IInv /\ [Next]_vars => IInv'
  <2> SUFFICES ASSUME IInv, [Next]_vars PROVE IInv'
    OBVIOUS
  <2>1. CASE UNCHANGED vars
    BY <2>1 DEF vars, baseVars, procVars, trackVars, netVars, IInv, TypeOK, BaseTypeOK,
       MbufsConserved, BurstCounted, Started, InArrived, Balance, NoRepeat,
       FreshInFlight, InFlight
  <2>2. CASE Exited
    BY <2>1, <2>2 DEF Exited
  <2> QED
    BY <2>1, <2>2, InvSignal, InvNic, InvReceiver, InvReport, InvMain DEF Next
<1> QED
  BY <1>1, InvInit, PTL DEF Spec

\* The types, and the bounds of the burst array and the RX queue.
THEOREM TypeCorrect == Spec => []TypeOK
<1>1. IInv => TypeOK
  BY DEF IInv
<1> QED
  BY <1>1, Invariance, PTL

\* The receiver frees each mbuf once, also those of short frames.
THEOREM NoRxMbufLeak == Spec => []MbufsConserved
<1>1. IInv => MbufsConserved
  BY DEF IInv
<1> QED
  BY <1>1, Invariance, PTL

\* RX_DESC + BURST_SIZE mbufs are enough for the NIC always to find one.
THEOREM RxPoolNeverDry == Spec => []RxNeverStarves
<1>1. IInv => RxNeverStarves
  <2> SUFFICES ASSUME IInv, Len(queue) < QueueLen PROVE pool > 0
    BY DEF RxNeverStarves
  <2>1. Len(pkts) <= BurstSize /\ pool + Len(queue) + Len(pkts) = NumMbufs
    BY DEF IInv, TypeOK, MbufsConserved
  <2> QED
    BY <2>1, InvTypes, Sizes
<1> QED
  BY <1>1, Invariance, PTL

\* On any network a loss is missing from `gaps' only if a repeated tick, or a
\* stream that starts at 0, makes up for it.
THEOREM LossesBounded == Spec => []RepeatsHideLosses
<1>1. IInv => RepeatsHideLosses
  BY InvTypes, BalanceBoundsLosses DEF IInv
<1> QED
  BY <1>1, Invariance, PTL

\* On a network that may lose and reorder but does not duplicate no loss
\* escapes `gaps'.
THEOREM NoLossEscapes ==
  ASSUME FirstSeq # 0, ~Duplicates
  PROVE  Spec => []LossesAreCounted
<1>1. IInv => LossesAreCounted
  BY InvTypes, NoRepeatHidesNone DEF IInv
<1> QED
  BY <1>1, Invariance, PTL

\* As long as the ticks come in order `gaps' is exactly what was passed over.
THEOREM GapsExact ==
  ASSUME FirstSeq # 0
  PROVE  Spec => []GapsAreExact
<1>1. IInv => GapsAreExact
  BY InvTypes, NoRepeatIsExact DEF IInv
<1> QED
  BY <1>1, Invariance, PTL
=============================================================================
