------------------------------ MODULE UdpProofs ------------------------------
(***************************************************************************)
(* Theorems about the two UDP clients, for every stream, network, queue    *)
(* and batch size.  The module extends UdpClientV2 and has UdpClientV1 as  *)
(* V1; what they share (FeedReceiver, UdpClient) has two names then, which *)
(* the first lemmas about V1 identify.                                     *)
(***************************************************************************)
EXTENDS UdpClientV2, DataLemmas

CONSTANT NoTick
VARIABLE taken

V1 == INSTANCE UdpClientV1

LEMMA NumbersAreNaturals ==
  /\ FirstSeq \in Nat /\ MaxSeq \in Nat
  /\ Numbers \subseteq Nat /\ IsFiniteSet(Numbers)
<1>1. FirstSeq \in Nat /\ MaxSeq \in Nat
  BY ReceiverAssumption
<1> QED
  BY <1>1, FS_Interval DEF Numbers

\* What Append and Tail do to the frames that wait.
LEMMA AppendFrame ==
  ASSUME NEW s \in Seq(Frames), NEW f \in Frames
  PROVE  /\ Append(s, f) \in Seq(Frames)
         /\ Append(s, f) # <<>>
<1>1. Append(s, f) \in Seq(Frames) /\ Len(Append(s, f)) = Len(s) + 1 /\ Len(s) \in Nat
  BY AppendProperties, LenProperties
<1>2. Len(Append(s, f)) # 0
  BY <1>1
<1> QED
  BY <1>1, <1>2, EmptySeq

LEMMA TailFrame ==
  ASSUME NEW s \in Seq(Frames), s # <<>>
  PROVE  /\ Head(s) \in Frames /\ Tail(s) \in Seq(Frames)
         /\ Len(s) \in Nat \ {0} /\ Len(Tail(s)) = Len(s) - 1
  BY HeadTailProperties, EmptySeq, LenProperties
-----------------------------------------------------------------------------
(***************************************************************************)
(* The threads and what main() holds, which both clients share.            *)
(***************************************************************************)

\* A step of main(), of the reporter or of the signal handler, or an error of
\* the socket, leaves the data alone.  It may start the receiver.
Control == UdpMain \/ UdpReporter \/ SignalRunning \/ SignalShutdown \/ SocketError

LEMMA ControlKeeps ==
  ASSUME Started, SetupHolds, Control
  PROVE  /\ Started' /\ SetupHolds'
         /\ UNCHANGED <<received, trackVars, queue>>
         /\ rcvPc' = rcvPc \/ (rcvPc = "unborn" /\ rcvPc' = "pin")
<1> USE DEF SetupPcs
<1>1. CASE SignalRunning \/ SignalShutdown \/ SocketError
  BY <1>1 DEF SignalRunning, SignalShutdown, SocketError, Started, SetupHolds,
              baseVars, procVars, netVars, sockVars
<1>2. CASE UdpReporter
  BY <1>2 DEF UdpReporter, Reporter, ReporterPin, ReporterLoop, ReporterLoad,
              Started, SetupHolds, netVars, sockVars
<1>3. CASE MainSetup
  BY <1>3 DEF MainSetup, setup, getaddrinfo, create_socket, attach, freeaddrinfo,
              Started, SetupHolds, netVars
<1>4. CASE MainThreads("close") /\ UNCHANGED sockVars
  BY <1>4 DEF MainThreads, MainSpawnReceiver, MainSpawnReporter, MainJoinReceiver,
              MainJoinReporter, Started, SetupHolds, netVars, sockVars
<1>5. CASE MainClose
  BY <1>5 DEF MainClose, Started, SetupHolds, netVars
<1> QED
  BY <1>1, <1>2, <1>3, <1>4, <1>5 DEF Control, UdpMain

LEMMA DatagramKeeps ==
  ASSUME Started, SetupHolds, Datagram
  PROVE  /\ Started' /\ SetupHolds'
         /\ UNCHANGED <<rcvPc, received, trackVars>>
         /\ \E f \in Frames : queue' = Append(queue, f)
<1>1. PICK f \in NextFrames : Arrive(f) /\ UNCHANGED sockVars
  BY DEF Datagram
<1>2. f \in Frames
  BY DEF NextFrames, Frames
<1> QED
  BY <1>1, <1>2 DEF Arrive, Started, SetupHolds, procVars, sockVars

\* A step of the receiver, which runs then, and which may end the process as
\* main() does not.
LEMMA ReceiverKeeps ==
  ASSUME Started, SetupHolds, status = "running", status' \in {"running", "failure"},
         rcvPc \notin {"unborn", "finished"},
         UNCHANGED <<mainPc, repPc, sockVars>>
  PROVE  Started' /\ SetupHolds'
<1>1. mainPc \in {"spawnReporter", "joinReceiver"} \/
      mainPc \notin SetupPcs \cup {"spawnReceiver", "joinReporter", "close"}
  BY DEF Started
<1> QED
  BY <1>1 DEF Started, SetupHolds, SetupPcs, sockVars

LEMMA HoldsReleases ==
  ASSUME SetupHolds
  PROVE  SetupReleases
  BY DEF SetupHolds, SetupReleases, SetupPcs
-----------------------------------------------------------------------------
(***************************************************************************)
(* CountMissing, in udp_client_v2.cpp.                                     *)
(***************************************************************************)

\* The sum of the balance is kept by any number n, also one out of a stale slot.
LEMMA CountingKeepsSum ==
  ASSUME expected \in Nat \ {0}, gaps \in Nat, tracked \in Nat,
         expected = 1 + gaps + tracked,
         NEW n \in Nat, CountMissing(n), tracked' = tracked + 1
  PROVE  /\ expected' \in Nat \ {0} /\ gaps' \in Nat /\ tracked' \in Nat
         /\ expected' = 1 + gaps' + tracked'
         /\ n < expected' /\ expected < expected'
<1>1. CASE n > expected
  BY <1>1 DEF CountMissing
<1>2. CASE ~(n > expected)
  BY <1>2 DEF CountMissing
<1> QED
  BY <1>1, <1>2

LEMMA TrackingKeepsBalance ==
  ASSUME TrackTypes, Balance, NEW n \in Nat, CountMissing(n),
         tracked' = tracked + 1, orderly' \in BOOLEAN,
         seen' = seen \/ (n \in Numbers /\ seen' = seen \cup {n})
  PROVE  TrackTypes' /\ Balance'
<1>1. /\ expected' \in Nat \ {0} /\ gaps' \in Nat /\ tracked' \in Nat
      /\ expected' = 1 + gaps' + tracked'
      /\ n < expected' /\ expected < expected'
  BY CountingKeepsSum DEF TrackTypes, Balance
<1>2. TrackTypes'
  BY <1>1 DEF TrackTypes
<1>3. \A m \in seen' : m < expected'
  <2>1. ASSUME NEW m \in seen PROVE m < expected'
    <3>1. m \in Nat /\ expected \in Nat /\ m < expected
      BY NumbersAreNaturals DEF TrackTypes, Balance
    <3> QED
      BY <1>1, <3>1
  <2> QED
    BY <1>1, <2>1
<1> QED
  BY <1>1, <1>2, <1>3 DEF Balance

\* The numbers tracked and the numbers missing share FirstSeq .. expected - 1.
LEMMA BalanceBoundsLosses ==
  ASSUME TrackTypes, Balance
  PROVE  RepeatsHideLosses
<1> SUFFICES ASSUME seen # {}
             PROVE  Cardinality(Missing) <= gaps + Repeats + 1 - FirstSeq
  BY DEF RepeatsHideLosses
<1>1. /\ FirstSeq \in Nat /\ MaxSeq \in Nat /\ expected \in Nat
      /\ seen \in SUBSET (FirstSeq .. MaxSeq) /\ \A n \in seen : n < expected
  BY NumbersAreNaturals DEF TrackTypes, Balance, Numbers
<1>2. Missing = {n \in FirstSeq .. MaxSeq : n \notin seen /\ \E k \in seen : n < k}
  BY DEF Missing, Numbers
<1>3. /\ Cardinality(seen) \in Nat /\ Cardinality(Missing) \in Nat
      /\ Cardinality(seen) + Cardinality(Missing) <= expected - FirstSeq
  BY <1>1, <1>2, LeftOut
<1> QED
  BY <1>1, <1>3 DEF Repeats, TrackTypes, Balance
-----------------------------------------------------------------------------
(***************************************************************************)
(* The inductive invariant of udp_client_v2.cpp.                           *)
(***************************************************************************)

LEMMA V2Init == Init => IInv
<1> SUFFICES ASSUME Init PROVE IInv
  OBVIOUS
<1>1. <<>> \in Seq(Frames) /\ Len(<<>>) = 0
  BY EmptySeq
<1>2. TrackTypes /\ Balance
  BY DEF Init, UdpInit, BaseInit, TrackTypes, Balance
<1>3. Started /\ SetupHolds
  BY DEF Init, UdpInit, BaseInit, SetupInit, Started, SetupHolds, SetupPcs
<1>4. BatchCounted /\ received \in Nat
  BY DEF Init, UdpInit, BaseInit, BatchCounted
<1>5. queue \in Seq(Frames) /\ ticks \in Seq(Frames)
  BY <1>1 DEF Init, UdpInit, BaseInit
<1> QED
  BY <1>2, <1>3, <1>4, <1>5 DEF IInv

\* What main(), the reporter, the signal and the network leave alone.
LEMMA V2Outside ==
  ASSUME IInv, Started', SetupHolds', UNCHANGED <<received, trackVars, ticks>>,
         queue' \in Seq(Frames),
         rcvPc' = rcvPc \/ (rcvPc = "unborn" /\ rcvPc' = "pin")
  PROVE  IInv'
<1>1. TrackTypes' /\ Balance' /\ received' \in Nat /\ ticks' \in Seq(Frames)
  BY DEF IInv, TrackTypes, Balance, trackVars
<1>2. BatchCounted'
  BY DEF IInv, BatchCounted, trackVars
<1> QED
  BY <1>1, <1>2 DEF IInv

LEMMA V2Receiver ==
  ASSUME IInv, Receiver
  PROVE  IInv'
<1>1. /\ TrackTypes /\ received \in Nat /\ queue \in Seq(Frames) /\ ticks \in Seq(Frames)
      /\ Started /\ SetupHolds /\ Balance /\ BatchCounted
  BY DEF IInv
<1>2. Len(ticks) \in Nat /\ tracked \in Nat
  BY <1>1, LenProperties DEF TrackTypes
<1>3. Started' /\ SetupHolds'
  <2>1. /\ status = "running" /\ status' \in {"running", "failure"}
        /\ rcvPc \notin {"unborn", "finished"}
        /\ UNCHANGED <<mainPc, repPc, sockVars>>
    BY DEF Receiver, ReceiverPin, ReceiverLoop, ReceiverTake, ReceiverTakeNothing,
           ReceiverReturn, ReceiverReturnNone, ReceiverCount, ReceiverTrack,
           ReceiverTrackStale, ReceiverNextBatch, ReceiverStop
  <2> QED
    BY <1>1, <2>1, ReceiverKeeps
<1>4. ASSUME UNCHANGED <<received, trackVars>>,
             queue' \in Seq(Frames), ticks' \in Seq(Frames),
             rcvPc # "track", rcvPc' # "track",
             rcvPc' \notin {"recvmmsg", "count"} => ticks' = <<>>
      PROVE  IInv'
  <2>1. TrackTypes' /\ Balance' /\ received' \in Nat
    BY <1>1, <1>4 DEF TrackTypes, Balance, trackVars
  <2>2. BatchCounted'
    BY <1>1, <1>4 DEF BatchCounted, trackVars
  <2> QED
    BY <1>3, <1>4, <2>1, <2>2 DEF IInv
<1>5. CASE \/ ReceiverPin \/ ReceiverLoop \/ ReceiverReturn \/ ReceiverReturnNone
           \/ ReceiverStop
  <2>1. /\ UNCHANGED <<received, trackVars, queue, ticks>>
        /\ rcvPc # "track" /\ rcvPc' # "track"
        /\ rcvPc' \notin {"recvmmsg", "count"} => ticks = <<>>
    BY <1>1, <1>5 DEF ReceiverPin, ReceiverLoop, ReceiverReturn, ReceiverReturnNone,
                      ReceiverStop, netVars, BatchCounted
  <2> QED
    BY <1>1, <1>4, <2>1
<1>6. CASE ReceiverTake
  <2>1. /\ rcvPc = "recvmmsg" /\ rcvPc' = "recvmmsg" /\ UNCHANGED <<received, trackVars>>
        /\ queue # <<>> /\ queue' = Tail(queue) /\ ticks' = Append(ticks, Head(queue))
    BY <1>6 DEF ReceiverTake
  <2>2. queue' \in Seq(Frames) /\ ticks' \in Seq(Frames)
    BY <1>1, <2>1, TailFrame, AppendFrame
  <2> QED
    BY <1>4, <2>1, <2>2
<1>7. CASE ReceiverTakeNothing
  <2>1. /\ rcvPc = "recvmmsg" /\ rcvPc' = "recvmmsg"
        /\ UNCHANGED <<received, trackVars, queue>> /\ ticks' = Append(ticks, Other)
    BY <1>7 DEF ReceiverTakeNothing, netVars
  <2>2. ticks' \in Seq(Frames)
    BY <1>1, <2>1, AppendFrame DEF Frames
  <2> QED
    BY <1>1, <1>4, <2>1, <2>2
<1>8. CASE ReceiverCount
  <2>1. /\ rcvPc = "count" /\ rcvPc' = "track" /\ received' = received + Len(ticks)
        /\ UNCHANGED <<trackVars, queue, ticks>>
    BY <1>8 DEF ReceiverCount, netVars
  <2>2. TrackTypes' /\ Balance' /\ received' \in Nat
    BY <1>1, <1>2, <2>1 DEF TrackTypes, Balance, trackVars
  <2>3. BatchCounted'
    BY <1>1, <1>2, <2>1 DEF BatchCounted, trackVars
  <2> QED
    BY <1>1, <1>3, <2>1, <2>2, <2>3 DEF IInv
<1>9. CASE ReceiverTrack \/ ReceiverTrackStale
  <2>1. /\ rcvPc = "track" /\ rcvPc' = "track" /\ UNCHANGED <<received, queue>>
        /\ ticks # <<>> /\ ticks' = Tail(ticks)
    BY <1>9 DEF ReceiverTrack, ReceiverTrackStale, netVars
  <2>2. ticks' \in Seq(Frames) /\ Len(ticks') = Len(ticks) - 1 /\ Head(ticks) \in Frames
    BY <1>1, <2>1, TailFrame
  <2>3. TrackTypes' /\ Balance' /\ tracked' = tracked + 1
    <3>1. CASE ReceiverTrack
      <4>1. Head(ticks) \in Numbers /\ CountMissing(Head(ticks)) /\ Remember(Head(ticks))
        BY <2>2, <3>1 DEF ReceiverTrack, Frames
      <4>2. /\ seen' = seen \cup {Head(ticks)} /\ tracked' = tracked + 1
            /\ orderly' \in BOOLEAN
        BY <4>1 DEF Remember
      <4> QED
        BY <1>1, <4>1, <4>2, NumbersAreNaturals, TrackingKeepsBalance
    <3>2. CASE ReceiverTrackStale
      <4>1. PICK n \in 0 .. MaxSeq : CountMissing(n)
        BY <3>2 DEF ReceiverTrackStale
      <4>2. n \in Nat
        BY NumbersAreNaturals
      <4>3. seen' = seen /\ tracked' = tracked + 1 /\ orderly' \in BOOLEAN
        BY <3>2 DEF ReceiverTrackStale
      <4> QED
        BY <1>1, <4>1, <4>2, <4>3, TrackingKeepsBalance
    <3> QED
      BY <1>9, <3>1, <3>2
  <2>4. BatchCounted'
    BY <1>1, <1>2, <2>1, <2>2, <2>3 DEF BatchCounted
  <2> QED
    BY <1>1, <1>3, <2>1, <2>2, <2>3, <2>4 DEF IInv
<1>10. CASE ReceiverNextBatch
  <2>1. /\ rcvPc = "track" /\ rcvPc' = "loop" /\ ticks = <<>> /\ Len(ticks) = 0
        /\ UNCHANGED <<received, trackVars, queue, ticks>>
    BY <1>10, EmptySeq DEF ReceiverNextBatch, netVars
  <2>2. TrackTypes' /\ Balance' /\ received' \in Nat
    BY <1>1, <2>1 DEF TrackTypes, Balance, trackVars
  <2>3. received = tracked
    BY <1>1, <1>2, <2>1 DEF BatchCounted
  <2>4. BatchCounted'
    BY <1>2, <2>1, <2>3 DEF BatchCounted, trackVars
  <2> QED
    BY <1>1, <1>3, <2>1, <2>2, <2>4 DEF IInv
<1> QED
  BY <1>5, <1>6, <1>7, <1>8, <1>9, <1>10 DEF Receiver

LEMMA V2Step ==
  ASSUME IInv, [Next]_vars
  PROVE  IInv'
<1>1. Started /\ SetupHolds /\ queue \in Seq(Frames)
  BY DEF IInv
<1>2. CASE Control /\ UNCHANGED ticks
  <2>1. /\ Started' /\ SetupHolds'
        /\ UNCHANGED <<received, trackVars, queue>>
        /\ rcvPc' = rcvPc \/ (rcvPc = "unborn" /\ rcvPc' = "pin")
    BY <1>1, <1>2, ControlKeeps
  <2> QED
    BY <1>1, <1>2, <2>1, V2Outside
<1>3. CASE Datagram /\ UNCHANGED ticks
  <2>1. PICK f \in Frames : queue' = Append(queue, f)
    BY <1>1, <1>3, DatagramKeeps
  <2>2. /\ Started' /\ SetupHolds'
        /\ UNCHANGED <<rcvPc, received, trackVars>>
    BY <1>1, <1>3, DatagramKeeps
  <2>3. queue' \in Seq(Frames)
    BY <1>1, <2>1, AppendFrame
  <2> QED
    BY <1>3, <2>2, <2>3, V2Outside
<1>4. CASE UNCHANGED vars
  <2>1. /\ Started' /\ SetupHolds'
        /\ UNCHANGED <<received, trackVars, ticks, queue, rcvPc>>
    BY <1>1, <1>4 DEF vars, baseVars, procVars, netVars, sockVars, Started, SetupHolds
  <2> QED
    BY <1>1, <2>1, V2Outside
<1>5. CASE Receiver
  BY <1>5, V2Receiver
<1>6. \/ Control /\ UNCHANGED ticks
      \/ Datagram /\ UNCHANGED ticks
      \/ UNCHANGED vars
      \/ Receiver
  BY DEF Next, Environment, Handler, Report, Main, Exited, Control
<1> QED
  BY <1>2, <1>3, <1>4, <1>5, <1>6

LEMMA V2Invariance == Spec => []IInv
  BY V2Init, V2Step, PTL DEF Spec

\* recvmmsg() may still be filling a batch when the signal comes: that batch
\* is counted and tracked too before udp_client_v2.cpp ends well.
THEOREM BatchTracked == Spec => []BatchIsTracked
<1>1. IInv => BatchIsTracked
  <2> SUFFICES ASSUME IInv, status = "success" PROVE ticks = <<>> /\ tracked = received
    BY DEF BatchIsTracked
  <2>1. rcvPc = "finished"
    BY DEF IInv, Started, SetupHolds
  <2> QED
    BY <2>1 DEF IInv, BatchCounted, TrackTypes
<1> QED
  BY <1>1, V2Invariance, PTL

\* However many datagrams are late, repeated or too short, `gaps' of
\* udp_client_v2.cpp is short of the losses by no more than the repeats and
\* the numbers out of stale slots account for.
THEOREM V2LossesBounded == Spec => []RepeatsHideLosses
<1>1. IInv => RepeatsHideLosses
  BY BalanceBoundsLosses DEF IInv
<1> QED
  BY <1>1, V2Invariance, PTL

\* main() of udp_client_v2.cpp gives back the socket and the address list on
\* every way out.
THEOREM V2Releases == Spec => []SetupReleases
<1>1. IInv => SetupReleases
  BY HoldsReleases DEF IInv
<1> QED
  BY <1>1, V2Invariance, PTL
-----------------------------------------------------------------------------
(***************************************************************************)
(* CountBreaks, in udp_client_v1.cpp.                                      *)
(***************************************************************************)

\* What tracking a tick does to the breaks: the expected number makes no new
\* one; another one makes one at most, and exactly one if it is greater than
\* all before.
LEMMA TrackingChangesBreaks ==
  ASSUME TrackTypes, LastTracked, NEW n \in Numbers, Remember(n)
  PROVE  /\ Breaks' \subseteq Breaks \cup {n}
         /\ n = expected => Breaks' \subseteq Breaks
         /\ orderly' /\ n = expected => Breaks' = Breaks
         /\ orderly' /\ n # expected => Breaks' = Breaks \cup {n} /\ n \notin Breaks
<1>1. /\ n \in Nat /\ expected \in Nat \ {0} /\ \A m \in seen : m \in Nat
  BY NumbersAreNaturals DEF TrackTypes
<1>2. /\ seen' = seen \cup {n}
      /\ orderly' => orderly /\ \A m \in seen : m < n
  BY DEF Remember
<1>3. Breaks' = {m \in seen \cup {n} : m # 1 /\ m - 1 \notin seen \cup {n}}
  BY <1>2 DEF Breaks
<1>4. Breaks' \subseteq Breaks \cup {n}
  BY <1>3 DEF Breaks
<1>5. n = expected => n \notin Breaks'
  BY <1>1, <1>3 DEF LastTracked
<1>6. ASSUME orderly', NEW m \in Breaks PROVE m \in Breaks'
  <2>1. m \in seen /\ m # 1 /\ m - 1 \notin seen /\ m \in Nat /\ m < n
    BY <1>1, <1>2, <1>6 DEF Breaks
  <2>2. m - 1 # n
    BY <1>1, <2>1
  <2> QED
    BY <1>3, <2>1, <2>2
<1>7. ASSUME orderly', n # expected PROVE n \in Breaks' /\ n \notin Breaks
  <2>1. n \notin seen
    <3>1. ~(n < n)
      BY <1>1
    <3> QED
      BY <1>2, <1>7, <3>1
  <2>2. n # 1 /\ n - 1 \notin seen
    <3>1. CASE seen = {}
      BY <1>7, <3>1 DEF LastTracked
    <3>2. CASE seen # {}
      <4>1. expected - 1 \in seen /\ \A m \in seen : m < expected
        BY <1>2, <1>7, <3>2 DEF LastTracked
      <4>2. expected - 1 < n
        BY <1>2, <1>7, <4>1
      <4>3. expected < n /\ ~(n - 1 < expected)
        BY <1>1, <1>7, <4>2
      <4> QED
        BY <1>1, <4>1, <4>3
    <3> QED
      BY <3>1, <3>2
  <2>3. n - 1 # n
    BY <1>1
  <2> QED
    BY <1>3, <2>1, <2>2, <2>3 DEF Breaks
<1> QED
  BY <1>4, <1>5, <1>6, <1>7

LEMMA TrackingKeepsBreaks ==
  ASSUME TrackTypes, LastTracked, HolesAreCounted, GapsAreHoles,
         NEW n \in Numbers, CountBreaks(n), Remember(n)
  PROVE  TrackTypes' /\ LastTracked' /\ HolesAreCounted' /\ GapsAreHoles'
<1>1. /\ n \in Nat /\ expected \in Nat \ {0} /\ gaps \in Nat /\ tracked \in Nat
      /\ \A m \in seen : m \in Nat
  BY NumbersAreNaturals DEF TrackTypes
<1>2. /\ expected' = n + 1
      /\ n = expected => gaps' = gaps
      /\ n # expected => gaps' = gaps + 1
  <2>1. CASE n = expected
    BY <2>1 DEF CountBreaks
  <2>2. CASE n # expected
    BY <2>2 DEF CountBreaks
  <2> QED
    BY <2>1, <2>2
<1>3. seen' = seen \cup {n} /\ tracked' = tracked + 1 /\ orderly' \in BOOLEAN
  BY DEF Remember
<1>4. orderly' => \A m \in seen : m < n
  BY DEF Remember
<1>5. orderly' => orderly
  BY DEF Remember
<1>6. TrackTypes'
  <2>1. gaps' \in Nat /\ expected' \in Nat \ {0} /\ tracked' \in Nat
    BY <1>1, <1>2, <1>3
  <2>2. seen' \in SUBSET Numbers
    BY <1>3 DEF TrackTypes
  <2> QED
    BY <1>3, <2>1, <2>2 DEF TrackTypes
<1>7. LastTracked'
  <2>1. expected' - 1 \in seen' /\ seen' # {}
    BY <1>1, <1>2, <1>3
  <2>2. ASSUME orderly', NEW m \in seen' PROVE m < expected'
    <3>1. m = n \/ (m \in Nat /\ m < n)
      BY <1>1, <1>3, <1>4, <2>2
    <3> QED
      BY <1>1, <1>2, <3>1
  <2> QED
    BY <2>1, <2>2 DEF LastTracked
<1>8. /\ IsFiniteSet(Breaks) /\ Cardinality(Breaks) \in Nat
      /\ IsFiniteSet(Breaks') /\ Cardinality(Breaks') \in Nat
  <2>1. Breaks \in SUBSET Numbers /\ Breaks' \in SUBSET Numbers
    BY <1>6 DEF Breaks, TrackTypes
  <2> QED
    BY <2>1, NumbersAreNaturals, FS_Subset, FS_CardinalityType
<1>9. /\ Breaks' \subseteq Breaks \cup {n}
      /\ n = expected => Breaks' \subseteq Breaks
      /\ orderly' /\ n = expected => Breaks' = Breaks
      /\ orderly' /\ n # expected => Breaks' = Breaks \cup {n} /\ n \notin Breaks
  BY TrackingChangesBreaks
<1>10. HolesAreCounted'
  <2>1. Cardinality(Breaks) <= gaps
    BY DEF HolesAreCounted
  <2>2. CASE n = expected
    <3>1. Cardinality(Breaks') <= Cardinality(Breaks)
      BY <1>8, <1>9, <2>2, FS_Subset
    <3> QED
      BY <1>1, <1>2, <1>8, <2>1, <2>2, <3>1 DEF HolesAreCounted
  <2>3. CASE n # expected
    <3>1. /\ IsFiniteSet(Breaks \cup {n})
          /\ Cardinality(Breaks \cup {n}) \in {Cardinality(Breaks), Cardinality(Breaks) + 1}
      BY <1>8, FS_AddElement
    <3>2. Cardinality(Breaks') <= Cardinality(Breaks \cup {n})
      BY <1>9, <3>1, FS_Subset
    <3> QED
      BY <1>1, <1>2, <1>8, <2>1, <2>3, <3>1, <3>2 DEF HolesAreCounted
  <2> QED
    BY <2>2, <2>3
<1>11. GapsAreHoles'
  <2> SUFFICES ASSUME orderly' PROVE gaps' = Cardinality(Breaks')
    BY DEF GapsAreHoles
  <2>1. gaps = Cardinality(Breaks)
    BY <1>5 DEF GapsAreHoles
  <2>2. CASE n = expected
    BY <1>2, <1>9, <2>1, <2>2
  <2>3. CASE n # expected
    <3>1. Cardinality(Breaks \cup {n}) = Cardinality(Breaks) + 1
      BY <1>8, <1>9, <2>3, FS_AddElement
    <3> QED
      BY <1>2, <1>9, <2>1, <2>3, <3>1
  <2> QED
    BY <2>2, <2>3
<1> QED
  BY <1>6, <1>7, <1>10, <1>11
-----------------------------------------------------------------------------
(***************************************************************************)
(* The inductive invariant of udp_client_v1.cpp.                           *)
(***************************************************************************)

\* What UdpClientV1 gets from UdpClient is what UdpClientV2 gets from it.
LEMMA SameControl ==
  /\ V1!UdpMain <=> UdpMain
  /\ V1!UdpReporter <=> UdpReporter
  /\ V1!SignalRunning <=> SignalRunning
  /\ V1!SignalShutdown <=> SignalShutdown
  /\ V1!SocketError <=> SocketError
  /\ V1!Datagram <=> Datagram
<1>1. /\ V1!trackVars = trackVars /\ V1!netVars = netVars /\ V1!procVars = procVars
      /\ V1!baseVars = baseVars /\ V1!sockVars = sockVars /\ V1!SetupPcs = SetupPcs
      /\ trackVars' = V1!trackVars' /\ netVars' = V1!netVars' /\ procVars' = V1!procVars'
      /\ baseVars' = V1!baseVars' /\ sockVars' = V1!sockVars'
  BY DEF V1!trackVars, trackVars, V1!netVars, netVars, V1!procVars, procVars,
         V1!baseVars, baseVars, V1!sockVars, sockVars, V1!SetupPcs, SetupPcs
<1>2. V1!MainSetup <=> MainSetup
  BY <1>1, Zenon
     DEF V1!MainSetup, MainSetup, V1!setup, setup, V1!getaddrinfo, getaddrinfo,
         V1!create_socket, create_socket, V1!attach, attach, V1!freeaddrinfo, freeaddrinfo
<1>3. V1!MainThreads("close") <=> MainThreads("close")
  BY <1>1, Zenon
     DEF V1!MainThreads, MainThreads, V1!MainSpawnReceiver, MainSpawnReceiver,
         V1!MainSpawnReporter, MainSpawnReporter, V1!MainJoinReceiver, MainJoinReceiver,
         V1!MainJoinReporter, MainJoinReporter
<1>4. V1!MainClose <=> MainClose
  BY <1>1, Zenon DEF V1!MainClose, MainClose
<1>5. V1!UdpMain <=> UdpMain
  BY <1>1, <1>2, <1>3, <1>4, Zenon DEF V1!UdpMain, UdpMain
<1>6. V1!UdpReporter <=> UdpReporter
  BY <1>1, Zenon
     DEF V1!UdpReporter, UdpReporter, V1!Reporter, Reporter, V1!ReporterPin, ReporterPin,
         V1!ReporterLoop, ReporterLoop, V1!ReporterLoad, ReporterLoad
<1>7. /\ V1!SignalRunning <=> SignalRunning
      /\ V1!SignalShutdown <=> SignalShutdown
      /\ V1!SocketError <=> SocketError
  BY <1>1, Zenon
     DEF V1!SignalRunning, SignalRunning, V1!SignalShutdown, SignalShutdown,
         V1!SocketError, SocketError
<1>8. V1!NextFrames = NextFrames
  BY DEF V1!NextFrames, NextFrames, V1!Numbers, Numbers
<1>9. V1!Datagram <=> Datagram
  BY <1>1, <1>8, Zenon DEF V1!Datagram, Datagram, V1!Arrive, Arrive
<1> QED
  BY <1>5, <1>6, <1>7, <1>9

LEMMA SameTracking ==
  /\ V1!Numbers = Numbers
  /\ \A n \in Numbers :
       /\ V1!CountBreaks(n) <=> CountBreaks(n)
       /\ V1!Remember(n) <=> Remember(n)
  BY DEF V1!Numbers, Numbers, V1!CountBreaks, CountBreaks, V1!Remember, Remember

\* The parts of its invariant too.
LEMMA SameParts ==
  /\ V1!IInv <=> /\ TrackTypes /\ queue \in Seq(Frames)
                 /\ Started /\ SetupHolds
                 /\ LastTracked /\ HolesAreCounted /\ GapsAreHoles
                 /\ V1!TakenIsTick
  /\ V1!IInv' <=> /\ TrackTypes' /\ queue' \in Seq(Frames)
                  /\ Started' /\ SetupHolds'
                  /\ LastTracked' /\ HolesAreCounted' /\ GapsAreHoles'
                  /\ V1!TakenIsTick'
<1>1. /\ V1!TrackTypes <=> TrackTypes
      /\ V1!TrackTypes' <=> TrackTypes'
      /\ V1!Frames = Frames
  BY DEF V1!TrackTypes, TrackTypes, V1!Frames, Frames, V1!Numbers, Numbers
<1>2. /\ V1!Started <=> Started
      /\ V1!Started' <=> Started'
      /\ V1!SetupHolds <=> SetupHolds
      /\ V1!SetupHolds' <=> SetupHolds'
  BY DEF V1!Started, Started, V1!SetupHolds, SetupHolds, V1!SetupPcs, SetupPcs
<1>3. /\ V1!LastTracked <=> LastTracked
      /\ V1!LastTracked' <=> LastTracked'
  BY DEF V1!LastTracked, LastTracked
<1>4. V1!Breaks = Breaks /\ V1!Breaks' = Breaks'
  BY DEF V1!Breaks, Breaks
<1>5. /\ V1!HolesAreCounted <=> HolesAreCounted
      /\ V1!HolesAreCounted' <=> HolesAreCounted'
      /\ V1!GapsAreHoles <=> GapsAreHoles
      /\ V1!GapsAreHoles' <=> GapsAreHoles'
  <2>1. /\ V1!Cardinality(Breaks) = Cardinality(Breaks)
        /\ V1!Cardinality(Breaks') = Cardinality(Breaks')
    BY DEF V1!Cardinality, Cardinality
  <2> QED
    BY <1>4, <2>1 DEF V1!HolesAreCounted, HolesAreCounted, V1!GapsAreHoles, GapsAreHoles
<1> QED
  BY <1>1, <1>2, <1>3, <1>5, Zenon DEF V1!IInv

LEMMA V1Init == V1!Init => V1!IInv
<1> SUFFICES ASSUME V1!Init PROVE V1!IInv
  OBVIOUS
<1>1. /\ mainPc = "getaddrinfo" /\ socket = "none" /\ addrinfo = FALSE
      /\ status = "running" /\ repPc = "unborn" /\ rcvPc = "unborn"
      /\ expected = 1 /\ gaps = 0 /\ queue = <<>> /\ seen = {} /\ tracked = 0
      /\ orderly = TRUE
  BY DEF V1!Init, V1!UdpInit, V1!BaseInit, V1!SetupInit
<1>2. queue \in Seq(Frames)
  BY <1>1, EmptySeq
<1>3. TrackTypes /\ LastTracked
  BY <1>1 DEF TrackTypes, LastTracked
<1>4. Started /\ SetupHolds
  BY <1>1 DEF Started, SetupHolds, SetupPcs
<1>5. Cardinality(Breaks) = 0
  <2>1. Breaks = {}
    BY <1>1 DEF Breaks
  <2> QED
    BY <2>1, FS_EmptySet
<1>6. HolesAreCounted /\ GapsAreHoles
  BY <1>1, <1>5 DEF HolesAreCounted, GapsAreHoles
<1>7. V1!TakenIsTick
  BY <1>1 DEF V1!TakenIsTick
<1> QED
  BY <1>2, <1>3, <1>4, <1>6, <1>7, SameParts

\* What leaves the tracking alone and takes no tick.
LEMMA V1Outside ==
  ASSUME V1!IInv, Started', SetupHolds', UNCHANGED trackVars, queue' \in Seq(Frames),
         V1!TakenIsTick'
  PROVE  V1!IInv'
<1>1. TrackTypes /\ LastTracked /\ HolesAreCounted /\ GapsAreHoles
  BY SameParts
<1>2. TrackTypes' /\ LastTracked'
  BY <1>1 DEF TrackTypes, LastTracked, trackVars
<1>3. HolesAreCounted' /\ GapsAreHoles'
  <2>1. Breaks' = Breaks /\ gaps' = gaps /\ orderly' = orderly
    BY DEF Breaks, trackVars
  <2> QED
    BY <1>1, <2>1 DEF HolesAreCounted, GapsAreHoles
<1> QED
  BY <1>2, <1>3, SameParts

LEMMA V1Receiver ==
  ASSUME V1!IInv, V1!Receiver
  PROVE  V1!IInv'
<1>0. /\ TrackTypes /\ queue \in Seq(Frames) /\ Started /\ SetupHolds
      /\ LastTracked /\ HolesAreCounted /\ GapsAreHoles /\ V1!TakenIsTick
  BY SameParts
<1> USE DEF V1!trackVars, V1!netVars, V1!sockVars, trackVars, sockVars
<1>1. Started' /\ SetupHolds'
  <2>1. /\ status = "running" /\ status' \in {"running", "failure"}
        /\ rcvPc \notin {"unborn", "finished"}
        /\ UNCHANGED <<mainPc, repPc, sockVars>>
    BY DEF V1!Receiver, V1!ReceiverPin, V1!ReceiverLoop, V1!ReceiverRecv,
           V1!ReceiverRecvFails, V1!ReceiverCount, V1!ReceiverTrack, V1!ReceiverStop
  <2> QED
    BY <1>0, <2>1, ReceiverKeeps
<1>2. CASE \/ V1!ReceiverPin \/ V1!ReceiverLoop \/ V1!ReceiverRecvFails
           \/ V1!ReceiverCount \/ V1!ReceiverStop
  <2>1. /\ UNCHANGED <<trackVars, queue, taken>>
        /\ rcvPc' \in {"count", "track"} => rcvPc \in {"count", "track"}
    BY <1>2 DEF V1!ReceiverPin, V1!ReceiverLoop, V1!ReceiverRecvFails,
                V1!ReceiverCount, V1!ReceiverStop
  <2>2. V1!TakenIsTick'
    BY <1>0, <2>1 DEF V1!TakenIsTick
  <2> QED
    BY <1>0, <1>1, <2>1, <2>2, V1Outside
<1>3. CASE V1!ReceiverRecv
  <2>1. queue # <<>> /\ queue' = Tail(queue) /\ UNCHANGED trackVars
    BY <1>3 DEF V1!ReceiverRecv
  <2>2. Head(queue) \in Frames /\ queue' \in Seq(Frames)
    BY <1>0, <2>1, TailFrame
  <2>3. V1!TakenIsTick'
    <3>1. CASE Head(queue) = Other
      BY <1>3, <3>1 DEF V1!ReceiverRecv, V1!TakenIsTick
    <3>2. CASE Head(queue) # Other
      BY <1>3, <2>2, <3>2, SameTracking DEF V1!ReceiverRecv, V1!TakenIsTick, Frames
    <3> QED
      BY <3>1, <3>2
  <2> QED
    BY <1>1, <2>1, <2>2, <2>3, V1Outside
<1>4. CASE V1!ReceiverTrack
  <2>1. /\ rcvPc = "track" /\ rcvPc' = "loop" /\ queue' = queue
        /\ V1!CountBreaks(taken) /\ V1!Remember(taken)
    BY <1>4 DEF V1!ReceiverTrack
  <2>2. taken \in Numbers /\ CountBreaks(taken) /\ Remember(taken)
    BY <1>0, <2>1, SameTracking DEF V1!TakenIsTick
  <2>3. TrackTypes' /\ LastTracked' /\ HolesAreCounted' /\ GapsAreHoles'
    BY <1>0, <2>2, TrackingKeepsBreaks
  <2>4. V1!TakenIsTick'
    BY <2>1 DEF V1!TakenIsTick
  <2> QED
    BY <1>0, <1>1, <2>1, <2>3, <2>4, SameParts
<1> QED
  BY <1>2, <1>3, <1>4 DEF V1!Receiver

LEMMA V1Step ==
  ASSUME V1!IInv, [V1!Next]_(V1!vars)
  PROVE  V1!IInv'
<1>1. Started /\ SetupHolds /\ queue \in Seq(Frames) /\ V1!TakenIsTick
  BY SameParts
<1>2. CASE Control /\ UNCHANGED taken
  <2>1. /\ Started' /\ SetupHolds' /\ UNCHANGED <<trackVars, queue>>
        /\ rcvPc' = rcvPc \/ (rcvPc = "unborn" /\ rcvPc' = "pin")
    BY <1>1, <1>2, ControlKeeps
  <2>2. V1!TakenIsTick'
    BY <1>1, <1>2, <2>1 DEF V1!TakenIsTick
  <2> QED
    BY <1>1, <2>1, <2>2, V1Outside
<1>3. CASE Datagram /\ UNCHANGED taken
  <2>1. PICK f \in Frames : queue' = Append(queue, f)
    BY <1>1, <1>3, DatagramKeeps
  <2>2. /\ Started' /\ SetupHolds' /\ UNCHANGED <<rcvPc, trackVars>>
    BY <1>1, <1>3, DatagramKeeps
  <2>3. queue' \in Seq(Frames) /\ V1!TakenIsTick'
    BY <1>1, <1>3, <2>1, <2>2, AppendFrame DEF V1!TakenIsTick
  <2> QED
    BY <2>2, <2>3, V1Outside
<1>4. CASE UNCHANGED V1!vars
  <2>1. /\ Started' /\ SetupHolds' /\ V1!TakenIsTick'
        /\ UNCHANGED <<trackVars, queue>>
    BY <1>1, <1>4 DEF V1!vars, V1!baseVars, V1!procVars, V1!trackVars, V1!netVars,
         V1!sockVars, trackVars, Started, SetupHolds, V1!TakenIsTick
  <2> QED
    BY <1>1, <2>1, V1Outside
<1>5. CASE V1!Receiver
  BY <1>5, V1Receiver
<1>6. \/ Control /\ UNCHANGED taken
      \/ Datagram /\ UNCHANGED taken
      \/ UNCHANGED V1!vars
      \/ V1!Receiver
  BY SameControl
     DEF V1!Next, V1!Environment, V1!Handler, V1!Report, V1!Main, V1!Exited, Control
<1> QED
  BY <1>2, <1>3, <1>4, <1>5, <1>6

LEMMA V1Invariance == V1!Spec => []V1!IInv
  BY V1Init, V1Step, PTL DEF V1!Spec

\* Late and repeated datagrams can close a hole after udp_client_v1.cpp has
\* counted it, never open one that it has not counted.
THEOREM V1HolesCounted == V1!Spec => []HolesAreCounted
<1>1. V1!IInv => HolesAreCounted
  BY SameParts
<1> QED
  BY <1>1, V1Invariance, PTL

\* As long as the ticks come in order its `gaps' is the number of holes.
THEOREM V1GapsExact == V1!Spec => []GapsAreHoles
<1>1. V1!IInv => GapsAreHoles
  BY SameParts
<1> QED
  BY <1>1, V1Invariance, PTL

\* main() of udp_client_v1.cpp gives back the socket and the address list on
\* every way out.
THEOREM V1Releases == V1!Spec => []SetupReleases
<1>1. V1!IInv => SetupReleases
  BY SameParts, HoldsReleases
<1> QED
  BY <1>1, V1Invariance, PTL
=============================================================================
