----------------------------- MODULE UdpClientV1 -----------------------------
(***************************************************************************)
(* udp_client_v1.cpp: one recv() per tick.  Its publisher is mdp_v3.cpp,   *)
(* whose first tick is number 0.                                           *)
(***************************************************************************)
EXTENDS UdpClient

CONSTANT NoTick

VARIABLE taken  \* the receiver's `tick', until it has been tracked

vars == <<baseVars, sockVars, taken>>

TypeOK ==
  /\ UdpTypeOK
  /\ rcvPc \in {"unborn", "pin", "loop", "recv", "count", "track", "stop", "finished"}
  /\ taken \in Numbers \cup {NoTick}

Init == UdpInit /\ taken = NoTick
-----------------------------------------------------------------------------
ReceiverPin ==
  /\ rcvPc = "pin"
  /\ \/ rcvPc' = "loop" /\ UNCHANGED status
     \/ status' = "failure" /\ UNCHANGED rcvPc
  /\ UNCHANGED <<RUNNING, received, trackVars, netVars, taken>>

\* while (RUNNING)
ReceiverLoop ==
  /\ rcvPc = "loop"
  /\ rcvPc' = IF RUNNING THEN "recv" ELSE "finished"
  /\ UNCHANGED <<RUNNING, status, received, trackVars, netVars, taken>>

\* Mutation: at an empty datagram the receiver leaves and tells nobody.
ReceiverRecvLeaves ==
  /\ rcvPc = "recv" /\ queue # <<>>
  /\ queue' = Tail(queue)
  /\ IF Head(queue) = Other
       THEN rcvPc' \in {"loop", "finished"} /\ UNCHANGED taken
       ELSE rcvPc' = "count" /\ taken' = Head(queue)
  /\ UNCHANGED <<RUNNING, status, received, trackVars, arrived, arrivals>>

\* recv() returns a datagram.  One that is too short is ignored, unless it is
\* empty: its 0 bytes look like the end of the stream.
ReceiverRecv ==
  /\ rcvPc = "recv" /\ queue # <<>>
  /\ queue' = Tail(queue)
  /\ IF Head(queue) = Other
       THEN rcvPc' \in {"loop", "stop"} /\ UNCHANGED taken
       ELSE rcvPc' = "count" /\ taken' = Head(queue)
  /\ UNCHANGED <<RUNNING, status, received, trackVars, arrived, arrivals>>

\* recv() returns 0 on a socket that is shut down, or -1.
ReceiverRecvFails ==
  /\ rcvPc = "recv" /\ socket \in {"shut", "error"}
  /\ rcvPc' = "stop"
  /\ UNCHANGED <<RUNNING, status, received, trackVars, netVars, taken>>

\* Mutation: the counter is increased for the ticks in order only.
ReceiverCountExpected ==
  /\ rcvPc = "count"
  /\ received' = IF taken = expected THEN received + 1 ELSE received
  /\ rcvPc' = "track"
  /\ UNCHANGED <<RUNNING, status, trackVars, netVars, taken>>

ReceiverCount ==
  /\ rcvPc = "count"
  /\ received' = received + 1
  /\ rcvPc' = "track"
  /\ UNCHANGED <<RUNNING, status, trackVars, netVars, taken>>

ReceiverTrack ==
  /\ rcvPc = "track"
  /\ CountBreaks(taken) /\ Remember(taken)
  /\ taken' = NoTick
  /\ rcvPc' = "loop"
  /\ UNCHANGED <<RUNNING, status, received, netVars>>

\* RUNNING = 0; break
ReceiverStop ==
  /\ rcvPc = "stop"
  /\ RUNNING' = FALSE
  /\ rcvPc' = "finished"
  /\ UNCHANGED <<status, received, trackVars, netVars, taken>>

Receiver ==
  /\ status = "running"
  /\ \/ ReceiverPin \/ ReceiverLoop \/ ReceiverRecv \/ ReceiverRecvFails
     \/ ReceiverCount \/ ReceiverTrack \/ ReceiverStop
  /\ UNCHANGED <<mainPc, repPc, prev_received, sockVars>>

Environment ==
  /\ SignalRunning \/ Datagram \/ SocketError
  /\ UNCHANGED taken

Handler == SignalShutdown /\ UNCHANGED taken
Report  == UdpReporter /\ UNCHANGED taken
Main    == UdpMain /\ UNCHANGED taken

Exited == status # "running" /\ UNCHANGED vars

Next == Environment \/ Handler \/ Receiver \/ Report \/ Main \/ Exited

Spec == Init /\ [][Next]_vars

\* The operating system keeps scheduling the three threads and lets a signal
\* handler go on.
FairSpec ==
  Spec /\ WF_vars(Receiver) /\ WF_vars(Report) /\ WF_vars(Main) /\ WF_vars(Handler)
-----------------------------------------------------------------------------
\* The client ends without a signal too: after an error of recv(), and once
\* the receiver has left its loop for any other reason.  An empty datagram is
\* one, which recv() reports like the end of the stream and of which only the
\* receiver knows.
StopEnds ==
  (rcvPc = "recv" /\ socket = "error") \/ rcvPc \in {"stop", "finished"}
    ~> status # "running"
-----------------------------------------------------------------------------
\* What is counted and tracked is a tick.
TakenIsTick == rcvPc \in {"count", "track"} => taken \in Numbers

\* The inductive invariant.
IInv ==
  /\ TrackTypes
  /\ queue \in Seq(Frames)
  /\ Started
  /\ SetupHolds
  /\ LastTracked
  /\ HolesAreCounted
  /\ GapsAreHoles
  /\ TakenIsTick
=============================================================================
