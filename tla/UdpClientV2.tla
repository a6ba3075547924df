----------------------------- MODULE UdpClientV2 -----------------------------
(***************************************************************************)
(* udp_client_v2.cpp: recvmmsg() fetches the ticks in batches.  It listens *)
(* to port 9001, the publisher of main.cpp, whose first tick is number 2.  *)
(* msg_len is not looked at: every datagram is taken for a tick, and the   *)
(* slot of one that is too short still holds what was there before.        *)
(***************************************************************************)
EXTENDS UdpClient

CONSTANT Batch  \* BATCH, 256

ASSUME BatchAssumption == Batch \in Nat \ {0}

VARIABLE ticks  \* the slots recvmmsg() has reported and that are not yet tracked;
                \* Other if it has put no tick into the slot

vars == <<baseVars, sockVars, ticks>>

TypeOK ==
  /\ UdpTypeOK
  /\ rcvPc \in {"unborn", "pin", "loop", "recvmmsg", "count", "track", "stop", "finished"}
  /\ ticks \in Seq(Numbers \cup {Other}) /\ Len(ticks) <= Batch

Init == UdpInit /\ ticks = <<>>
-----------------------------------------------------------------------------
ReceiverPin ==
  /\ rcvPc = "pin"
  /\ \/ rcvPc' = "loop" /\ UNCHANGED status
     \/ status' = "failure" /\ UNCHANGED rcvPc
  /\ UNCHANGED <<RUNNING, received, trackVars, netVars, ticks>>

\* while (RUNNING)
ReceiverLoop ==
  /\ rcvPc = "loop"
  /\ rcvPc' = IF RUNNING THEN "recvmmsg" ELSE "finished"
  /\ UNCHANGED <<RUNNING, status, received, trackVars, netVars, ticks>>

\* recvmmsg() with no flags and no timeout stays in the kernel and takes one
\* datagram after the other until it has Batch of them.
ReceiverTake ==
  /\ rcvPc = "recvmmsg" /\ queue # <<>> /\ Len(ticks) < Batch
  /\ ticks' = Append(ticks, Head(queue))
  /\ queue' = Tail(queue)
  /\ UNCHANGED <<RUNNING, status, rcvPc, received, trackVars, arrived, arrivals>>

\* On a socket that is shut down Linux reports datagrams of length 0.
ReceiverTakeNothing ==
  /\ rcvPc = "recvmmsg" /\ queue = <<>> /\ Len(ticks) < Batch /\ socket = "shut"
  /\ ticks' = Append(ticks, Other)
  /\ UNCHANGED <<RUNNING, status, rcvPc, received, trackVars, netVars>>

\* Mutation: a call that the shutdown has ended is taken for the end.
ReceiverReturnDrops ==
  /\ rcvPc = "recvmmsg" /\ ticks # <<>>
  /\ Len(ticks) = Batch \/ socket \in {"shut", "error"}
  /\ rcvPc' = IF socket = "shut" THEN "stop" ELSE "count"
  /\ UNCHANGED <<RUNNING, status, received, trackVars, netVars, ticks>>

\* It returns when the batch is full, or with what it has when the socket is
\* shut down or fails.
ReceiverReturn ==
  /\ rcvPc = "recvmmsg" /\ ticks # <<>>
  /\ Len(ticks) = Batch \/ socket \in {"shut", "error"}
  /\ rcvPc' = "count"
  /\ UNCHANGED <<RUNNING, status, received, trackVars, netVars, ticks>>

\* Without a datagram: 0, which the code takes for the end, on a socket that
\* is shut down; -1, for which there is no test, so the loop goes on.
ReceiverReturnNone ==
  /\ rcvPc = "recvmmsg" /\ ticks = <<>>
  /\ \/ socket = "shut" /\ rcvPc' = "stop"
     \/ socket = "error" /\ rcvPc' = "loop"
  /\ UNCHANGED <<RUNNING, status, received, trackVars, netVars, ticks>>

\* Mutation: one per call, as in udp_client_v1.cpp.
ReceiverCountOne ==
  /\ rcvPc = "count"
  /\ received' = received + 1
  /\ rcvPc' = "track"
  /\ UNCHANGED <<RUNNING, status, trackVars, netVars, ticks>>

ReceiverCount ==
  /\ rcvPc = "count"
  /\ received' = received + Len(ticks)
  /\ rcvPc' = "track"
  /\ UNCHANGED <<RUNNING, status, trackVars, netVars, ticks>>

ReceiverTrack ==
  /\ rcvPc = "track" /\ ticks # <<>> /\ Head(ticks) # Other
  /\ CountMissing(Head(ticks)) /\ Remember(Head(ticks))
  /\ ticks' = Tail(ticks)
  /\ UNCHANGED <<RUNNING, status, rcvPc, received, netVars>>

\* The number in a slot without a tick is that of an earlier one, a mixture of
\* two, or whatever the uninitialized array holds; the counters take it.  (Not
\* modelled: a number so near to 2^64 that `expected' wraps.  No control
\* depends on the number, so that only the counters would differ.)
ReceiverTrackStale ==
  /\ rcvPc = "track" /\ ticks # <<>> /\ Head(ticks) = Other
  /\ \E n \in 0 .. MaxSeq : CountMissing(n)
  /\ tracked' = tracked + 1 /\ orderly' = FALSE
  /\ ticks' = Tail(ticks)
  /\ UNCHANGED <<RUNNING, status, rcvPc, received, seen, netVars>>

ReceiverNextBatch ==
  /\ rcvPc = "track" /\ ticks = <<>>
  /\ rcvPc' = "loop"
  /\ UNCHANGED <<RUNNING, status, received, trackVars, netVars, ticks>>

\* RUNNING = 0; break
ReceiverStop ==
  /\ rcvPc = "stop"
  /\ RUNNING' = FALSE
  /\ rcvPc' = "finished"
  /\ UNCHANGED <<status, received, trackVars, netVars, ticks>>

Receiver ==
  /\ status = "running"
  /\ \/ ReceiverPin \/ ReceiverLoop \/ ReceiverTake \/ ReceiverTakeNothing
     \/ ReceiverReturn \/ ReceiverReturnNone \/ ReceiverCount \/ ReceiverTrack
     \/ ReceiverTrackStale \/ ReceiverNextBatch \/ ReceiverStop
  /\ UNCHANGED <<mainPc, repPc, prev_received, sockVars>>

Environment ==
  /\ SignalRunning \/ Datagram \/ SocketError
  /\ UNCHANGED ticks

Handler == SignalShutdown /\ UNCHANGED ticks
Report  == UdpReporter /\ UNCHANGED ticks
Main    == UdpMain /\ UNCHANGED ticks

Exited == status # "running" /\ UNCHANGED vars

Next == Environment \/ Handler \/ Receiver \/ Report \/ Main \/ Exited

Spec == Init /\ [][Next]_vars

\* The operating system keeps scheduling the three threads and lets a signal
\* handler go on.
FairSpec ==
  Spec /\ WF_vars(Receiver) /\ WF_vars(Report) /\ WF_vars(Main) /\ WF_vars(Handler)
-----------------------------------------------------------------------------
\* However the client is ended, it has counted and tracked all that it has
\* fetched: also the batch that recvmmsg() was still filling when the signal
\* came, which it returns only because the socket is shut down.
BatchIsTracked == status = "success" => ticks = <<>> /\ tracked = received
-----------------------------------------------------------------------------
\* The batch is in use only from recvmmsg() to the end of its tracking, and
\* `received' has counted it when the tracking starts.
BatchCounted ==
  /\ rcvPc \notin {"recvmmsg", "count", "track"} => ticks = <<>>
  /\ received = tracked + IF rcvPc = "track" THEN Len(ticks) ELSE 0

\* The inductive invariant.
IInv ==
  /\ TrackTypes
  /\ received \in Nat
  /\ queue \in Seq(Frames) /\ ticks \in Seq(Frames)
  /\ Started
  /\ SetupHolds
  /\ Balance
  /\ BatchCounted
=============================================================================
