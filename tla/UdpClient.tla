------------------------------ MODULE UdpClient ------------------------------
(***************************************************************************)
(* What udp_client_v1.cpp and udp_client_v2.cpp share besides FeedReceiver: *)
(* a bound datagram socket, a signal handler that shuts it down to wake    *)
(* the receiver, and main() closing it.  The models start where main() has *)
(* installed the signal handlers.                                          *)
(***************************************************************************)
EXTENDS FeedReceiver

VARIABLES socket,    \* external: "none", "open", "error", "shut" or "closed"
          addrinfo,  \* external: whether main() holds the list in `res'
          handler    \* "idle", or "shutdown" between the two lines of sig_handler

INSTANCE SocketSetup

sockVars == <<socket, addrinfo, handler>>

UdpTypeOK ==
  /\ BaseTypeOK
  /\ mainPc \in SetupPcs \cup ThreadPcs \cup {"close"}
  /\ socket \in {"none", "open", "error", "shut", "closed"}
  /\ addrinfo \in BOOLEAN
  /\ handler \in {"idle", "shutdown"}

UdpInit == BaseInit /\ SetupInit /\ handler = "idle"
-----------------------------------------------------------------------------
SignalRunning ==
  /\ status = "running" /\ RUNNING
  /\ RUNNING' = FALSE
  /\ handler' = "shutdown"
  /\ UNCHANGED <<status, mainPc, repPc, prev_received, rcvPc, received,
                 trackVars, netVars, socket, addrinfo>>

\* Mutation: the handler clears the flag and does no more.
SignalNoShutdown ==
  /\ status = "running" /\ handler = "shutdown"
  /\ handler' = "idle"
  /\ UNCHANGED <<baseVars, socket, addrinfo>>

\* shutdown (socketfd, SHUT_RDWR), which fails while there is no socket.
SignalShutdown ==
  /\ status = "running" /\ handler = "shutdown"
  /\ handler' = "idle"
  /\ socket' = IF socket \in {"none", "closed"} THEN socket ELSE "shut"
  /\ UNCHANGED <<baseVars, addrinfo>>

\* External: a datagram arrives at the bound socket.
Datagram ==
  /\ status = "running" /\ mainPc \notin SetupPcs \ {"freeaddrinfo"}
  /\ \E f \in NextFrames : Arrive(f)
  /\ UNCHANGED sockVars

\* External: from now on receiving fails, with an errno other than EINTR.
\* (EINTR does not occur: signal() restarts the interrupted call.)
SocketError ==
  /\ status = "running" /\ socket = "open" /\ mainPc \notin SetupPcs
  /\ socket' = "error"
  /\ UNCHANGED <<baseVars, addrinfo, handler>>

\* Until there are threads the handler interrupts main() and returns to it.
MainSetup ==
  /\ status = "running" /\ handler = "idle"
  /\ setup("spawnReceiver")
  /\ UNCHANGED <<RUNNING, repPc, prev_received, rcvPc, received, trackVars,
                 netVars, handler>>

\* close (socketfd); return EXIT_SUCCESS
MainClose ==
  /\ status = "running" /\ mainPc = "close"
  /\ socket' = "closed"
  /\ status' = "success"
  /\ UNCHANGED <<RUNNING, mainPc, repPc, prev_received, rcvPc, received,
                 trackVars, netVars, addrinfo, handler>>

UdpMain == MainSetup \/ (MainThreads("close") /\ UNCHANGED sockVars) \/ MainClose

UdpReporter == Reporter /\ UNCHANGED sockVars
-----------------------------------------------------------------------------
\* After a signal the client ends, whether it comes while main() is setting up
\* the socket or while the receiver is blocked in a call on a silent socket
\* that only the shutdown ends.
Terminates == ~RUNNING ~> status # "running"
-----------------------------------------------------------------------------
(***************************************************************************)
(* A part of the inductive invariants of the clients.                      *)
(***************************************************************************)

\* The threads run from the time main() has started them to the time it has
\* joined them.
Started ==
  /\ mainPc \in SetupPcs \cup {"spawnReceiver"} => rcvPc = "unborn"
  /\ mainPc \in SetupPcs \cup {"spawnReceiver", "spawnReporter"} => repPc = "unborn"
  /\ mainPc \in {"joinReporter", "close"} => rcvPc = "finished"
=============================================================================
