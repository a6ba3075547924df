-------------------------------- MODULE MdpV3 --------------------------------
(***************************************************************************)
(* mdp_v3.cpp: a producer thread, a ring and a publisher thread that sends *)
(* every tick as one UDP datagram.  The model starts where main() has      *)
(* installed the signal handlers.                                          *)
(***************************************************************************)
EXTENDS TickProducer

VARIABLES mainPc,   \* where main() is
          pubPc,    \* where the publisher is
          taken,    \* the publisher's `tick'
          sent,     \* the counter
          socket,   \* external: "none", "open", "failed" after a hard error, "closed"
          addrinfo, \* external: whether main() holds the list in `res'
          net       \* external: the datagrams the kernel took, oldest first

INSTANCE SocketSetup

pubVars  == <<pubPc, taken, sent>>
sockVars == <<socket, addrinfo>>
vars    == <<RUNNING, status, prodVars, ring, mainPc, pubVars, sockVars, net>>

TypeOK ==
  /\ ProducerTypeOK
  /\ mainPc \in SetupPcs \cup
                {"spawnProducer", "spawnPublisher", "stats", "joinProducer",
                 "joinPublisher", "shutdown", "close"}
  /\ pubPc \in {"unborn", "pin", "loop", "loopEmpty", "pop", "retry", "retryEmpty",
                "send", "stop", "count", "finished"}
  /\ taken \in Nat /\ sent \in Nat
  /\ socket \in {"none", "open", "failed", "shut", "closed"}
  /\ addrinfo \in BOOLEAN
  /\ net \in Seq(Nat)

Init ==
  /\ ProducerInit
  /\ SetupInit
  /\ pubPc = "unborn" /\ taken = 0 /\ sent = 0
  /\ net = <<>>
-----------------------------------------------------------------------------
Signal ==
  /\ status = "running" /\ RUNNING
  /\ RUNNING' = FALSE
  /\ UNCHANGED <<status, prodVars, ring, mainPc, pubVars, sockVars, net>>

Producer == ProducerStep /\ UNCHANGED <<mainPc, pubVars, sockVars, net>>

PublisherPin ==
  /\ pubPc = "pin"
  /\ \/ pubPc' = "loop" /\ UNCHANGED status
     \/ status' = "failure" /\ UNCHANGED pubPc
  /\ UNCHANGED <<RUNNING, ring, taken, sent, sockVars, net>>

\* while (RUNNING || !ring.empty())
PublisherLoop ==
  /\ pubPc = "loop"
  /\ pubPc' = IF RUNNING THEN "pop" ELSE "loopEmpty"
  /\ UNCHANGED <<RUNNING, status, ring, taken, sent, sockVars, net>>

\* Mutation: the test is not negated, as in mdp_v2.1.cpp.
PublisherLoopEmptyInverted ==
  /\ pubPc = "loopEmpty"
  /\ pubPc' = IF ring = <<>> THEN "pop" ELSE "finished"
  /\ UNCHANGED <<RUNNING, status, ring, taken, sent, sockVars, net>>

PublisherLoopEmpty ==
  /\ pubPc = "loopEmpty"
  /\ pubPc' = IF ring # <<>> THEN "pop" ELSE "finished"
  /\ UNCHANGED <<RUNNING, status, ring, taken, sent, sockVars, net>>

\* while (!ring.pop (tick))
PublisherPop ==
  /\ pubPc = "pop"
  /\ IF ring # <<>>
       THEN taken' = Head(ring) /\ ring' = Tail(ring) /\ pubPc' = "send"
       ELSE pubPc' = "retry" /\ UNCHANGED <<taken, ring>>
  /\ UNCHANGED <<RUNNING, status, sent, sockVars, net>>

\* Mutation: the publisher waits for a tick whatever the flag says.
PublisherRetryAlways ==
  /\ pubPc = "retry"
  /\ pubPc' = "pop"
  /\ UNCHANGED <<RUNNING, status, ring, taken, sent, sockVars, net>>

\* if (!RUNNING && ring.empty()) return
PublisherRetry ==
  /\ pubPc = "retry"
  /\ pubPc' = IF RUNNING THEN "pop" ELSE "retryEmpty"
  /\ UNCHANGED <<RUNNING, status, ring, taken, sent, sockVars, net>>

PublisherRetryEmpty ==
  /\ pubPc = "retryEmpty"
  /\ pubPc' = IF ring = <<>> THEN "finished" ELSE "pop"
  /\ UNCHANGED <<RUNNING, status, ring, taken, sent, sockVars, net>>

\* Mutation: a datagram the kernel refused is counted.
PublisherSendCountsRefused ==
  /\ pubPc = "send"
  /\ \/ net' = Append(net, taken) /\ pubPc' = "count" /\ UNCHANGED sockVars
     \/ pubPc' = "count" /\ UNCHANGED <<sockVars, net>>
     \/ pubPc' = "stop" /\ socket' = "failed" /\ UNCHANGED <<addrinfo, net>>
  /\ UNCHANGED <<RUNNING, status, ring, taken, sent>>

\* send(): the kernel takes the datagram; or refuses it (EAGAIN, EWOULDBLOCK,
\* ECONNREFUSED) and the tick is given up; or fails for good.
PublisherSend ==
  /\ pubPc = "send"
  /\ \/ net' = Append(net, taken) /\ pubPc' = "count" /\ UNCHANGED sockVars
     \/ pubPc' = "loop" /\ UNCHANGED <<sockVars, net>>
     \/ pubPc' = "stop" /\ socket' = "failed" /\ UNCHANGED <<addrinfo, net>>
  /\ UNCHANGED <<RUNNING, status, ring, taken, sent>>

\* Mutation: the publisher leaves and does not tell the other threads.
PublisherStopSilently ==
  /\ pubPc = "stop"
  /\ pubPc' = "finished"
  /\ UNCHANGED <<RUNNING, status, ring, taken, sent, sockVars, net>>

\* RUNNING = 0; return
PublisherStop ==
  /\ pubPc = "stop"
  /\ RUNNING' = FALSE
  /\ pubPc' = "finished"
  /\ UNCHANGED <<status, ring, taken, sent, sockVars, net>>

PublisherCount ==
  /\ pubPc = "count"
  /\ sent' = sent + 1
  /\ pubPc' = "loop"
  /\ UNCHANGED <<RUNNING, status, ring, taken, sockVars, net>>

Publisher ==
  /\ status = "running"
  /\ \/ PublisherPin \/ PublisherLoop \/ PublisherLoopEmpty \/ PublisherPop
     \/ PublisherRetry \/ PublisherRetryEmpty
     \/ PublisherSend \/ PublisherStop \/ PublisherCount
  /\ UNCHANGED <<prodVars, mainPc>>

MainSetup == setup("spawnProducer") /\ UNCHANGED <<prodVars, pubVars>>

MainSpawnProducer ==
  /\ mainPc = "spawnProducer"
  /\ mainPc' = "spawnPublisher" /\ prodPc' = "pin"
  /\ UNCHANGED <<status, nextSeq, produced, pubVars, sockVars>>

MainSpawnPublisher ==
  /\ mainPc = "spawnPublisher"
  /\ mainPc' = "stats" /\ pubPc' = "pin"
  /\ UNCHANGED <<status, prodVars, taken, sent, sockVars>>

\* The stats loop, until RUNNING is cleared, then the joins.
MainStats ==
  /\ mainPc = "stats" /\ ~RUNNING
  /\ mainPc' = "joinProducer"
  /\ UNCHANGED <<status, prodVars, pubVars, sockVars>>

MainJoinProducer ==
  /\ mainPc = "joinProducer" /\ prodPc = "finished"
  /\ mainPc' = "joinPublisher"
  /\ UNCHANGED <<status, prodVars, pubVars, sockVars>>

MainJoinPublisher ==
  /\ mainPc = "joinPublisher" /\ pubPc = "finished"
  /\ mainPc' = "shutdown"
  /\ UNCHANGED <<status, prodVars, pubVars, sockVars>>

\* shutdown (socketfd, SHUT_RDWR)
MainShutdown ==
  /\ mainPc = "shutdown"
  /\ mainPc' = "close"
  /\ socket' = "shut"
  /\ UNCHANGED <<status, prodVars, pubVars, addrinfo>>

\* close (socketfd); return EXIT_SUCCESS
MainClose ==
  /\ mainPc = "close"
  /\ socket' = "closed"
  /\ status' = "success"
  /\ UNCHANGED <<mainPc, prodVars, pubVars, addrinfo>>

Main ==
  /\ status = "running"
  /\ \/ MainSetup \/ MainSpawnProducer \/ MainSpawnPublisher \/ MainStats
     \/ MainJoinProducer \/ MainJoinPublisher \/ MainShutdown \/ MainClose
  /\ UNCHANGED <<RUNNING, ring, net>>

Exited == status # "running" /\ UNCHANGED vars

Next == Signal \/ Producer \/ Publisher \/ Main \/ Exited

Spec == Init /\ [][Next]_vars

\* The operating system keeps scheduling the three threads.
FairSpec == Spec /\ WF_vars(Producer) /\ WF_vars(Publisher) /\ WF_vars(Main)
-----------------------------------------------------------------------------
\* Datagrams leave in the order of their ticks, each at most once, over full
\* rings and refused sends, and `sent' counts exactly those the kernel took.
SentInOrder ==
  /\ \A i \in 1 .. Len(net) - 1 : net[i] < net[i + 1]
  /\ Len(net) = sent + IF pubPc = "count" THEN 1 ELSE 0

\* A publisher that was not stopped by an error leaves at most one tick, the
\* one a producer that had read RUNNING before the signal pushed after it left.
StrandedAtMostOne == pubPc = "finished" /\ socket = "open" => Len(ring) <= 1

\* After the signal or a hard error of send() the process ends.
Terminates == ~RUNNING \/ socket = "failed" ~> status # "running"
-----------------------------------------------------------------------------
\* The threads do not exist before main() has started them.
Born ==
  /\ mainPc \in SetupPcs \cup {"spawnProducer"} => prodPc = "unborn"
  /\ mainPc \in SetupPcs \cup {"spawnProducer", "spawnPublisher"} => pubPc = "unborn"

\* A datagram has a smaller number than the ticks that come after it.
Sending ==
  /\ pubPc = "send" => taken = FirstSeq + Popped - 1
  /\ \A i \in 1 .. Len(net) :
       net[i] < FirstSeq + Popped - IF pubPc = "send" THEN 1 ELSE 0

\* The publisher leaves after it has seen RUNNING cleared and then the ring
\* empty, or after an error.
Draining ==
  /\ pubPc \in {"loopEmpty", "retryEmpty", "finished"} => ~RUNNING
  /\ pubPc = "stop" => socket # "open"
  /\ pubPc = "finished" /\ socket = "open" => LastTick

\* The inductive invariant.
IInv == TypeOK /\ Numbered /\ Born /\ SentInOrder /\ Sending /\ Draining
=============================================================================
