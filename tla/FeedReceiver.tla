---------------------------- MODULE FeedReceiver ----------------------------
(***************************************************************************)
(* What the receivers feed_handler_v2.cpp, udp_client_v1.cpp and           *)
(* udp_client_v2.cpp have in common: the network they listen to, the       *)
(* sequence tracking, the reporter thread and main().  The modules of the  *)
(* three programs add the receiver thread and the end of main().           *)
(*                                                                         *)
(* The network is external.  A frame is the sequence number of its tick,   *)
(* or Other if it is too short to hold one.  A number that never arrives   *)
(* is lost: on the way, or because the receive queue was full.             *)
(***************************************************************************)
EXTENDS Integers, Sequences, FiniteSets

CONSTANTS FirstSeq,     \* the first number of the stream: 2 for main.cpp, 0 for mdp_v3.cpp
          Other,        \* a frame that holds no tick
          ShortFrames,  \* whether the network delivers such frames
          Reorders,     \* whether the network delivers late frames
          Duplicates,   \* whether it delivers frames twice
          QueueLen,     \* the frames the kernel or the NIC holds for the receiver
          MaxSeq,       \* bound: the last number of the stream
          MaxArrivals   \* bound: the frames that arrive

Numbers == FirstSeq .. MaxSeq

ASSUME ReceiverAssumption ==
  /\ FirstSeq \in Nat /\ MaxSeq \in Nat
  /\ ShortFrames \in BOOLEAN /\ Reorders \in BOOLEAN /\ Duplicates \in BOOLEAN
  /\ QueueLen \in Nat \ {0} /\ MaxArrivals \in Nat
  /\ Other \notin Nat

VARIABLES
  RUNNING,        \* RUNNING, or g_RUNNING
  status,         \* "running", or how the process ended
  mainPc,         \* where main() is
  repPc,          \* where the reporter thread is
  prev_received,  \* the reporter's, what it has printed
  rcvPc,          \* where the receiver thread is
  expected,       \* the receiver's, the next number
  gaps, received, \* the counters
  queue,          \* external: the frames that wait for the receiver
  arrived,        \* external: the numbers that have arrived
  arrivals,       \* external: how many frames have arrived
  seen,           \* history: the numbers the receiver has tracked
  tracked,        \* history: how many ticks it has tracked
  orderly         \* history: whether each was greater than all before

trackVars == <<expected, gaps, seen, tracked, orderly>>
netVars   == <<queue, arrived, arrivals>>
procVars  == <<RUNNING, status, mainPc, repPc, prev_received>>
baseVars  == <<procVars, rcvPc, received, trackVars, netVars>>

ThreadPcs == {"spawnReceiver", "spawnReporter", "joinReceiver", "joinReporter"}

BaseTypeOK ==
  /\ RUNNING \in BOOLEAN
  /\ status \in {"running", "success", "failure"}
  /\ repPc \in {"unborn", "pin", "loop", "load", "finished"}
  /\ prev_received \in 0 .. received
  /\ expected \in Nat \ {0} /\ gaps \in Nat /\ received \in Nat
  /\ queue \in Seq(Numbers \cup {Other}) /\ Len(queue) <= QueueLen
  /\ arrived \in SUBSET Numbers /\ arrivals \in 0 .. MaxArrivals
  /\ seen \in SUBSET arrived /\ tracked \in 0 .. received
  /\ orderly \in BOOLEAN

\* The part of the types that the sequence tracking relies on, and what may
\* wait for the receiver.
TrackTypes ==
  /\ expected \in Nat \ {0} /\ gaps \in Nat /\ tracked \in Nat
  /\ seen \in SUBSET Numbers /\ orderly \in BOOLEAN

Frames == Numbers \cup {Other}

\* When main() has installed the signal handlers; the modules of the programs
\* say what it does first.
BaseInit ==
  /\ RUNNING = TRUE /\ status = "running"
  /\ repPc = "unborn" /\ prev_received = 0
  /\ rcvPc = "unborn" /\ expected = 1 /\ gaps = 0 /\ received = 0
  /\ queue = <<>> /\ arrived = {} /\ arrivals = 0
  /\ seen = {} /\ tracked = 0 /\ orderly = TRUE
-----------------------------------------------------------------------------
(***************************************************************************)
(* The network.                                                            *)
(***************************************************************************)

\* What may arrive next: a number greater than all that have, which passes
\* over the lost ones; a late one; one that has arrived before; or a frame
\* without a tick.
NextFrames ==
  {n \in Numbers :
     \/ \A m \in arrived : m < n
     \/ Reorders /\ n \notin arrived
     \/ Duplicates /\ n \in arrived}
  \cup IF ShortFrames THEN {Other} ELSE {}

Arrive(f) ==
  /\ arrivals < MaxArrivals
  /\ Len(queue) < QueueLen
  /\ queue' = Append(queue, f)
  /\ arrived' = arrived \cup ({f} \ {Other})
  /\ arrivals' = arrivals + 1
  /\ UNCHANGED <<procVars, rcvPc, received, trackVars>>
-----------------------------------------------------------------------------
(***************************************************************************)
(* Sequence tracking.                                                      *)
(***************************************************************************)

\* Mutation: a tick before the expected one is not a break.
CountBreaksForward(n) ==
  IF n > expected
    THEN gaps' = gaps + 1 /\ expected' = n + 1
    ELSE expected' = expected + 1 /\ UNCHANGED gaps

\* Mutation: after a break the receiver goes on from where it was.
CountBreaksStays(n) ==
  /\ expected' = expected + 1
  /\ gaps' = IF n # expected THEN gaps + 1 ELSE gaps

\* udp_client_v1.cpp counts the breaks.
CountBreaks(n) ==
  IF n # expected
    THEN gaps' = gaps + 1 /\ expected' = n + 1
    ELSE expected' = expected + 1 /\ UNCHANGED gaps

\* Mutation: the tick that arrived is expected again.
CountMissingBehind(n) ==
  IF n > expected
    THEN gaps' = gaps + (n - expected) /\ expected' = n
    ELSE expected' = expected + 1 /\ UNCHANGED gaps

\* Mutation: one missing number less.
CountMissingOffByOne(n) ==
  IF n > expected
    THEN gaps' = gaps + (n - expected - 1) /\ expected' = n + 1
    ELSE expected' = expected + 1 /\ UNCHANGED gaps

\* feed_handler_v2.cpp and udp_client_v2.cpp count the missing numbers.
CountMissing(n) ==
  IF n > expected
    THEN gaps' = gaps + (n - expected) /\ expected' = n + 1
    ELSE expected' = expected + 1 /\ UNCHANGED gaps

\* History: number n has been tracked.
Remember(n) ==
  /\ seen' = seen \cup {n}
  /\ tracked' = tracked + 1
  /\ orderly' = (orderly /\ \A m \in seen : m < n)
-----------------------------------------------------------------------------
(***************************************************************************)
(* The reporter thread: once a second it prints the rate and the gaps.     *)
(***************************************************************************)

ReporterPin ==
  /\ repPc = "pin"
  /\ \/ repPc' = "loop" /\ UNCHANGED status
     \/ status' = "failure" /\ UNCHANGED repPc
  /\ UNCHANGED <<RUNNING, prev_received>>

ReporterLoop ==
  /\ repPc = "loop"
  /\ repPc' = IF RUNNING THEN "load" ELSE "finished"
  /\ UNCHANGED <<RUNNING, status, prev_received>>

ReporterLoad ==
  /\ repPc = "load"
  /\ prev_received' = received
  /\ repPc' = "loop"
  /\ UNCHANGED <<RUNNING, status>>

Reporter ==
  /\ status = "running"
  /\ ReporterPin \/ ReporterLoop \/ ReporterLoad
  /\ UNCHANGED <<mainPc, rcvPc, received, trackVars, netVars>>
-----------------------------------------------------------------------------
(***************************************************************************)
(* main(): start the threads and wait for both to end.                     *)
(***************************************************************************)

MainSpawnReceiver ==
  /\ mainPc = "spawnReceiver"
  /\ mainPc' = "spawnReporter" /\ rcvPc' = "pin"
  /\ UNCHANGED <<status, repPc>>

MainSpawnReporter ==
  /\ mainPc = "spawnReporter"
  /\ mainPc' = "joinReceiver" /\ repPc' = "pin"
  /\ UNCHANGED <<status, rcvPc>>

MainJoinReceiver ==
  /\ mainPc = "joinReceiver" /\ rcvPc = "finished"
  /\ mainPc' = "joinReporter"
  /\ UNCHANGED <<status, rcvPc, repPc>>

MainJoinReporter(next) ==
  /\ mainPc = "joinReporter" /\ repPc = "finished"
  /\ mainPc' = next
  /\ UNCHANGED <<status, rcvPc, repPc>>

\* After that main() goes on at `next'.
MainThreads(next) ==
  /\ status = "running"
  /\ \/ MainSpawnReceiver \/ MainSpawnReporter
     \/ MainJoinReceiver \/ MainJoinReporter(next)
  /\ UNCHANGED <<RUNNING, prev_received, received, trackVars, netVars>>
-----------------------------------------------------------------------------
(***************************************************************************)
(* What the counters can be compared with.                                 *)
(***************************************************************************)

\* The numbers of the stream below the greatest tracked one that the receiver
\* has not tracked.
Missing == {n \in Numbers : n \notin seen /\ \E m \in seen : n < m}

\* The ticks tracked for a second time.
Repeats == tracked - Cardinality(seen)

\* The tracked numbers whose predecessor has not been tracked.
Breaks == {n \in seen : n # 1 /\ n - 1 \notin seen}
-----------------------------------------------------------------------------
(***************************************************************************)
(* What CountMissing achieves.                                             *)
(***************************************************************************)

\* While no number comes twice, `gaps' is at least the number of losses the
\* receiver can know of: none escapes it, although a late tick moves
\* `expected' beyond the next number and a later loss then adds nothing.
\* tick.hpp:7: "client needs sequence number to detect packet loss".
LossesAreCounted == Cardinality(Missing) <= gaps

\* In general a repeated tick can hide one loss, and a stream that starts at
\* FirstSeq shifts the balance by FirstSeq - 1; there is no other error.
RepeatsHideLosses ==
  seen # {} => Cardinality(Missing) <= gaps + Repeats + 1 - FirstSeq

\* As long as the ticks come in order, `gaps' is exact: the numbers from 1 on
\* that were passed over.
GapsAreExact ==
  orderly /\ seen # {} => gaps = Cardinality({n \in 1 .. expected - 1 : n \notin seen})

\* Why: `expected' advances by one for each tick and by the gap for each gap,
\* and stays beyond every number tracked.
Balance ==
  /\ expected = 1 + gaps + tracked
  /\ \A n \in seen : n < expected
-----------------------------------------------------------------------------
(***************************************************************************)
(* What CountBreaks achieves.                                              *)
(***************************************************************************)

\* Whatever the network does, every place where the stream still has a hole
\* has been counted.
HolesAreCounted == Cardinality(Breaks) <= gaps

\* As long as the ticks come in order each hole is counted once, however many
\* numbers it has, and so is a first tick other than number 1.
GapsAreHoles == orderly => gaps = Cardinality(Breaks)

\* Why: `expected' is one beyond the number tracked last, which is the
\* greatest as long as the ticks come in order.
LastTracked ==
  /\ seen = {} => expected = 1
  /\ seen # {} => expected - 1 \in seen
  /\ orderly => \A n \in seen : n < expected
=============================================================================
