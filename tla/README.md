# Verification of the Market Data Publisher

TLA+ models of the programs in this repository, TLC configurations that check
them on small instances, and TLAPS proofs about the modules at the core: the
lock-free ring, the publishers built on it and the DPDK receiver.

## 1. The system

A market data generator (MDG) numbers ticks; a producer thread pushes them on
a single-producer single-consumer ring; a publisher thread pops them in bursts,
puts each into an Ethernet frame and hands the frames to a NIC through DPDK; a
feed handler or a UDP client on another machine receives them and counts the
gaps in the numbers. The repository holds the current program (`mdp_src/`,
`mdp_include/`) and the steps that led to it (`mdp_v1.cpp` ... `mdp_v3.cpp`).

| component | source | state | operations | talks to |
|---|---|---|---|---|
| ring v3 | `mdp_include/ring_buffer_v3.hpp` (same as `ring_buffer_v3.hpp`) | slots, `head_`, `tail_`, a cached copy of each index in the other thread | `push`, `pop`, `empty`, `size`, `reset`, `get_tail`, `advance_tail` | producer and consumer threads, stats loop |
| ring v2.1 | `ring_buffer_v2.1.hpp` | the same without the cached indices | the same | `mdp_v2.1.cpp` |
| generator, producer | `mdp_src/mdg.cpp`, `main.cpp:74` | next number, `produced_ticks` | generate, push until it succeeds or shutdown, count | ring, `g_RUNNING` |
| publisher | `mdp_src/publisher.cpp` | the burst (`bc.ticks`, `bc.pkts`), `sent_pkts`, `dropped_pkts` | pop a burst, `build_burst`, `tx_burst`, free, count | ring, mbuf pool, NIC |
| main | `mdp_src/main.cpp` | where it is | start threads, print statistics, join, shut down | all |
| port | `mdp_src/dpdk_port.cpp` | EAL, port, two mbuf pools, two queues | `init`, `shutdown`; every failure ends the process | DPDK |
| earlier publishers | `mdp_v2.1.cpp`, `mdp_v2.2.cpp`, `mdp_v3.cpp` | `RUNNING`, counters, socket | producer, consumer or UDP publisher, main | ring, stdout or socket |
| feed handler | `mdp_src/feed_handler_v2.cpp` | burst, `expected`, `gaps`, `received`, rx mbuf pool | receive a burst, track the numbers, free; report | NIC, `g_RUNNING` |
| UDP clients | `udp_client_v1.cpp`, `udp_client_v2.cpp` | `expected`, `gaps`, `received`, socket | `recv` or `recvmmsg`, track; report; shut the socket down in the signal handler | socket, `RUNNING` |

What is hard here:

* the ring is lock-free and works with stale copies of the indices, on counters
  that wrap;
* a call of `empty()` or `size()` reads two indices at two instants;
* the TX queue, the mbuf pool and the ring are all bounded; a burst may be built,
  accepted or sent in part;
* shutdown is a flag that three threads read at different times while the ring
  still holds ticks and the NIC frames, and the signal may come before there are
  threads or a socket;
* a load of an index may return an old value, and only the release stores and
  acquire loads order the plain accesses to the slots;
* the set-up of the port and of the socket can fail at every call;
* the receivers have to tell lost frames from reordered or duplicated ones.

What makes each component correct: the ring loses, duplicates, reorders and
invents nothing, never races on a slot and never waits; the publisher keeps the
order, accounts for every tick and every mbuf, leaves the ring (almost) empty at
shutdown and always ends; the port outlives its users; the receivers' gaps are
losses. `PROJECT.json` lists the hazards at their lines.

## 2. Modules

* `Fifo` is the promise of the ring: a bounded queue in which each `push` and
  `pop` is a call, a pending time and one atomic return; `false` is returned
  only at a moment when the queue is full (empty).
* `ZRing` is ring v3. Each access to memory shared by the threads is one action:
  `PushEnter`, `PushRefresh`, `PushWrite`, `PushPublish`; `PopEnter`,
  `PopRefresh`, `PopRead`, `PopAdvance`; `EmptyLoadHead`, `EmptyLoadTail`. The
  control points `prodPc` and `consPc` are the places between two accesses.
  Indices count modulo `CounterMod`, which stands for 2^64. `Queue` and
  `Abstract` give the refinement mapping to `Fifo`. In `empty()` the consumer
  compares with its own index, so it does not matter which load is first.
* `ZRingReset` adds `reset()` between operations; `ZRingSize` adds a third
  thread inside `size()`, with the two loads in either order.
* `ZRingRA` is the same ring under the memory model of C++. `headStores` and
  `tailStores` hold, for every store to an index, how many slot accesses it makes
  visible; a load reads any store from the latest one the thread has read on, and its
  acquire makes known what that store tells. A store is known by its number, but the
  tests and the slots are computed from what the number leaves modulo `CounterMod`
  (`Index`, `Dist`, `Slot`), which is all that the program has.
* `DpdkPort` is `dpdk::init` and `dpdk::shutdown`, one action per call into DPDK,
  each with its failure. The publisher and the feed handler include it (`INSTANCE`),
  so that their models start where `main()` has installed the signal handlers.
  `SocketSetup` is in the same way the socket set-up of `mdp_v3.cpp` and the UDP
  clients.
* `MarketDataPublisher` is the process of `main.cpp`: the threads `Producer`,
  `Publisher` and `Main`, the `Signal` handler and the NIC. One action is one
  access to state that another thread sees (the flag, the ring, a counter) or,
  for the mbuf pool that only the publisher thread touches, one call. The ring is
  the atomic queue that `ZRing` is proved to implement. A tick is its number, an
  mbuf is a unit in `pool`. External, modelled from its use: `PublisherTx`
  (`rte_eth_tx_burst` frees the mbufs of any number of transmitted frames, then
  accepts any prefix of the burst for which there are descriptors) and
  `NicTransmit`. `Fail` is `exit` or `rte_exit`, for a thread that cannot be
  pinned.
* `TickProducer` is the producer thread the earlier publishers share (the text
  of `producer()` is the same in all); `MdpV2` adds the consumer, with its check of
  the numbers in `GapCheck`, and `main` of `mdp_v2.1.cpp` and `mdp_v2.2.cpp`, `MdpV3` the UDP publisher and `main` of
  `mdp_v3.cpp`, in which `send` may take the datagram, refuse it or fail for
  good.
* `ZRingV2` is the ring of v2.1: it loads the other thread's index on every call,
  and its `reset()` between operations is the `Clear` of `Fifo!ResettableSpec`.
* `FeedReceiver` is what the receivers share: the network (external: a frame may
  be lost, late, repeated or too short, by the constants `Reorders`, `Duplicates`
  and `ShortFrames`), the two ways of tracking numbers (`CountMissing` of
  `feed_handler_v2.cpp` and `udp_client_v2.cpp`, `CountBreaks` of
  `udp_client_v1.cpp`), the reporter and `main`. `seen`, `tracked` and `orderly`
  are history variables; no action reads them.
* `FeedHandlerV2` adds the DPDK receiver and its mbuf pool, `UdpClient` the socket
  and the signal handler in two steps (clear the flag, shut the socket down),
  `UdpClientV1` one `recv()` per tick, `UdpClientV2` `recvmmsg()`, which takes
  datagrams one by one and returns when its batch is full or the socket is shut.
  A slot of `ticks[]` that a short datagram has not filled is `Other`; tracking it
  means tracking whatever number is there (`ReceiverTrackStale`).
* `DataLemmas` holds the facts without a state that several proofs need: `%`, the
  distance of two counters that wrap, the slots behind them and the queue between
  them, and how many numbers a set can leave out. `ZRingProofs`, `ZRingV2Proofs`,
  `ZRingRAProofs`, `MarketDataPublisherProofs`, `FeedHandlerV2Proofs`, `MdpProofs`
  and `UdpProofs` hold the proofs. The last two speak of two programs each: they
  extend the module of one and have the other as an instance (`V2`, `V1`), with a
  few lemmas that say that what both programs share is the same under both names.

Operators whose comment starts with "Mutation" are faulty versions of the action
that follows them. No specification uses them; `PROJECT.json` says which property
notices which.

## 3. What the runs check

| run | module | instance | states | shows |
|---|---|---|---|---|
| `ring_safety` | ZRing | 2 slots, counters mod 8, 2 values | 126 736 | types; cached indices in their window; no slot race; `empty()` stable; refinement of `Fifo`; `push`, and `pop` and `empty`, return whatever the other thread does |
| `ring_v2` | ZRingV2 | 2 slots, counters mod 8, 2 values | 8 866 | no slot race; refinement of the `Fifo` that `reset()` empties |
| `ring_ra` | ZRingRA | 4 slots, counters mod 8, 11 ticks | 3 244 | no data race, ticks once and in order, whatever old indices are read; every tick gets through |
| `ring_reset` | ZRingReset | as `ring_safety` | | **violation**: `pop` delivers an old tick from an empty ring |
| `ring_size` | ZRingSize | as `ring_safety` | | **violation**: `size()` wraps |
| `publisher` | MarketDataPublisher | ring 2, burst 2, 3 descriptors, 5 mbufs, 6 ticks | 189 924 | order, mbufs, accounting, gaps, shutdown race, port; termination after a signal, also one during `dpdk::init`; no tick waits for ever |
| `mdp_v2` | MdpV2 | ring 2, 6 ticks | 1 835 | no gap is printed; termination |
| `mdp_v2_drain` | MdpV2 | the same | | **violation**: a full ring is left behind |
| `mdp_v3` | MdpV3 | ring 2, 7 ticks | 43 399 | order and exact count of datagrams; one tick stranded at most; termination, also after a `send` error |
| `feed_handler` | FeedHandlerV2 | loss, reordering, short frames; 4 arrivals, queue 2, burst 2, 4 mbufs | 248 961 | losses counted, exactly if in order; mbufs; termination; no tick waits for a full burst |
| `udp_v1` | UdpClientV1 | loss, reordering, duplicates, short and empty datagrams; 4 arrivals, queue 2 | 516 515 | holes counted, in order each once; nothing held after a failed set-up; termination after a signal, after an error and after an empty datagram |
| `udp_v2` | UdpClientV2 | loss, reordering, duplicates, short datagrams; 4 arrivals, queue 2, batch 2 | 668 416 | repeated and stale ticks hide at most one loss each; the batch the signal cuts short is tracked; termination |

Properties worth reading first:

* `ZRing!IsFifo`: the ring is a queue. It covers the stale caches, the wrap of
  the counters and the order of copy and publication.
* `MarketDataPublisher!TicksAccounted`: each pushed tick is in the ring, in the
  publisher's hands, or in exactly one of `sent_pkts` and `dropped_pkts`. It holds
  because of `PoolCoversBurst`: a pool with fewer mbufs than the TX queue and a
  burst would make `build_burst` fail, `run` would forget the popped ticks, and
  since `continue` then skips `tx_burst`, the only call that recovers mbufs, the
  pool would stay empty. The 8192 mbufs of `dpdk_port.cpp:31` are enough for 4096
  descriptors and bursts of 32; the commented assertion at `dpdk_port.cpp:37` asks
  for somewhat more than the code needs.
* `GapsAreCounted`: a receiver that sees only what left the NIC never misses more
  numbers than `dropped_pkts` has counted.
* `StrandedAtMostOne`: the price of reading `g_RUNNING` before `push`. The comment
  "drain remaining ticks after shutdown" of `mdp_v3.cpp:126` and the loop at
  `publisher.cpp:167` promise an empty ring; one tick, pushed after the publisher
  has left, may stay.
* `ZRingRA!NoSlotRace`: `knownReads` and `knownWrites` count the slot accesses of the
  other thread that happen before what a thread does next. The caches are harmless
  here for the reason they are fast: a thread acts on an index it has acquired, and
  what was known then stays known. A relaxed store breaks it at once.
* `BatchIsTracked`: `recvmmsg` blocks until it has 256 datagrams. What it holds when
  the signal comes is returned because the handler shuts the socket down, with a full
  batch (a socket that is shut delivers empty datagrams) or a short one. It says that
  everything fetched is tracked, stale slots included, not that it is tracked soon: on
  a slow feed a tick waits for the 255 after it.
* `StopEnds`: an empty datagram makes `recv()` return 0, which `udp_client_v1` takes for
  the end of the stream. No signal comes then, so that `Terminates` has nothing to say
  of it; the receiver itself has to clear the flag for the other threads to follow.
* `Terminates` of the UDP clients: a signal during the set-up calls `shutdown(-1)`,
  which fails, and the socket opened later is not shut. The client ends all the same,
  since the receiver tests the flag before its first call.
* `LossesAreCounted`, `RepeatsHideLosses`: `else ++expected` moves `expected` past
  a number that has not come yet when an old one arrives late. Without duplicates
  no loss escapes all the same, since the late tick itself had been counted as
  missing. A repeated tick had not: each can hide one loss, and so
  can a stale slot of `udp_client_v2`.
* `GapsAreExact`, `GapsAreHoles`: every receiver expects number 1 first, but
  `main.cpp` starts with 2 and `mdp_v3.cpp` with 0. The first tick is therefore
  counted as one missing number (one break) though nothing was lost. These two
  properties take the offset for granted and state the counter's exact value with it,
  so that they say there is no other error; that a gap means a loss would be false at
  the first tick. With number 0 first, `CountMissing` counts one loss too few instead.
* `HolesAreCounted`: `udp_client_v1` sets `expected` back for a late tick; it may
  count one reordering several times, but it misses no hole.

### Bounds

Two slots are enough for every position of the cached indices relative to the
real ones (0, 1 or 2 behind), for the ring to be empty, partly full and full, and
for a slot to be reused while the other is read. Counters modulo 8 wrap after four
rounds, so that each index and each cache is met on both sides of the wrap. In
`publisher` six ticks fill the ring, the burst and part of the TX queue, or the TX
queue, the burst and part of the ring; bursts are accepted in full, in part and not
at all, and the pool goes down to none free. `ring_ra` goes almost three times
round its four slots and past the wrap of the counters, with old and new indices on
both sides of it, and a refresh may read an index up to four stores old. Four
arrivals are enough for a late
tick, a repeated one and a loss after them, which is the shortest way to disturb the
tracking; a queue and a burst of two give full, partial and empty bursts.

Two constants bound counters that the code does not: `MaxSeq`, at which the
generator stops as if the market were quiet, and `MaxArrivals`, after which the
network falls silent; every other action goes on. The theorems hold for all values
of these constants.

### Fairness

Weak fairness of a thread stands for an operating system that keeps scheduling
it; each thread always has a step until it blocks in a `join`, in `recv()` or in
`recvmmsg()`. The UDP clients add fairness of the handler: once a signal has
interrupted a thread, its handler runs to the end. `CallsReturn` states the fairness
of the one thread it needs as a premise, so that it speaks of behaviours in which the
other thread stops for good anywhere. `ZRingRA` assumes that both threads retry and
that a thread which loads an index again and again does not read old values for ever:
strong fairness of the refresh that reads the latest store, which is what C++ asks of
an implementation ("in a reasonable amount of time"). Nothing is assumed of
the signal, the NIC (a frame may stay in the TX queue for ever, a link may be down),
`send` or the network (it may be silent, which is what makes termination of a
receiver in a blocking call worth checking).

### Deadlock

Deadlock is checked in every run. A process that has ended takes the step
`Exited`.

## 4. What is proved

TLAPS checks, for every value of the constants that satisfies the named
assumptions, each safety invariant that a run above finds to hold, and both
refinements.

`ZRingProofs` and `ZRingV2Proofs` (assumption `RingAssumption`)
* of ring v3 `TypeCorrect`, `CachesCorrect`, `NonEmptyCorrect`, `RaceFree`, the
  invariants of `ring_safety`, and `Refinement`: `Spec => IsFifo`;
* of ring v2.1 `RaceFree`, and `Refinement`: `Spec => IsResettableFifo`.

The inductive invariants are called `RingInv`. In ring v3 `CachesInWindow` alone is
not inductive: one has to know that a producer past its test still has
`Dist(head, cached_tail) < Capacity` when it stores `head_`, and a consumer past its
test `cached_head # tail` when it stores `tail_` (`ProducerInv`, `ConsumerInv`). These
survive the other thread's steps because a thread's tests use its own copy of the
other's index, and the real index only moves away from it. Ring v2.1 has no copies:
there a thread knows of the other index what it has loaded in this call, and
`reset()`, which comes between calls, finds nobody who knows anything. `RaceFree`
follows: two indices less than `Capacity` apart have different slots (`SlotsApart`),
which rests on `Capacity` dividing `CounterMod`, as a power of two does. The
refinement proofs show that the queue changes only at the two stores (and the reset):
the copy into a slot does not touch the window (`WriteKeepsContents`), the store of
`head_` appends (`SuccAppends`), the store of `tail_` removes the head
(`SuccTakesHead`). These lemmas are about a buffer and two counters, whatever the
ring, and serve all three ring modules.

`MarketDataPublisherProofs` (assumptions `SizeAssumption` and `PoolAssumption`)
* `TypeCorrect`, `NoMbufLeak`, `PoolNeverDry`, `NoTickVanishes`, `PortStaysUp`,
  `OneTickStranded`, `TicksInOrder`, `LossesAreReported`.

The inductive invariant is `IInv`. Conservation of mbufs needs to know that the
publisher's locals are in use only in their phase of the round (`BurstPhases`);
the accounting of ticks needs that the pool covers a burst, which follows from
conservation and `PoolAssumption` since the publisher holds no mbuf when it builds
(`PoolHasBurst`); the bound on stranded ticks needs that a publisher that has left
has seen the flag cleared, so that the producer cannot start another tick
(`Draining`). Order on the path needs more than that each queue is increasing: it
needs to know the number of every tick from the counters alone. A tick that has been
given up is counted in `dropped_pkts`, so that the `k`-th tick still on its way has
the number `sent_pkts + dropped_pkts + 1 + k`, corrected between a step and its
count (`Numbering`), and a tick sent has at most the number that the drops so far
allow (`SentIncreasing`). `PathInOrder` and `GapsAreCounted` follow.

`ZRingRAProofs` (assumption `RingAssumption` of `ZRingRA`)
* `DataRaceFree`, `InOrderOnWeakMemory`.

The invariant says what each thread knows: the `n`-th store tells of `n` accesses
(`StoresTell`); a cached index is an old one, and the accesses before it are known
(`ProducerView`, `ConsumerView`); the slots between the real indices hold the ticks
of their numbers (`SlotsHold`). An old index is at most the capacity away from the
thread's own, which is less than `CounterMod`: so the indices tell the true difference
(`ProducerReads`, `ConsumerReads`, from `ModDifference`), and since `Capacity` divides
`CounterMod` the wrap does not show in the slots (`SlotReduced`).

`FeedHandlerV2Proofs` (assumptions `ReceiverAssumption`, `RxPoolAssumption`)
* `TypeCorrect`, `NoRxMbufLeak`, `RxPoolNeverDry`;
* `LossesBounded`, which is `RepeatsHideLosses` for every stream and every network;
* `NoLossEscapes`: `LossesAreCounted` if nothing is duplicated and the stream does
  not start with 0; `GapsExact`: `GapsAreExact` if it does not start with 0.

The inductive invariant is again called `IInv`. Its core is `Balance`:
`expected = 1 + gaps + tracked`, and every tracked number is below `expected`
(`TrackingKeepsBalance`). The tracked and the missing numbers are disjoint subsets
of `FirstSeq .. expected - 1`, so that together they are at most
`expected - FirstSeq` many; with `tracked = Cardinality(seen) + Repeats` this is the
bound (`LeftOut`, `BalanceBoundsLosses`). That a frame in the burst is one that arrived
(`InArrived`) makes it a number of the stream; `MbufsConserved` with
`RxPoolAssumption` leaves an mbuf in the pool whenever the queue has room. That no
number is tracked twice (`NoRepeat`) is inductive only with the frames on their way:
a frame in the queue or the burst is new, and different from the others there
(`FreshInFlight`).

`UdpProofs` (assumptions `ReceiverAssumption`, `BatchAssumption`)
* of `udp_client_v2` `BatchTracked`; `V2LossesBounded`, which is `RepeatsHideLosses`
  for every stream and network, short datagrams included; `V2Releases`;
* of `udp_client_v1` `V1HolesCounted`, `V1GapsExact`, `V1Releases`.

The invariants are `UdpClientV2!IInv` and `UdpClientV1!IInv`. What `main()` holds
depends on where it is (`SetupHolds`), and the threads cannot disturb it, since they do
not exist during the set-up (`Started`); steps of `main()`, the reporter, the handler
and the network are dealt with once for both clients (`ControlKeeps`,
`DatagramKeeps`). `BatchIsTracked` needs to know where the batch is in use and that
`received` has counted it when its tracking starts (`BatchCounted`): the receiver can
finish only from `loop` or `stop`, where the batch is empty, and `main()` can end well
only after the receiver has finished. The sum in `Balance` is kept by any number at
all, which is why a stale slot costs no more than a repeated tick
(`CountingKeepsSum`).

For `udp_client_v1` the counter is compared with the numbers tracked whose predecessor
is not (`Breaks`). `expected` is one beyond the number tracked last (`LastTracked`), so
that an expected number has its predecessor in `seen` and adds no break, and another
one adds itself at most. As long as the ticks come in order it does add itself and
fills no earlier hole (`TrackingChangesBreaks`), which makes the counter exact.

`MdpProofs` (assumption `ProducerAssumption`)
* `NoTickSkipped` of `mdp_v2.1` and `mdp_v2.2`, for a stream that starts with 1;
* `DatagramsInOrder`, `OneTickStranded` and `V3Releases` of `mdp_v3`.

The first three rest on `Numbered`: the producer pushes the numbers without a gap, so
that those in the ring follow from the counters. A producer's step keeps it and takes
nothing out (`ProducerNumbers`), a pop gives exactly the next number (`PopNumbers`).
`OneTickStranded` adds what a publisher knows when it leaves (`Draining`) and what a
producer can still do then (`LastTickStep`). `V3Releases` uses `SetupHolds` again, with
`Born` in the place of `Started`.

Only model-checked: liveness (`Terminates`, `StopEnds`, `CallsReturn`,
`TicksLeaveRing`, `TicksAreTracked`, `TicksGetThrough`), which needs fairness and
`ENABLED` and is out of the prover's reach; and the three violations, which are
counterexamples.

## 5. Not modelled

* `mdp_v4_dpdk.cpp` assigns a `Tick` to an `rte_mbuf*` and `feed_handler.cpp` uses
  `cfg::PKT_SIZE` where it is not declared: neither compiles, so there is no program
  to model. The receive loop and the tracking of the latter are those of
  `feed_handler_v2.cpp` and `udp_client_v1.cpp`. `mdp_v1.cpp` prints one tick per
  second.
* `get_tail` and `advance_tail` have no caller. `get_tail` does not compile when it is
  used, and `advance_tail` states no condition under which it may be called.
* Memory order outside the ring: the processes use the ring as the atomic queue that
  `ZRing` implements, and a thread reads the flag as it is. A stale read of the flag
  only delays what follows. `empty()` may on weak memory answer for an earlier moment,
  so that `StrandedAtMostOne` speaks of machines on which a push is visible to the
  publisher before a later signal is.
* Prices, time stamps, packet headers (`build_pkt` has no caller), statistics output:
  no control depends on them. The link state is only printed.
* Frames still in the TX queue when the port is stopped: what happens to them is
  the driver's business; the model leaves them in `txq`.
* A long frame of another protocol: the port of the feed handler is promiscuous and
  the code tests no protocol field, so it would take any number from such a frame,
  and nothing in the repository says what should happen then.
* A number near 2^64 in an uninitialized slot of `udp_client_v2`: `expected` would wrap
  and the counter mean nothing from then on. Every smaller number is modelled
  (`ReceiverTrackStale`; the theorem holds for every `MaxSeq`). No control depends on
  the number, so that `Terminates` and `BatchIsTracked` are not affected.
* A thread that cannot be created: the exception is not caught, so that the process
  ends in `std::terminate`, which is also what a failed `pin_thread` calls as the
  thread's first step and what the models have there.
* `EINTR`: `signal()` of glibc restarts interrupted calls.
* `empty()` and `size()` of ring v2.1 are the text of ring v3, modelled there.
* The host scripts (huge pages, driver binding, addresses of one machine).
* A composition of publisher and receiver: they share only the network, which loses,
  delays and repeats what it likes, and each is checked against any such network;
  `GapsAreCounted` says what a receiver can conclude about the publisher.

## 6. Left to do

* That the ring in `TickProducer` and `MarketDataPublisher` takes the steps of `Fifo`
  is stated in the comments of these modules, not as a theorem: it needs a history of
  what the last `push` and `pop` returned.
