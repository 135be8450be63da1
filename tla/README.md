# A verification of the user-space echo stack

TLA+ models of the DPDK echo servers and packet generators of this repository,
TLC configurations that check them on small instances, and TLAPS proofs, for
instances of every size, of every safety property that the runs check and the
code keeps: of both server loops and their refinement of one abstract echo
service, of the clients, of client and server together, of the start-up, of the
checksum arithmetic, and of the profile with the rounds that the analysis makes.
`PROJECT.json` lists the runs, the mutants (a plausible bug for each property
that the property must catch), the source lines of every definition, the
hazards and the findings.

To run: `tlc -config EchoWorker.cfg MCEchoWorker` for a run of the tables
below, `tlapm EchoWorkerProofs.tla` for the proofs of a module.

## 1. The system

Two machines exchange Ethernet/IPv4/UDP packets.  An **echo server** runs one
worker per lcore; each polls the RX ring of its own queue, exchanges the
endpoints of what it gets, fixes the checksums, and sends it back on the TX ring
of the same queue.  A **packet generator** sends requests and counts, or times,
what comes back.

| component | source (`src/app/`) | state | operations |
|---|---|---|---|
| unbuffered server loop | `echo_server.c`, `echo_server_checksum_exp.c` (`run_server_worker`) | `rx_bufs`, `stats` per worker; mbuf pool shared | poll, parse, rewrite, checksum, TX burst and freeing, report |
| buffered server loop | `echo_server_checksum_txbuf_exp.c`, `..._txbuf_prefetch_exp.c` | the same, `tx_buffer`, `tx_buffer_drops` | the same, store or send the buffer, flush |
| checksum stage | the four servers; `craft_packet` in `dpdk.h` | checksum fields and `ol_flags` of a packet | software, offload, preserve, none |
| start-up | `parse_echo_args`, `port_init*`, `main` of the servers; the same, `run_client`, `run_fast_client`, `prepare_templates` of the clients | arguments, port, lcores, launched workers, templates | parse, configure, set up, start, launch, fail |
| client arguments | `parse_echo_args`, `parse_fast_client_args`, `flow_src_port` | `num_flows`, `num_queues`, flow ids | parse, number the flows |
| latency test | `client_latency_test` | `snd_times`, `rcv_times`, counters | send, wait, compare, free |
| single-worker throughput test | `client_throughput_test` | `reqs`, `next_flow` | burst, send, receive |
| multi-worker throughput test | `run_client_multiworker`, `client_throughput_worker` | worker contexts, shared tx pool | launch, barrier, round, join, total |
| fast client | `packet_gen_client_fast.c` | the same, templates | bulk allocation, bursts, `drain_rx` |
| profile output | `print_profile`, the stage timers of the loops | packet and cycle counters, `last_report` | time, print, clear |
| analysis | `src/analysis/*.py` | logs | group lines into rounds, choose, plot |

**Interaction.**  The workers of a program share the mbuf pools and the port's
configuration and nothing else; there are no locks.  RSS decides the queue, and
so the worker, of each packet.  main launches the others with
`rte_eal_remote_launch` and then becomes a worker itself; the clients wait for
the others and read their counters, the servers never return.  Client and server
meet only on the wire, which may lose packets.

**What is hard.**  Who owns an mbuf when the NIC takes part of a batch; packets
that stay in the TX buffer for many iterations; a counter (`tx_buffer_drops`)
read in two places; the timer read twice in one iteration; reports in the middle
of traffic; workers that run while main is still launching others; lost echoes,
refused sends, packets from elsewhere, and a client that looks at one packet of
a burst; allocation that fails under pressure; the two zeros of one's-complement
arithmetic; late echoes of one test that the next one counts; timers that nest;
lines of several workers in one log.  The hazards in `PROJECT.json` give the line of each and the
properties that cover it.

**What makes each component correct.**

- Servers: replies are the requests with endpoints exchanged, in order within a
  queue, none twice, and every packet is answered or counted as dropped; no mbuf
  is leaked or has two owners; the printed counters add up; checksums are right.
- Start-up: a program that runs has a worker for every queue RSS may fill, no
  worker starts before its queue (and, in the fast client, its packets) exists,
  and the ports used are the ones asked for.
- Latency test: a sample pairs a request with its own echo; the test ends.
- Throughput tests: pool mbufs are conserved, no reply is invented, totals are
  final, the tests end.
- Profile: no time is counted twice, none outside the loop, and what is averaged
  together is over the same packets and the same second.

## 2. The modules

```
EchoService          the promise: answer the oldest first, once, or drop and count
EthPort              pool, rings, packets, NIC
  EchoStages         the stages all server loops share
    EchoWorker       unbuffered servers       => EchoService
    TxBufWorker      buffered servers         => EchoService
PacketChecksum       arithmetic behind the abstract checksum states of EthPort
LatencyClient        latency test
  SingleClient       run_client with one worker: latency test, then throughput test
EchoSystem           SingleClient + EchoService + wires
ClientWorkers        main and the steps common to throughput workers
  PlainClient        worker of packet_gen_client.c
  FastClient         worker of packet_gen_client_fast.c
Startup              port initialisation, lcores, launching
  ServerStart        arguments and main of the servers
  ClientStart        arguments, run_client, run_fast_client; flows and ports
    Start            any of the programs
LoopProfile          stage timers, loop timer, report interval, print_profile
ProfileLog           the log of all workers, collect_rounds of the analysis
MC*                  instances for TLC

OwnershipLemmas      sequences of mbufs, counters
DataLemmas           images of sequences, induction, sums over the workers
EchoServiceProofs    what EchoService amounts to
EchoWorkerProofs     unbuffered servers: mbufs, counters, checksums, EchoService
TxBufWorkerProofs    buffered servers: the same
EchoSystemProofs     client and server together, on EchoServiceProofs
ClientProofs         throughput workers of both packet generators
StandaloneProofs     Start, LoopProfile, PacketChecksum, ProfileLog
```

**EthPort.**  An mbuf is an identity and `pkt[m]` what it carries, so whether two
holders could reach the same mbuf is something the models can get wrong.  A
packet is its endpoints (MAC, IP and port taken together: the code always
exchanges the three together), an id that only the properties use, and the state
of its checksums.  `RxBursts` and `TxBursts` are what `rte_eth_rx_burst` and
`rte_eth_tx_burst` may return: any prefix that fits.  That includes taking less
than there is room for, which drivers do.  DPDK is not part of the repository;
these definitions are marked external in the map.  `tx_ring` plus `wire` say what
the NIC was given; the NIC gives an mbuf back when it has sent it.  (Drivers do
so lazily, at a later call on the same queue; the pool of the program is larger
than what this keeps away from it.)

**EchoStages.**  One action per stage of the loop, over the whole batch, as in
the code.  `checksum_mode` is chosen in Init.  `stats` has the three packet
counters; `printed`, a history variable, is the sum of the lines printed so far.
Time is not modelled: whether a report is due is a free choice at every reading
of the timer, except that in one iteration what was due at the first reading is
due at the second.

**EchoWorker** adds the TX stage of the unbuffered loop.  **TxBufWorker** has
the buffer with its counting callback, `flush_tx_buffer`, one step for each
`rte_eth_tx_buffer` of the batch so that NIC and other workers get between them,
the locals `nb_tx` and `drops_before`, the flush of an empty poll, and the two
readings of the timer at the end (`TxEnd`, then `FlushBeforeReport` and
`DueReport`, or `LoopEnd` with a report that became due in between).

**EchoService** is the abstract specification: an `Answer` removes the n oldest
packets of a queue, sends echoes of the first k and counts the others as
dropped.  Both servers implement it under one mapping: what is in the RX ring,
in `rx_bufs` and in the buffer is pending (rewritten packets are mapped back to
requests), what is in the TX ring or on the wire is replied, and `dropped` is
what the code has counted.  An answer is thus given when the NIC accepts the
packet, and that replies follow the *order* of requests is checked through the
buffer as well.

**PacketChecksum** follows one packet through rewrite, checksum stage and NIC
with real arithmetic: one's-complement sums with two folds, `~`, the 0 to 0xffff
rule, pseudo header, and the receiver's test.  Words hold `M` values; the parts
of a packet no stage touches enter by the sum of their words.  It justifies the
abstraction in EchoStages: rewriting does not disturb a good checksum
(`PreserveKeepsVerdict`), and the other modes make a good one.

**Startup, ServerStart, ClientStart, Start.**  `port_init` and the loop that
launches one worker per queue are the same in all six programs and are in Startup;
`port_init_checksum_exp` adds the offloads, which the clients ask none of.
ServerStart starts with any command line of up to three words and takes the
steps of `parse_echo_args` and `main`.  ClientStart checks its arguments in one
step, since nothing happens before the last check but the setting of globals a
failing program does not use; the two parsers differ in `ReadsFlows`.  After the
port, the order of what may fail differs (the servers allocate contexts before
they count the lcores, the clients after; the fast client then prepares
templates; the plain client with one worker launches nothing), so these steps
are parameterised by where main stands.  `PortFails`, `LaunchFails`,
`AllocateContexts`, `TxBufferFails` are the calls that may fail; `rte_exit`
stops all workers.

**LatencyClient** keeps, instead of times, the request a time belongs to, so that
"the latency is that of one round trip" can be said.  The tests of the two loops
are steps of their own, because the time may run out between a test and the
body.  A crafted request takes its port from the *sample* it is sent for
(`correct_echos`), not from a request number, and so does the model.  The module
has a simple network of its own, which only the run LatencyComment uses.

**SingleClient** adds `client_throughput_test`, which starts where the latency
test has ended: same queue, same rings, same pools, less what was lost.

**EchoSystem** replaces the network by two wires and a server of which only
EchoService is known.  Since both server loops are shown to implement
EchoService, what holds here holds with either of them.  `rx_ring` of the client
and `replied` of the server are tied by the id of a request (`entered`).  The
replies of different queues overtake each other, which a client with several
flows sees as reordering.  A request lost on its way is one that a server
dropped, so that wire has no loss of its own.  (What this composition showed: with
one FIFO for the whole network an echo would count only for its own sample. With
a server of several queues that is false: the late echo of sample k can be taken
for sample k + num_flows.  `EchoesInFlowOrder` is what remains true.)

**LoopProfile** has the clock.  Every reading of `rte_get_timer_cycles` is a step
that lets any time pass up to a bound; `nb_rx` and `parked` are all it keeps of
the packets.  One module serves both kinds of loop (`buffered`).  **ProfileLog**
has one clock for all workers, each with its own `last_report`; a line is formed
and reaches the log later (`printing`), or is unreadable and `parse_profile_line`
returns nothing.  `collect_rounds` is the fold of `Add`, its loop body; `Close`
is the pair of lines that keeps a complete round and begins the next, which the
body has on both of its branches.  LoopProfile, PacketChecksum and ProfileLog have
names of their own for `Init`, `Next` and `TypeOK` (`LoopNext`, `PathNext`,
`LogNext`), so that StandaloneProofs can extend all of them.

**ClientWorkers, PlainClient, FastClient** count packets instead of naming them,
as the programs do.  `NextBurst` and `DrainRx` have the control of the fast
worker's inner loop: a failed allocation polls and goes on with the next burst,
and `drain_rx` is called from three places.

## 3. The runs

| run | instance | shows |
|---|---|---|
| EchoSystem | 2 flows on 2 queues, 4 pings and a burst of 2, 2 TX and 3 RX mbufs, 2 packets from elsewhere | InOrder and Conserved follow from the abstract specification, hence hold for both servers; samples match, one request out, mbufs kept, echoes in flow order, late echoes counted once, both tests end |
| EchoWorker | 2 queues with 2 and 1 flows, 2 mbufs, rings of 2, bursts of 2, 3 requests, all modes | ownership, counters, reports, checksums on the wire; implements `EchoService!FairSpec`; mbufs return |
| TxBuf | 2 queues, 3 mbufs, buffer of 2, 3 requests, offload | ownership and counters with parking; gap of the reports; implements `EchoService!FairSpec`; nothing is parked for ever |
| PacketChecksum | 3-bit words, parts up to 14 | four modes on edge values; computed checksums verify (`ComputedIsValid`), offload, software and preserve agree to the bit (`ModesAgree`), an edit keeps the verdict (`PreserveKeepsVerdict`) |
| Start | server and both clients, up to 3 workers, 3 lcores, ranges scaled down with their edges | every queue served (`EveryQueueServed`), port and templates ready (`WorkersFindPortReady`), every flow sent (`EveryFlowSent`), runs or exits (`RunsOrExits`) |
| ClientArgsPlain | plain client | `FlowsHonoured` is **violated**: see findings |
| LatencyComment | latency test alone | `RxAgainAfterNoMatch` is **violated**: see findings |
| PlainClient | 2 workers, burst 2, TX ring 1, 3 mbufs, 2 rounds | conservation, sums, final totals, ends |
| FastClient | 2 workers, 2 bursts per round, 3 mbufs, 1 round | conservation, bursts accounted (`BurstsAccounted`), ends |
| LoopProfile | both loops, bursts and buffer of 2, intervals of 3 | stages within the loop, console outside it |
| ProfileComment | the same | `AmortizedOverReceived` is **violated**: see findings |
| ProfileLog | 3 queues, intervals of 2 to 3, 6 ticks, a lost line per queue | rounds are complete and disjoint (`RoundsArePartition`), miss no line but where a queue comes twice or the log ends (`LinesAreCounted`), near in time (`RoundsNear`) |

**Why these bounds are enough to be interesting.**  In all server runs the pool
is smaller than what the rings could take, so it runs out and mbufs are used
again; bursts of two out of rings of two give full, partial and empty polls; a TX
ring of two gives full, partial and refused sends.  Two queues are what it takes
for one worker to touch another's mbuf; two flows on one queue are what it takes
for an order to go wrong between clients.  With a buffer of two, a batch of one
followed by a batch of two gives a fill that spans batches and splits the second
one.  EchoWorker can be small because what it checks of safety is also proved.
TxBuf has the mode in which a checksum is unfinished while a packet is
parked.  In EchoSystem two flows on two queues let an old echo overtake a
younger one, four pings go round the flows twice, and two packets from elsewhere
are as many as there are TX mbufs, so that the client can run out of them
(`CraftNull`) and lose the rest of a burst; a burst of two is as long as what can
then be waiting.  In PacketChecksum `M` = 8 keeps the structure of 2^16 (a word
of all ones, two zeros), and the parts reach two words (14 = 2 * 7), so that sums
carry twice and hit multiples of `M` - 1.  The argument ranges of Start are
scaled (ports up to 31, from 16) with the values on both sides of every bound.
In LoopProfile an interval ends before, between and after the two readings of
the timer, and several intervals fit; in ProfileLog the clocks of the workers
drift by more than an interval.  `MaxRequests`, `MaxPings`, `MaxBulk`,
`MaxForeign`, `MaxRounds`, `MaxStep`, `MaxTime`, `MaxClock`, `MaxLost` only bound how often
something happens or how long it takes; the guards that use them name them.

**Symmetry** is not used.

**Deadlock** is off except in TxBuf, whose empty polls go on for ever: elsewhere
the packets, or the time, are bounded, so the systems really come to a rest, and
the clients and the start-up end.

**Fairness.**  Workers and main have lcores of their own and no call they make
blocks, so each step of a worker is weakly fair; so is the NIC sending what it
has, and the passing of time.  In the unbuffered server only iterations with
packets need fairness (`Serve`); in the buffered one empty polls too, since they
flush.  Arrival of packets, loss, and failures are never fair.  `MbufsReturn`
and the refinement of the fair service therefore hold even if traffic stops at
any moment.  What `MbufsReturn`, and `Ends` of the throughput workers, say of mbufs
that come back rests on the abstraction of EthPort that the NIC returns an mbuf
when it has sent the packet.  A driver that frees lazily, at a later call on the
same queue, keeps up to a ring of them from the pool when traffic stops; then
these two properties speak of the mbufs that the program itself has let go.  In `Ends` of the fast client nothing forces echoes to come; a drain
that never ends needs echoes without end, which the bound on rounds excludes
(in the program: the requests of the *other* workers end at the same deadline).

In EchoSystem the client, the server and the two time limits are fair and the
wires are not, so that both tests end even if nothing ever comes back.

**Assumptions behind some properties.**  `SamplesMatch` and `MbufsKept` are
claimed while nobody else has sent to the client's port; each packet from
elsewhere makes the client send once more, which `OneOutstanding`,
`LateEchoesOnly` and `Terminates` count: as many as there are mbufs use up the
pool, after which `craft_packet` writes through a null pointer (`CraftNull`).
`CompletedWereSent` is claimed while nobody else sends to the client's ports:
`ctx->reqs += nb_rx` counts any packet, and the environment of ClientWorkers
brings back echoes only.  (What stray packets do to the single-worker test is in
`LateEchoesOnly`.)  It and `TotalsAreFinal` are about sums: a single worker may
complete more than it sent, because RSS does not bring echoes back to the queue
that sent.  LoopProfile takes the clock not to go back, as the TSC does not on
one core, and its RX stage to take a tick at least, which is a bound of the model
like `MaxTime`: polls that take no time could count packets without end.
Every other reading of the clock may find it unchanged.  `RoundsNear` is relative to how long an iteration and a `printf` take
(`Iteration`, `Printing`, the latter shorter than an interval) and to how many
lines cannot be read.

## 4. Findings

1. *`packet_gen_client.c:408`* reads NUM_FLOWS only when it is the last argument.
   With NUM_WORKERS behind it the client silently uses 128 flows, against
   `README.md:29` and `README.md:54`.  `packet_gen_client_fast.c:342` has the
   right test.  (Run ClientArgsPlain.)
2. *`packet_gen_client.c:106`* leaves the waiting loop after a packet that does
   not match, where the comment at line 103 says "free it and rx again".  The
   client sends again, overwrites the send time of the pending sample, runs one
   request behind from then on, and loses the other mbufs of the burst.  (Run
   LatencyComment.)
3. *`echo_server_checksum_txbuf_exp.c:225`* (and the same line of the other
   servers) divides the TX cycles by the packets *sent*, all other stages by the
   packets *received*, where the comment at line 148 says that "cycles/pkt
   amortizes everything over received packets".  The analysis adds the stages up
   and weights all of them by `rx_pkts`.  With drops the bars are off by the
   drop rate of the TX stage.  (Run ProfileComment.)

## 5. The proofs

Every theorem holds for all values of the constants that satisfy the named
assumptions of the modules:

| assumption | what it asks |
|---|---|
| `PortAssumption`, `ServiceAssumption` | RSS maps the traffic into the queues; rings with a descriptor at least |
| `WorkerAssumption`, `TxBufferAssumption` | bursts and a buffer of one packet at least; known modes |
| `ClientAssumption` (ClientWorkers), `FastAssumption` | a worker at least, bursts and rings not of size zero; any pool |
| `SystemAssumption` | the traffic is what the client's flows send; finitely many queues; a flow, a TX mbuf; `MaxRequests` does not cut off what the client may send |
| `StartupAssumption`, `ClientAssumption` (ClientStart) | finitely many lcores; the default flow count fits behind `client_port`, as 128 from 50000 on do |
| `ProfileAssumption` | an interval and a step of the clock above zero |
| `ChecksumAssumption` | words of two values at least; the sum of a packet fits into the square of a word, as that of 1518 bytes does into 32 bits |
| `LogAssumption` | a queue at least, numbered from 0; a line is written within an interval |

| module | theorem | statement |
|---|---|---|
| EchoWorkerProofs | `Typing`, `Ownership` | `Spec => []TypeOK`, `[]MbufOwnership` |
| | `CountersAddUp`, `ReportsAddUp` | `Spec => []CountersBalance`, `[]ReportsBalance` |
| | `ChecksumsOnTheWire` | `Spec => []WireChecksums` |
| | `ImplementsService` | `Spec => Service!Spec` |
| | `ServerAnswersInOrder`, `ServerLosesNothing` | `Spec => []Promise!InOrder`, `[]Promise!Conserved` |
| TxBufWorkerProofs | `Typing`, `Ownership` | `Spec => []TypeOK`, `[]MbufOwnership` |
| | `CountersAddUp`, `ReportsLagLittle` | `Spec => []CountersBalance`, `[]ReportGap` |
| | `ChecksumsOnTheWire` | `Spec => []WireChecksums` |
| | `ImplementsService` | `Spec => Service!Spec` |
| | `BufferedAnswersInOrder`, `BufferedLosesNothing` | `Spec => []Promise!InOrder`, `[]Promise!Conserved` |
| EchoServiceProofs | `AnswersInOrder`, `NothingDisappears` | `Spec => []InOrder`, `[]Conserved` |
| EchoSystemProofs | `ServiceKept` | `SystemSpec => Spec` (of EchoService) |
| | `SystemAnswersInOrder`, `SystemNothingDisappears` | `SystemSpec => []InOrder`, `[]Conserved` |
| | `OneRequestOut`, `CountedIsOwnOrLate`, `ClientMbufsKept` | `SystemSpec => []OneOutstanding`, `[]LateEchoesOnly`, `[]MbufsKept` |
| | `SamplesAreOwn`, `FlowsInOrder` | `SystemSpec => []SamplesMatch`, `[]EchoesInFlowOrder` |
| ClientProofs | `PlainMbufsConserved`, `FastMbufsConserved` | `[]TxMbufsConserved` of both programs |
| | `PlainCompletedWereSent`, `PlainTotalsAreFinal` | `Plain!Spec => []CompletedWereSent`, `[]TotalsAreFinal` |
| | `FastBurstsAccounted` | `Spec => []BurstsAccounted` |
| StandaloneProofs | `StartTyping` | `Spec => []TypeOK` of Start |
| | `QueuesAreServed`, `PortPrecedesWorkers` | `Spec => []EveryQueueServed`, `[]WorkersFindPortReady` |
| | `MappingSucceeds`, `FlowsAreSent` | `Spec => [](status # "only mapped")`, `[]EveryFlowSent` |
| | `StagesFit`, `LoopFits` | `LoopSpec => []StagesWithinLoop`, `[]BusyWithoutConsole` |
| | `ChecksumsAreValid`, `ModesSendTheSame`, `PreserveIsNeutral` | `PathSpec => []ComputedIsValid`, `[]ModesAgree`, `[]PreserveKeepsVerdict` |
| | `RoundsPartition`, `LinesCounted` | `LogSpec => []RoundsArePartition`, `[]LinesAreCounted` |
| | `RoundsAreNear` | `LogSpec => []RoundsNear` |

**The invariant of a server.**  `TypeOK` alone is not inductive: rewriting a
batch keeps `pkt` typed only if every mbuf in `rx_bufs` carries a packet.  That
holds because they are not free (`HeldCarry`: every mbuf outside the pool
carries one), and keeping *this* needs ownership: freeing one worker's mbuf must
not empty one that another worker holds.  Ownership in turn needs to know that a
poll does not overwrite a batch (`NoBatch`: `rx_bufs` is empty from the sending
to the poll).  So `Inv == TypeOK /\ MbufOwnership /\ HeldCarry /\ NoBatch` is
proved as one, with a lemma for each action.  The buffered server adds
`BufferInv`: `drops_before` does not exceed the callback's counter while a TX
stage is under way, without which a difference of the two need not be a natural
number, and the buffer is never full between two steps.

**Ownership** is stated on one sequence per queue, `tx_ring \o rx_bufs \o
rx_ring`, through which mbufs move from right to left.  An arrival appends to
it, a transmission removes its head, a partial send takes a piece from the
middle, and all other steps only move the boundaries.  `OwnershipLemmas` has a
lemma for each of these (`EnterRight`, `LeaveLeft`, `LeaveMiddle`) and one that
lifts a change of one queue to all (`OneWorkerMoves`).  With the buffer the
sequence has four parts; they are grouped into three, in two ways (`Regroup`),
so that the same lemmas serve: what the NIC and a poll do is seen with the
buffer on the left, what a send does with the buffer in the middle.  A send of
the buffer together with the packet that fills it, and a flush, are one lemma
(`SendMoves`), in which `bufs` is what goes and `rest` what stays in the batch.

**The counters.**  For the unbuffered server `CountInv` adds to `Inv` the
balances of each worker and that `printed` is balanced by itself; the latter is
inductive only together with `NoBatch`, since a report is made when the batch is
empty.  For the buffered one, `Books` says the same of the sums with the stage
under way: what the locals of a TX stage have seen counts as sent and dropped
although `stats` does not have it yet.  `BooksMove` is the arithmetic of a step,
once for all actions.  `ReportGap` follows at a report from the balance and from
the buffer not being full; it is kept by the steps between two reports, which do
not touch `printed`.

**The refinement.**  A *view* is what the service sees of an mbuf: `Seen` of one
that waits in a ring, `Flipped`, its endpoints exchanged back, of one that has
been rewritten, `Asked(q)` whichever of the two applies to the batch of worker q.
`Pending(q)` and `Replied(q)` are images of sequences of mbufs under views
(`MapByViews`), so that a step that moves an mbuf from one sequence to the next
is an equation between concatenations, and a step that edits a batch has to show
that the view undoes the edit.  `OthersLookTheSame` is where ownership comes in:
what one worker or the NIC writes does not show in another queue.  The store of a
packet in the TX buffer is then a stutter (a parked packet keeps its place), and
a burst, a full buffer or a flush is one `Answer`; the flush of an empty buffer
is a stutter.  The unbuffered map needs one fact more, `BatchHasPackets`, since
an `Answer` takes at least one packet.

**The promise.**  `InOrder` is not inductive: an answer is in order because what
waits is, and because what waits is younger than what has been answered
(`Waiting`, `Answered`).  `Conserved` counts the requests of a queue
(`OneMoreEntered`).  The refinement carries both to the servers: the theorems
`Server...` and `Buffered...` are about the program's own variables, as
`Promise == INSTANCE EchoServiceProofs WITH ...` maps them.

**Checksums on the wire.**  What a packet's `cksum` is depends on the mode and on
the stage of the worker that holds it (`ChecksumsOf`): good in the RX ring, then
what the checksum stage leaves, up to the TX ring.  The invariant `CksumInv` needs
ownership for the same reason as the refinement: a stage writes to the mbufs of
its batch, and the packets of all other places must not change.  In the buffered
server a packet waits in the buffer with its checksum finished while the same
worker is in the earlier stages of its next batch, so the buffer has a conjunct of
its own.

**Client and server together.**  Every step of the composition is a step of
EchoService or leaves its variables alone (`ServiceKept`), so that its theorems
are inherited, and through the refinement the place of the server can be taken
by either loop.  `Budget` is one count for three properties: what is on its way,
lost, or counted by the throughput test was sent by that test, came from
elsewhere, or is the one request of the latency test; that it is inductive needs
no more than the types, and with nobody else sending (`Kept`) it says that a
poll never returns two packets.  `OnlyCurrent` says that in this case everything
on its way is the request of the current round, from which `SamplesMatch`
follows.  For `EchoesInFlowOrder` the requests are numbered in the order they go
out and enter the server (`Numbered`), `InOrder` of the service and the mapping of
a flow to one queue carry that order through the server (two packets of a flow
that are back have been answered in order), and `RingOrder` and `SampleOrder`
carry it through the RX ring to the samples.

**The throughput workers.**  `TxMbufsConserved` is about sums over all workers,
which is why DataLemmas has to say what `SumFunction` does when one value
changes.  `ClientInv` adds that only a worker about to send has mbufs in its hands
(`EmptyHands`), and what main has waited for (`MainWaited`: the workers below
`joined` are done, and a worker that is done counts nothing any more), from which
`TotalsAreFinal` follows.  Both programs share the lemmas of the steps they
share; for the fast one `BurstsOf` says in which way each tried burst has been
accounted for at each place of the loop over the bursts.

**The start-up.**  For each place of main the invariant says what it has made of
the port (both kinds of queue, in their order), which workers run on which lcores
(`Launched`, `Served`), and what is prepared.  That main never runs out of lcores
is a count: the lcores passed by the loop are those of the launched workers,
main's and no others, the workers have lcores of their own, so with one lcore per
queue and a queue left there is an lcore left (`MappingSucceeds`,
`QueuesAreServed`).  `FlowsAreSent` rests on division: a remainder r of a flow is
reached by the worker r % Q in its round r \div Q, and no worker reaches one of
another flow.

**The profile.**  `Accounted` says, between iterations, that the stages fit in the
loop and the loop, with the printing, in the interval, and within an iteration
that what the stages have counted of it fits between `loop_start` and `now`.

**The checksums.**  Folding a sum s gives the only number up to `M` - 1 that is s
modulo `M` - 1 and zero only if s is zero (`Folded`).  All that the two ways of
computing a checksum differ in, folding the pseudo header first, disappears
modulo `M` - 1, and since the sums are not zero so does the difference of the two
zeros: hence `ModesSendTheSame`.  The exchange of the endpoints is an equation
between sums (`PreserveIsNeutral`).  None of it depends on `M` being a power of
two.

**The rounds.**  `Partitioned` says that the rounds and the unfinished one are
pieces of the log that follow each other, each with different queues, the
unfinished one at its end; a sample more is a step of the fold more
(`CollectOneMore`), after which this is so again (`GatherOneMore`).  That no line
is in two rounds then follows because the lines of a queue are in order of time
(`InOrder`).  For `RoundsNear`, `InTime` bounds the age of the last line of each
queue in the log by its lines that are lost or being printed, and `NearlySorted`
carries this to every pair of lines without another of the earlier one's queue
between them, as two lines of one round are.  For `LinesAreCounted` the fold
has, before each sample, an incomplete round (fewer lines than queues, by
cardinality) and is done with all lines before it (`Gathered`): a group is passed
over at the sample whose queue is in it already.

**Induction.**  The library's induction theorems take the formula as an operator,
which the provers cannot supply.  DataLemmas has both inductions, over numbers
and over finite sets, with the *set* of what satisfies the formula instead, and
derives them from the library's `WFMin`.  With these what the folds of the
community modules compute can be proved: they are recursive functions chosen by
`CHOOSE`, so one shows first that a function with the recursion exists
(`CollectsExist` for the fold of `collect_rounds`, and its like for the sums).

**Only model-checked**: every liveness property and whatever rests on fairness
(`MbufsReturn`, `Terminates`, `Ends`, `RunsOrExits`, and the fairness of
`ImplementsFairService`), which is out of the provers' reach; and the three
properties that the code violates.  Every module with variables has a type
invariant; one run checks EchoWorker's, those of the other modules are theorems
or part of their invariants.

## 6. What is not modelled, and the plan

Not modelled: the text of the `[profile]` lines and the averages that are only
printed; prefetching, which changes no state; the copying of templates into
mbufs; choosing, weighting and plotting in the analysis (functions of one file,
without state), and `infer_core_count`; build rules and recorded logs; the
caches of the mempools beyond the fact that an allocation may fail although mbufs
are free; the number of descriptors the driver settles on; the mean of the
latencies.  Three hazards have no property: whether the sample arrays are long
enough is a matter of physical time; the RX pool against more than 31 rings, and
a PACKET_SIZE beyond an mbuf, would be restated, not tested, by a property.

**State of the plan.**  Done: both server loops and the abstract service with
their refinements, model-checked with fairness and proved without; the checksum
arithmetic; the start-up of all programs; the clients, and the two tests of the
single-worker client one after the other; the composition of client and server;
the profile and the rounds made of it; a theorem for every invariant of the
passing runs.

What could come next, in this order:

1. The composition with the server loops themselves: that EchoSystem with
   `EchoWorker!Spec` in the place of EchoService implements EchoSystem, as a
   theorem; it now rests on the two refinements by the argument of section 5.
2. That the port of LatencyClient alone, with the network that loses and delays,
   keeps the order of a flow as the composition does.
3. The action properties that the liveness arguments rest on: that each step of a
   worker decreases a measure of what it has left to do, which the proofs of
   `MbufsReturn` and `Ends` would need apart from fairness.
