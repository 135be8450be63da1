----------------------------- MODULE EchoStages ------------------------------
(***************************************************************************)
(* The stages that the loops of all the echo servers have in common: poll  *)
(* a burst, exchange the endpoints of the whole batch, fix its checksums,  *)
(* and, at the end of an iteration, print and clear the counters if the    *)
(* interval is over.  How a batch gets to the NIC is left to EchoWorker    *)
(* and TxBufWorker.                                                        *)
(*                                                                         *)
(* One worker runs per queue.  The workers share the mbuf pool and nothing *)
(* else.  Time is left out: whether a report is due is a free choice at    *)
(* every check of the timer.                                               *)
(***************************************************************************)
EXTENDS EthPort

CONSTANTS
  BURST_SIZE,  \* length of rx_bufs
  Modes        \* the checksum modes the server may be started with

ASSUME WorkerAssumption ==
  /\ BURST_SIZE \in Nat \ {0}
  /\ Modes \subseteq {"software", "offload", "preserve", "none"}

VARIABLES
  checksum_mode,  \* selected_checksum_mode, set once from the command line
  pc,             \* per worker, the stage of its loop
  rx_bufs,        \* per worker, rx_bufs[0 .. nb_rx - 1]
  stats,          \* per worker, the counters of the running interval
  printed         \* history: per worker, the sum of all its [profile] lines

workerVars == <<checksum_mode, pc, rx_bufs, stats, printed>>

Counters == [rx_packets : Nat, tx_packets : Nat, tx_drops : Nat]
ZeroCounters == [rx_packets |-> 0, tx_packets |-> 0, tx_drops |-> 0]

\* Counters of two intervals together.
Plus(s, t) == [c \in DOMAIN s |-> s[c] + t[c]]

WorkerInit ==
  /\ checksum_mode \in Modes
  /\ pc = [q \in Queues |-> "poll"]
  /\ rx_bufs = [q \in Queues |-> <<>>]
  /\ stats = [q \in Queues |-> ZeroCounters]
  /\ printed = [q \in Queues |-> ZeroCounters]

------------------------------------------------------------------------------
(* The stages of the loop.                                                 *)

Goto(q, from, to) == pc[q] = from /\ pc' = [pc EXCEPT ![q] = to]

\* The same change to the content of every mbuf of a batch.
EditBatch(q, Edit(_)) ==
  pkt' = [m \in Mbufs |-> IF m \in Range(rx_bufs[q]) THEN Edit(pkt[m]) ELSE pkt[m]]

\* print_profile and the memset of stats.
Report(q) ==
  /\ printed' = [printed EXCEPT ![q] = Plus(@, stats[q])]
  /\ stats' = [stats EXCEPT ![q] = ZeroCounters]

\* A report is printed only if the interval is over.
MaybeReport(q) == Report(q) \/ UNCHANGED <<stats, printed>>

\* A poll that returns nb_rx > 0 packets.
RxBurst(q) ==
  /\ Goto(q, "poll", "rewrite")
  /\ \E nb_rx \in RxBursts(q, BURST_SIZE) :
       /\ rx_bufs' = [rx_bufs EXCEPT ![q] = SubSeq(rx_ring[q], 1, nb_rx)]
       /\ rx_ring' = [rx_ring EXCEPT ![q] = SubSeq(@, nb_rx + 1, Len(@))]
       /\ stats' = [stats EXCEPT ![q].rx_packets = @ + nb_rx]
  /\ UNCHANGED <<pool, pkt, tx_ring, requests, wire, checksum_mode, printed>>

\* Mutant: the exchange without the temporary.
SwapWithoutTmp(p) == [p EXCEPT !.src = p.dst]

\* The endpoint fields of the Ethernet, IPv4 and UDP headers change places;
\* the checksum fields stay, and stay right, for the sums are symmetric.
SwapEndpoints(p) == [p EXCEPT !.src = p.dst, !.dst = p.src]

\* Mutant: the end of the interval is also noticed inside the iteration.
RewriteThenReport(q) ==
  /\ Goto(q, "rewrite", "checksum")
  /\ EditBatch(q, SwapEndpoints)
  /\ MaybeReport(q)
  /\ UNCHANGED <<pool, rx_ring, tx_ring, requests, wire, checksum_mode, rx_bufs>>

Rewrite(q) ==
  /\ Goto(q, "rewrite", "checksum")
  /\ EditBatch(q, SwapEndpoints)
  /\ UNCHANGED <<pool, rx_ring, tx_ring, requests, wire>>
  /\ UNCHANGED <<checksum_mode, rx_bufs, stats, printed>>

\* Mutant: the offload branch forgets to set ol_flags.
FixChecksumNoFlags(mode, p) ==
  IF mode = "preserve" THEN p
  ELSE [p EXCEPT !.cksum = IF mode = "software" THEN "good" ELSE "zero"]

\* The checksum fields after the checksum stage.
FixChecksum(mode, p) ==
  CASE mode = "software" -> [p EXCEPT !.cksum = "good"]
    [] mode = "offload"  -> [p EXCEPT !.cksum = "pseudo"]
    [] mode = "preserve" -> p
    [] mode = "none"     -> [p EXCEPT !.cksum = "zero"]

Checksum(q) ==
  /\ Goto(q, "checksum", "tx")
  /\ EditBatch(q, LAMBDA p : FixChecksum(checksum_mode, p))
  /\ UNCHANGED <<pool, rx_ring, tx_ring, requests, wire>>
  /\ UNCHANGED <<checksum_mode, rx_bufs, stats, printed>>

\* Mutant: the worker waits for the end of the interval.
LoopEndSpins(q) ==
  /\ pc[q] = "loop_end"
  /\ MaybeReport(q)
  /\ UNCHANGED <<portVars, checksum_mode, pc, rx_bufs>>

\* The end of an iteration that carried packets.
LoopEnd(q) ==
  /\ Goto(q, "loop_end", "poll")
  /\ MaybeReport(q)
  /\ UNCHANGED <<portVars, checksum_mode, rx_bufs>>

------------------------------------------------------------------------------
(* What the properties of both servers are made of.                        *)

WorkerTypeOK ==
  /\ checksum_mode \in Modes
  /\ rx_bufs \in [Queues -> Seq(Mbufs)]
  /\ stats \in [Queues -> Counters]
  /\ printed \in [Queues -> Counters]

\* All that a worker has counted, in past intervals and in the running one.
Counted(q) == Plus(printed[q], stats[q])

\* Every mbuf is in exactly one place: it is free, or it is once in held[q],
\* the mbufs of queue q.
OwnedOnce(held, free) ==
  /\ Mbufs = free \union UNION {Range(held[q]) : q \in Queues}
  /\ \A q \in Queues : IsInjective(held[q]) /\ Range(held[q]) \intersect free = {}
  /\ \A q, r \in Queues :
       q # r => Range(held[q]) \intersect Range(held[r]) = {}

\* What EchoService knows of a packet, and the requests that the packets of
\* rx_bufs stand for whether or not the worker has rewritten them yet.
HeaderOf(p) == [id |-> p.id, src |-> p.src, dst |-> p.dst]
Headers(bufs) == [i \in 1..Len(bufs) |-> HeaderOf(pkt[bufs[i]])]
Swapped(q) == pc[q] \in {"checksum", "tx"}

AsRequest(q, i) ==
  LET p == HeaderOf(pkt[rx_bufs[q][i]])
  IN IF Swapped(q) THEN [id |-> p.id, src |-> p.dst, dst |-> p.src] ELSE p

\* A client gets valid checksums from every mode but "none", which sends the
\* fields as zero.
WireChecksums ==
  \A q \in Queues : \A i \in 1..Len(wire[q]) :
    wire[q][i].cksum = IF checksum_mode = "none" THEN "zero" ELSE "good"
==============================================================================
