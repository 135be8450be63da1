----------------------------- MODULE TxBufWorker -----------------------------
(***************************************************************************)
(* The buffered echo servers: echo_server_checksum_txbuf_exp.c and         *)
(* echo_server_checksum_txbuf_prefetch_exp.c, whose loops differ in a      *)
(* prefetch only.  A packet is stored in the worker's tx_buffer, and it    *)
(* leaves when the buffer is full, when a poll returns nothing, or when a  *)
(* report is about to be printed.                                          *)
(*                                                                         *)
(* The buffer itself, rte_eth_tx_buffer with the counting callback, is     *)
(* DPDK code and modelled from its calls.                                  *)
(***************************************************************************)
EXTENDS EchoStages

CONSTANT TX_BUFFER_SIZE

ASSUME TxBufferAssumption == TX_BUFFER_SIZE \in Nat \ {0}

VARIABLES
  tx_buffer,        \* per worker, the packets parked in its buffer
  tx_buffer_drops,  \* per worker, what the counting callback has counted
  nb_tx,            \* per worker, the local nb_tx of the TX stage
  drops_before      \* per worker, the local drops_before of the TX stage

bufferVars == <<tx_buffer, tx_buffer_drops, nb_tx, drops_before>>
vars == <<portVars, workerVars, bufferVars>>

Init ==
  /\ PortInit
  /\ WorkerInit
  /\ tx_buffer = [q \in Queues |-> <<>>]
  /\ tx_buffer_drops = [q \in Queues |-> 0]
  /\ nb_tx = [q \in Queues |-> 0]
  /\ drops_before = [q \in Queues |-> 0]

------------------------------------------------------------------------------
(* The buffer.                                                             *)

\* Mutant: what the callback has freed stays in the buffer.
SendBufferKeeps(q, bufs, sent) ==
  /\ SendOrFree(q, bufs, sent)
  /\ tx_buffer' = [tx_buffer EXCEPT ![q] = SubSeq(bufs, sent + 1, Len(bufs))]
  /\ tx_buffer_drops' = [tx_buffer_drops EXCEPT ![q] = @ + (Len(bufs) - sent)]

\* The packets bufs go to the NIC, which takes sent of them; the callback
\* frees and counts the others.
SendBuffer(q, bufs, sent) ==
  /\ SendOrFree(q, bufs, sent)
  /\ tx_buffer' = [tx_buffer EXCEPT ![q] = <<>>]
  /\ tx_buffer_drops' = [tx_buffer_drops EXCEPT ![q] = @ + (Len(bufs) - sent)]

\* flush_tx_buffer.  With nothing in the buffer it changes nothing.
FlushTxBuffer(q) ==
  \E sent \in TxBursts(q, tx_buffer[q]) :
    /\ SendBuffer(q, tx_buffer[q], sent)
    /\ stats' = [stats EXCEPT ![q].tx_packets = @ + sent,
                              ![q].tx_drops = @ + (Len(tx_buffer[q]) - sent)]

------------------------------------------------------------------------------
(* The loop.                                                               *)

\* Mutant: an empty poll does not flush.
EmptyPollNoFlush(q) ==
  /\ Goto(q, "poll", "loop_end")
  /\ rx_ring[q] = <<>>
  /\ UNCHANGED <<portVars, checksum_mode, rx_bufs, stats, printed, bufferVars>>

\* A poll that returns nothing flushes the buffer.
EmptyPoll(q) ==
  /\ Goto(q, "poll", "loop_end")
  /\ rx_ring[q] = <<>>
  /\ FlushTxBuffer(q)
  /\ UNCHANGED <<checksum_mode, rx_bufs, printed, nb_tx, drops_before>>

\* The checksum stage, and the locals of the TX stage that follows.
ChecksumThenTx(q) ==
  /\ Checksum(q)
  /\ nb_tx' = [nb_tx EXCEPT ![q] = 0]
  /\ drops_before' = [drops_before EXCEPT ![q] = tx_buffer_drops[q]]
  /\ UNCHANGED <<tx_buffer, tx_buffer_drops>>

\* Mutant: the buffer is sent by the packet that no longer fits.
TxBufferLate(q) ==
  /\ pc[q] = "tx"
  /\ rx_bufs[q] # <<>>
  /\ LET bufs == Append(tx_buffer[q], Head(rx_bufs[q])) IN
       \/ /\ Len(bufs) <= TX_BUFFER_SIZE
          /\ tx_buffer' = [tx_buffer EXCEPT ![q] = bufs]
          /\ UNCHANGED <<portVars, tx_buffer_drops, nb_tx>>
       \/ /\ Len(bufs) > TX_BUFFER_SIZE
          /\ \E sent \in TxBursts(q, bufs) :
               /\ SendBuffer(q, bufs, sent)
               /\ nb_tx' = [nb_tx EXCEPT ![q] = @ + sent]
  /\ rx_bufs' = [rx_bufs EXCEPT ![q] = Tail(@)]
  /\ UNCHANGED <<checksum_mode, pc, stats, printed, drops_before>>

\* rte_eth_tx_buffer on the next packet of the batch: it is stored, and the
\* packet that fills the buffer sends all of it.
TxBuffer(q) ==
  /\ pc[q] = "tx"
  /\ rx_bufs[q] # <<>>
  /\ LET bufs == Append(tx_buffer[q], Head(rx_bufs[q])) IN
       \/ /\ Len(bufs) < TX_BUFFER_SIZE
          /\ tx_buffer' = [tx_buffer EXCEPT ![q] = bufs]
          /\ UNCHANGED <<portVars, tx_buffer_drops, nb_tx>>
       \/ /\ Len(bufs) >= TX_BUFFER_SIZE
          /\ \E sent \in TxBursts(q, bufs) :
               /\ SendBuffer(q, bufs, sent)
               /\ nb_tx' = [nb_tx EXCEPT ![q] = @ + sent]
  /\ rx_bufs' = [rx_bufs EXCEPT ![q] = Tail(@)]
  /\ UNCHANGED <<checksum_mode, pc, stats, printed, drops_before>>

\* Mutant: the drops since the start are counted, not those of the stage.
TxEndAllDrops(q) ==
  /\ pc[q] = "tx"
  /\ rx_bufs[q] = <<>>
  /\ stats' = [stats EXCEPT ![q].tx_packets = @ + nb_tx[q],
                            ![q].tx_drops = @ + tx_buffer_drops[q]]
  /\ \E next \in {"flush", "loop_end"} : pc' = [pc EXCEPT ![q] = next]
  /\ UNCHANGED <<portVars, checksum_mode, rx_bufs, printed, bufferVars>>

\* The end of the TX stage: the counters, and the timer is read to see if a
\* report is due.
TxEnd(q) ==
  /\ pc[q] = "tx"
  /\ rx_bufs[q] = <<>>
  /\ stats' = [stats EXCEPT
                 ![q].tx_packets = @ + nb_tx[q],
                 ![q].tx_drops = @ + (tx_buffer_drops[q] - drops_before[q])]
  /\ \E next \in {"flush", "loop_end"} : pc' = [pc EXCEPT ![q] = next]
  /\ UNCHANGED <<portVars, checksum_mode, rx_bufs, printed, bufferVars>>

\* A report is due, so the buffer is flushed first.
FlushBeforeReport(q) ==
  /\ Goto(q, "flush", "report")
  /\ FlushTxBuffer(q)
  /\ UNCHANGED <<checksum_mode, rx_bufs, printed, nb_tx, drops_before>>

\* The timer is read again: what was due is still due.
DueReport(q) ==
  /\ Goto(q, "report", "poll")
  /\ Report(q)
  /\ UNCHANGED <<portVars, checksum_mode, rx_bufs, bufferVars>>

Worker(q) ==
  \/ EmptyPoll(q)
  \/ RxBurst(q) /\ UNCHANGED bufferVars
  \/ Rewrite(q) /\ UNCHANGED bufferVars
  \/ ChecksumThenTx(q)
  \/ TxBuffer(q)
  \/ TxEnd(q)
  \/ FlushBeforeReport(q)
  \/ DueReport(q)
  \/ LoopEnd(q) /\ UNCHANGED bufferVars

Nic ==
  \/ \E h \in Traffic : Deliver(h) /\ UNCHANGED <<workerVars, bufferVars>>
  \/ \E q \in Queues : Transmit(q) /\ UNCHANGED <<workerVars, bufferVars>>

Next == Nic \/ \E q \in Queues : Worker(q)

Spec == Init /\ [][Next]_vars

\* A worker never blocks and the NIC sends what it was given.  Nothing makes
\* packets arrive, so it is the empty polls that must free the last packets.
Fairness ==
  \A q \in Queues :
    /\ WF_vars(Worker(q))
    /\ WF_vars(Transmit(q) /\ UNCHANGED <<workerVars, bufferVars>>)

FairSpec == Spec /\ Fairness

------------------------------------------------------------------------------
(* Properties.                                                             *)

TypeOK ==
  /\ PortTypeOK
  /\ WorkerTypeOK
  /\ pc \in [Queues -> {"poll", "rewrite", "checksum", "tx", "flush",
                        "report", "loop_end"}]
  /\ tx_buffer \in [Queues -> Seq(Mbufs)]
  /\ tx_buffer_drops \in [Queues -> Nat]
  /\ nb_tx \in [Queues -> Nat]
  /\ drops_before \in [Queues -> Nat]

\* The mbufs of each queue, oldest first; those in the buffer are between the
\* batch and the TX ring.
Held ==
  [q \in Queues |-> tx_ring[q] \o tx_buffer[q] \o rx_bufs[q] \o rx_ring[q]]

\* Nothing is leaked, nothing is freed twice, and a packet that is parked
\* over many iterations is not touched by anybody.
MbufOwnership == OwnedOnce(Held, pool)

\* What the worker knows to be sent and dropped, the locals of a TX stage
\* that is under way included.
Sent(q) ==
  Counted(q).tx_packets + (IF pc[q] = "tx" THEN nb_tx[q] ELSE 0)
Dropped(q) ==
  Counted(q).tx_drops
    + (IF pc[q] = "tx" THEN tx_buffer_drops[q] - drops_before[q] ELSE 0)

\* The counters account for every packet.  The callback's counter is read in
\* two places, and every drop is counted by exactly one of them.
CountersBalance ==
  \A q \in Queues :
    /\ Counted(q).rx_packets =
         Sent(q) + Dropped(q) + Len(tx_buffer[q]) + Len(rx_bufs[q])
    /\ Sent(q) = Len(wire[q]) + Len(tx_ring[q])
    /\ Dropped(q) = tx_buffer_drops[q]

\* What the [profile] lines of a worker leave unaccounted is what is parked,
\* and less than a full buffer.
ReportGap ==
  \A q \in Queues :
    /\ printed[q].tx_packets + printed[q].tx_drops <= printed[q].rx_packets
    /\ printed[q].rx_packets
         < printed[q].tx_packets + printed[q].tx_drops + TX_BUFFER_SIZE

\* The server implements EchoService: what is parked is still pending, but
\* has been rewritten.
Parked(q) ==
  [i \in 1..Len(tx_buffer[q]) |->
     LET p == HeaderOf(pkt[tx_buffer[q][i]])
     IN [id |-> p.id, src |-> p.dst, dst |-> p.src]]
Pending(q) ==
  Parked(q) \o [i \in 1..Len(rx_bufs[q]) |-> AsRequest(q, i)]
            \o Headers(rx_ring[q])
Replied(q) ==
  [i \in 1..Len(wire[q]) |-> HeaderOf(wire[q][i])] \o Headers(tx_ring[q])

Service == INSTANCE EchoService WITH
  accepted <- requests,
  pending <- [q \in Queues |-> Pending(q)],
  replied <- [q \in Queues |-> Replied(q)],
  dropped <- [q \in Queues |-> tx_buffer_drops[q]]

\* Every step of the server is a step of the service or none, and no packet is
\* parked for ever.
ImplementsFairService == Service!FairSpec

\* Every mbuf comes back to the pool, again and again.
MbufsReturn == \A m \in Mbufs : []<>(m \in pool)
==============================================================================
