----------------------------- MODULE EchoWorker ------------------------------
(***************************************************************************)
(* The unbuffered echo server: echo_server.c and, with the choice of a     *)
(* checksum mode, echo_server_checksum_exp.c.  A batch is offered to the   *)
(* NIC as a whole and what the NIC does not take is freed.                 *)
(***************************************************************************)
EXTENDS EchoStages

vars == <<portVars, workerVars>>

Init == PortInit /\ WorkerInit

\* A poll that returns nothing.
EmptyPoll(q) ==
  /\ pc[q] = "poll"
  /\ rx_ring[q] = <<>>
  /\ MaybeReport(q)
  /\ UNCHANGED <<portVars, checksum_mode, pc, rx_bufs>>

\* Mutant: the operands of the subtraction exchanged.
CountTxSwapped(q, nb_rx, nb_tx) ==
  stats' = [stats EXCEPT ![q].tx_packets = @ + nb_tx,
                         ![q].tx_drops = @ + (nb_tx - nb_rx)]

\* Mutant: the whole batch is counted as sent.
CountTxBatch(q, nb_rx, nb_tx) ==
  stats' = [stats EXCEPT ![q].tx_packets = @ + nb_rx,
                         ![q].tx_drops = @ + (nb_rx - nb_tx)]

CountTx(q, nb_rx, nb_tx) ==
  stats' = [stats EXCEPT ![q].tx_packets = @ + nb_tx,
                         ![q].tx_drops = @ + (nb_rx - nb_tx)]

\* One rte_eth_tx_burst for the whole batch; the mbufs from nb_tx on are
\* freed.  rx_bufs still holds the pointers, but nb_rx is out of scope.
TxBurst(q) ==
  /\ Goto(q, "tx", "loop_end")
  /\ \E nb_tx \in TxBursts(q, rx_bufs[q]) :
       /\ SendOrFree(q, rx_bufs[q], nb_tx)
       /\ CountTx(q, Len(rx_bufs[q]), nb_tx)
  /\ rx_bufs' = [rx_bufs EXCEPT ![q] = <<>>]
  /\ UNCHANGED <<checksum_mode, printed>>

\* An iteration that carries packets, stage by stage.
Serve(q) ==
  \/ RxBurst(q)
  \/ Rewrite(q)
  \/ Checksum(q)
  \/ TxBurst(q)
  \/ LoopEnd(q)

Nic ==
  \/ \E h \in Traffic : Deliver(h) /\ UNCHANGED workerVars
  \/ \E q \in Queues : Transmit(q) /\ UNCHANGED workerVars

Next == Nic \/ \E q \in Queues : EmptyPoll(q) \/ Serve(q)

Spec == Init /\ [][Next]_vars

\* A worker is pinned to an lcore of its own and never blocks, and the NIC
\* sends what it was given.  Nothing makes packets arrive.
Fairness ==
  \A q \in Queues :
    /\ WF_vars(Serve(q))
    /\ WF_vars(Transmit(q) /\ UNCHANGED workerVars)

FairSpec == Spec /\ Fairness
------------------------------------------------------------------------------
(* Properties.                                                             *)

TypeOK ==
  /\ PortTypeOK
  /\ WorkerTypeOK
  /\ pc \in [Queues -> {"poll", "rewrite", "checksum", "tx", "loop_end"}]

\* The mbufs of each queue, oldest first: a packet enters at the right end
\* and leaves at the left end, or is dropped from the middle.
Held == [q \in Queues |-> tx_ring[q] \o rx_bufs[q] \o rx_ring[q]]

\* Nothing is leaked, nothing is freed twice, and no worker can touch what
\* the NIC or another worker holds.
MbufOwnership == OwnedOnce(Held, pool)

\* The counters account for every packet: what was polled was sent, dropped
\* or is in rx_bufs, and what counts as sent is what the NIC has got.
CountersBalance ==
  \A q \in Queues :
    /\ Counted(q).rx_packets =
         Counted(q).tx_packets + Counted(q).tx_drops + Len(rx_bufs[q])
    /\ Counted(q).tx_packets = Len(wire[q]) + Len(tx_ring[q])

\* The [profile] lines of a worker add up by themselves: no line splits a
\* batch into two intervals.
ReportsBalance ==
  \A q \in Queues :
    printed[q].rx_packets = printed[q].tx_packets + printed[q].tx_drops

\* The server implements EchoService: its pending packets are those in the RX
\* ring and in rx_bufs, its answers those in the TX ring and on the wire.
Pending(q) ==
  [i \in 1..Len(rx_bufs[q]) |-> AsRequest(q, i)] \o Headers(rx_ring[q])
Replied(q) ==
  [i \in 1..Len(wire[q]) |-> HeaderOf(wire[q][i])] \o Headers(tx_ring[q])

Service == INSTANCE EchoService WITH
  accepted <- requests,
  pending <- [q \in Queues |-> Pending(q)],
  replied <- [q \in Queues |-> Replied(q)],
  dropped <- [q \in Queues |-> Counted(q).tx_drops]

\* Every step of the server is a step of the service or none, and every packet
\* that was polled or waits in a ring is eventually answered or dropped.
ImplementsFairService == Service!FairSpec

\* Every mbuf comes back to the pool, again and again.
MbufsReturn == \A m \in Mbufs : []<>(m \in pool)
==============================================================================
