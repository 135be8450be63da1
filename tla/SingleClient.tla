----------------------------- MODULE SingleClient -----------------------------
(***************************************************************************)
(* run_client of packet_gen_client.c with one worker: the latency test,    *)
(* then client_throughput_test, on the same queue and from the same        *)
(* mempools.  The throughput test sends bursts on all flows and counts     *)
(* what it receives without looking at it.                                 *)
(***************************************************************************)
EXTENDS LatencyClient

CONSTANT MaxBulk  \* bound of the model: packets the throughput test creates

VARIABLES
  tpc,           \* where client_throughput_test stands; "idle" before it starts
  over,          \* whether its time is up
  next_flow,     \* the flow of the next packet
  created_pkts,  \* the length of pkts
  reqs,          \* the packets it has received
  tx_sent        \* history: the packets the NIC took from it

throughputVars == <<tpc, over, next_flow, created_pkts, reqs, tx_sent>>
singleVars == <<vars, throughputVars>>

\* A packet of the throughput test; its number follows those of the latency test.
Bulk(flow) == [number |-> MaxRequests + 1 + flow, sample |-> flow]

ThroughputInit ==
  /\ tpc = "idle"
  /\ over = FALSE
  /\ next_flow = 0
  /\ created_pkts = 0
  /\ reqs = 0
  /\ tx_sent = 0

------------------------------------------------------------------------------

StartThroughput ==
  /\ tpc = "idle" /\ pc = "done"
  /\ tpc' = "loop"
  /\ UNCHANGED <<vars, over, next_flow, created_pkts, reqs, tx_sent>>

\* The condition of the loop; at the bound of the model the client only waits
\* for the end.
LookAtTime ==
  /\ tpc = "loop"
  /\ over \/ next_flow + BURST_SIZE <= MaxBulk
  /\ tpc' = IF over THEN "done" ELSE "create"
  /\ UNCHANGED <<vars, over, next_flow, created_pkts, reqs, tx_sent>>

\* Packets are crafted until the burst is full or an allocation fails; what the
\* latency test has lost cannot be allocated any more.
CreateBurst ==
  /\ tpc = "create"
  /\ \E n \in 0..BURST_SIZE :
       /\ n <= TxMbufs - tx_leaked
       /\ created_pkts' = n
       /\ next_flow' = next_flow + n
  /\ tpc' = "send"
  /\ UNCHANGED <<vars, over, reqs, tx_sent>>

\* The NIC takes the front of the burst; the other packets are freed, and their
\* flows passed over.
SendBurst ==
  /\ tpc = "send"
  /\ \E nb_tx \in 0..created_pkts :
       /\ echoing' = echoing \o
            [i \in 1..nb_tx |-> Bulk(next_flow - created_pkts + i - 1)]
       /\ tx_sent' = tx_sent + nb_tx
  /\ created_pkts' = 0
  /\ tpc' = "poll"
  /\ UNCHANGED <<clientVars, rx_ring, foreign, expired, over, next_flow, reqs>>

\* Mutant: the whole array is counted, however short the poll was.
PollBurstWhole ==
  /\ tpc = "poll"
  /\ \E nb_rx \in 0..BURST_SIZE :
       /\ nb_rx <= Len(rx_ring) /\ (nb_rx = 0 => rx_ring = <<>>)
       /\ rx_ring' = SubSeq(rx_ring, nb_rx + 1, Len(rx_ring))
       /\ reqs' = IF nb_rx = 0 THEN reqs ELSE reqs + BURST_SIZE
  /\ tpc' = "loop"
  /\ UNCHANGED <<clientVars, echoing, foreign, expired>>
  /\ UNCHANGED <<over, next_flow, created_pkts, tx_sent>>

\* What was received is counted and freed, whatever it is.
PollBurst ==
  /\ tpc = "poll"
  /\ \E nb_rx \in 0..BURST_SIZE :
       /\ nb_rx <= Len(rx_ring) /\ (nb_rx = 0 => rx_ring = <<>>)
       /\ rx_ring' = SubSeq(rx_ring, nb_rx + 1, Len(rx_ring))
       /\ reqs' = reqs + nb_rx
  /\ tpc' = "loop"
  /\ UNCHANGED <<clientVars, echoing, foreign, expired>>
  /\ UNCHANGED <<over, next_flow, created_pkts, tx_sent>>

ThroughputTest ==
  StartThroughput \/ LookAtTime \/ CreateBurst \/ SendBurst \/ PollBurst

\* run_client, one step after the other.
RunClient == (Client /\ UNCHANGED throughputVars) \/ ThroughputTest

\* The time of the throughput test runs from its start.
TimeIsOver ==
  /\ tpc # "idle" /\ ~over
  /\ over' = TRUE
  /\ UNCHANGED <<vars, tpc, next_flow, created_pkts, reqs, tx_sent>>
==============================================================================
