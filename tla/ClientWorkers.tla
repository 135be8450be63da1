---------------------------- MODULE ClientWorkers ----------------------------
(***************************************************************************)
(* What the throughput tests of the two packet generators have in common:  *)
(* main launches a worker per queue, runs the one of queue 0 itself, waits *)
(* for the others and adds up their counters (run_client_multiworker,      *)
(* run_fast_client); the workers wait for the common start, send bursts    *)
(* from the tx_mbuf_pool they share and count what comes back.  How a      *)
(* worker gets and receives its bursts is left to PlainClient and          *)
(* FastClient.                                                             *)
(*                                                                         *)
(* Requests are counted and not told apart: the workers only count them.   *)
(* The network and the server may lose a request or echo it once, and the  *)
(* RSS of the client's port gives the echo to any of the queues.           *)
(***************************************************************************)
EXTENDS Naturals, Functions

CONSTANTS
  num_queues,    \* workers, and queues of the port
  BURST_SIZE,    \* length of pkts and bufs
  TX_RING_SIZE,  \* descriptors per TX ring
  RX_RING_SIZE,  \* descriptors per RX ring
  TxMbufs,       \* the size of tx_mbuf_pool
  MaxRounds      \* bound of the model: how often a worker looks at the time

ASSUME ClientAssumption ==
  /\ {num_queues, BURST_SIZE, TX_RING_SIZE, RX_RING_SIZE} \subseteq Nat \ {0}
  /\ {TxMbufs, MaxRounds} \subseteq Nat

Workers == 0..(num_queues - 1)

VARIABLES
  main,       \* "launch", "work", "join", "done", or "exited"
  joined,     \* the workers 1 .. joined have been waited for
  totals,     \* the sums that main prints
  clock,      \* "early", "on" from start_cycles, "over" from end_cycles
  pc,         \* per worker, where it stands
  rounds,     \* per worker, how often it has looked at the time
  created,    \* per worker, the mbufs in its pkts
  ctx,        \* per worker, its counters
  free,       \* free mbufs of tx_mbuf_pool
  tx_ring,    \* per queue, packets the NIC has not sent yet
  in_flight,  \* requests on their way to the server and back
  rx_ring     \* per queue, echoes not polled yet

mainVars == <<main, joined, totals>>
portVars == <<free, tx_ring, in_flight, rx_ring>>
vars == <<mainVars, clock, pc, rounds, created, ctx, portVars>>

Counters == [tx_sent : Nat, tx_drops : Nat, completed : Nat]
Zero == [tx_sent |-> 0, tx_drops |-> 0, completed |-> 0]

\* One counter over all workers.
Sum(c) == SumFunction([w \in Workers |-> ctx[w][c]])

Init ==
  /\ main = "launch"
  /\ joined = 0
  /\ totals = Zero
  /\ clock = "early"
  /\ pc = [w \in Workers |-> "idle"]
  /\ rounds = [w \in Workers |-> 0]
  /\ created = [w \in Workers |-> 0]
  /\ ctx = [w \in Workers |-> Zero]
  /\ free = TxMbufs
  /\ tx_ring = [w \in Workers |-> 0]
  /\ in_flight = 0
  /\ rx_ring = [w \in Workers |-> 0]

------------------------------------------------------------------------------
(* main.                                                                   *)

Launched(w) == pc[w] # "idle"

\* The workers of the queues 1, 2, ... are launched in this order and wait for
\* the start, or find that it is over.
Launch(w) ==
  /\ main = "launch"
  /\ w # 0 /\ ~Launched(w) /\ \A v \in 1..(w - 1) : Launched(v)
  /\ pc' = [pc EXCEPT ![w] = "barrier"]
  /\ UNCHANGED <<mainVars, clock, rounds, created, ctx, portVars>>

\* rte_exit takes the workers already launched down with it.
LaunchFails ==
  /\ main = "launch"
  /\ \E w \in Workers \ {0} : ~Launched(w)
  /\ main' = "exited"
  /\ UNCHANGED <<joined, totals, clock, pc, rounds, created, ctx, portVars>>

\* main becomes the worker of queue 0.
Work ==
  /\ main = "launch"
  /\ \A w \in Workers \ {0} : Launched(w)
  /\ main' = "work"
  /\ pc' = [pc EXCEPT ![0] = "barrier"]
  /\ UNCHANGED <<joined, totals, clock, rounds, created, ctx, portVars>>

WorkDone ==
  /\ main = "work" /\ pc[0] = "done"
  /\ main' = "join"
  /\ UNCHANGED <<joined, totals, clock, pc, rounds, created, ctx, portVars>>

\* Mutant: main does not wait for the last worker.
JoinTooFew ==
  /\ main = "join" /\ joined < num_queues - 1
  /\ pc[joined + 1] = "done" \/ joined + 1 = num_queues - 1
  /\ joined' = joined + 1
  /\ UNCHANGED <<main, totals, clock, pc, rounds, created, ctx, portVars>>

\* rte_eal_wait_lcore.
Join ==
  /\ main = "join" /\ joined < num_queues - 1
  /\ pc[joined + 1] = "done"
  /\ joined' = joined + 1
  /\ UNCHANGED <<main, totals, clock, pc, rounds, created, ctx, portVars>>

Report ==
  /\ main = "join" /\ joined = num_queues - 1
  /\ totals' = [c \in DOMAIN Zero |-> Sum(c)]
  /\ main' = "done"
  /\ UNCHANGED <<joined, clock, pc, rounds, created, ctx, portVars>>

Main == (\E w \in Workers : Launch(w)) \/ Work \/ WorkDone \/ Join \/ Report

Tick ==
  /\ clock # "over"
  /\ clock' = IF clock = "early" THEN "on" ELSE "over"
  /\ UNCHANGED <<mainVars, pc, rounds, created, ctx, portVars>>

------------------------------------------------------------------------------
(* The steps of a worker.                                                  *)

Goto(w, to) == pc' = [pc EXCEPT ![w] = to]
Count(w, c, n) == ctx' = [ctx EXCEPT ![w][c] = @ + n]

\* The waiting loop before start_cycles.
Begin(w) ==
  /\ pc[w] = "barrier" /\ clock # "early"
  /\ Goto(w, "loop")
  /\ UNCHANGED <<mainVars, clock, rounds, created, ctx, portVars>>

\* The condition of the main loop: then it is in the loop body, or has left it.
LookAtTime(w, body, left) ==
  /\ pc[w] = "loop"
  /\ IF clock = "over"
       THEN Goto(w, left) /\ UNCHANGED rounds
       ELSE /\ rounds[w] < MaxRounds
            /\ rounds' = [rounds EXCEPT ![w] = @ + 1]
            /\ Goto(w, body)
  /\ UNCHANGED <<mainVars, clock, created, ctx, portVars>>

\* n mbufs of tx_mbuf_pool become the packets of the burst.
Create(w, n) ==
  /\ free' = free - n
  /\ created' = [created EXCEPT ![w] = n]
  /\ UNCHANGED <<mainVars, clock, rounds, ctx, tx_ring, in_flight, rx_ring>>

\* Mutant: the loop that frees what was not sent starts one too late.
SendBurstLate(w) ==
  \E nb_tx \in 0..created[w] :
    /\ tx_ring[w] + nb_tx <= TX_RING_SIZE
    /\ tx_ring' = [tx_ring EXCEPT ![w] = @ + nb_tx]
    /\ free' = free + (IF nb_tx < created[w] THEN created[w] - nb_tx - 1 ELSE 0)
    /\ ctx' = [ctx EXCEPT ![w].tx_sent = @ + nb_tx,
                          ![w].tx_drops = @ + (created[w] - nb_tx)]
    /\ created' = [created EXCEPT ![w] = 0]
    /\ UNCHANGED <<mainVars, clock, rounds, in_flight, rx_ring>>

\* Mutant: what the NIC did not take is counted as sent.
SendBurstCountsAll(w) ==
  \E nb_tx \in 0..created[w] :
    /\ tx_ring[w] + nb_tx <= TX_RING_SIZE
    /\ tx_ring' = [tx_ring EXCEPT ![w] = @ + nb_tx]
    /\ free' = free + (created[w] - nb_tx)
    /\ ctx' = [ctx EXCEPT ![w].tx_sent = @ + created[w],
                          ![w].tx_drops = @ + (created[w] - nb_tx)]
    /\ created' = [created EXCEPT ![w] = 0]
    /\ UNCHANGED <<mainVars, clock, rounds, in_flight, rx_ring>>

\* rte_eth_tx_burst; what the NIC does not take is freed.
SendBurst(w) ==
  \E nb_tx \in 0..created[w] :
    /\ tx_ring[w] + nb_tx <= TX_RING_SIZE
    /\ tx_ring' = [tx_ring EXCEPT ![w] = @ + nb_tx]
    /\ free' = free + (created[w] - nb_tx)
    /\ ctx' = [ctx EXCEPT ![w].tx_sent = @ + nb_tx,
                          ![w].tx_drops = @ + (created[w] - nb_tx)]
    /\ created' = [created EXCEPT ![w] = 0]
    /\ UNCHANGED <<mainVars, clock, rounds, in_flight, rx_ring>>

\* What rte_eth_rx_burst may return: nothing only if there is nothing.
RxCounts(w) ==
  {n \in 0..BURST_SIZE : n <= rx_ring[w] /\ (n = 0 => rx_ring[w] = 0)}

\* Mutant: the whole burst is counted, however short the poll was.
ReceiveBurstWhole(w, nb_rx) ==
  /\ rx_ring' = [rx_ring EXCEPT ![w] = @ - nb_rx]
  /\ Count(w, "completed", BURST_SIZE)
  /\ UNCHANGED <<mainVars, clock, rounds, created, free, tx_ring, in_flight>>

\* A poll, and the freeing of the mbufs it returned.
ReceiveBurst(w, nb_rx) ==
  /\ rx_ring' = [rx_ring EXCEPT ![w] = @ - nb_rx]
  /\ Count(w, "completed", nb_rx)
  /\ UNCHANGED <<mainVars, clock, rounds, created, free, tx_ring, in_flight>>

------------------------------------------------------------------------------
(* The NIC, the network and the server.                                    *)

Transmit(w) ==
  /\ tx_ring[w] > 0
  /\ tx_ring' = [tx_ring EXCEPT ![w] = @ - 1]
  /\ free' = free + 1
  /\ in_flight' = in_flight + 1
  /\ UNCHANGED <<mainVars, clock, pc, rounds, created, ctx, rx_ring>>

EchoArrives(w) ==
  /\ in_flight > 0 /\ rx_ring[w] < RX_RING_SIZE
  /\ in_flight' = in_flight - 1
  /\ rx_ring' = [rx_ring EXCEPT ![w] = @ + 1]
  /\ UNCHANGED <<mainVars, clock, pc, rounds, created, ctx, free, tx_ring>>

Lose ==
  /\ in_flight > 0
  /\ in_flight' = in_flight - 1
  /\ UNCHANGED <<mainVars, clock, pc, rounds, created, ctx, free, tx_ring, rx_ring>>

Environment ==
  \/ Tick \/ Lose
  \/ \E w \in Workers : Transmit(w) \/ EchoArrives(w)

------------------------------------------------------------------------------
(* Properties.                                                             *)

ClientTypeOK ==
  /\ main \in {"launch", "work", "join", "done", "exited"}
  /\ joined \in Workers
  /\ totals \in Counters
  /\ clock \in {"early", "on", "over"}
  /\ rounds \in [Workers -> 0..MaxRounds]
  /\ created \in [Workers -> 0..BURST_SIZE]
  /\ ctx \in [Workers -> Counters]
  /\ free \in 0..TxMbufs
  /\ tx_ring \in [Workers -> 0..TX_RING_SIZE]
  /\ in_flight \in Nat
  /\ rx_ring \in [Workers -> 0..RX_RING_SIZE]

\* No worker leaks an mbuf of the pool they share, or frees one twice.
TxMbufsConserved ==
  free + SumFunction(created) + SumFunction(tx_ring) = TxMbufs

\* All the workers together do not complete more than they have sent.  One of
\* them may: RSS does not bring the echoes back to the queue that sent.
CompletedWereSent ==
  Sum("completed") + SumFunction(rx_ring) + in_flight + SumFunction(tx_ring)
    <= Sum("tx_sent")

\* What main prints is the final count: no worker is running any more, so that
\* nothing is added after the sums.
TotalsAreFinal ==
  main = "done" =>
    /\ totals = [c \in DOMAIN Zero |-> Sum(c)]
    /\ \A w \in Workers : pc[w] = "done"

\* Every test comes to its end, with all mbufs back in the pool.
Ends == <>(main = "exited" \/ (main = "done" /\ free = TxMbufs))
==============================================================================
