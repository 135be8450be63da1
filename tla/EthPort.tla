------------------------------- MODULE EthPort -------------------------------
(***************************************************************************)
(* The DPDK port as the echo servers use it: one RX ring and one TX ring   *)
(* per queue, filled from one mbuf pool that all queues share.  The port   *)
(* itself is not under app/; it is modelled from the calls the servers     *)
(* make: rte_eth_rx_burst, rte_eth_tx_burst, rte_pktmbuf_free, and the     *)
(* RSS set-up of port_init.                                                *)
(*                                                                         *)
(* An mbuf is an identity; what it carries is pkt[m], which whoever holds  *)
(* the mbuf may rewrite in place.  Whether two holders can ever get at the *)
(* same mbuf is therefore a question the model asks, not one it settles.   *)
(***************************************************************************)
EXTENDS Naturals, Sequences, Functions

CONSTANTS
  Queues,        \* RX/TX queue ids; worker q polls queue q and no other
  Mbufs,         \* the mbufs of rx_mbuf_pool
  Endpoints,     \* a MAC address, IPv4 address and UDP port, taken together
  Traffic,       \* the headers [src, dst] that reach the port
  Rss,           \* the RSS indirection: the queue of each header
  RX_RING_SIZE,  \* descriptors per RX ring
  TX_RING_SIZE,  \* descriptors per TX ring
  MaxRequests,   \* bound of the model: packets that ever arrive
  NoPacket       \* the content of an mbuf that lies in the pool

Header == [src : Endpoints, dst : Endpoints]

\* What the IPv4 and UDP checksum fields hold, relative to the header they
\* stand in; module PacketChecksum does the arithmetic this abstracts.  "pseudo"
\* is a packet whose ol_flags ask the NIC to finish its checksums.
CksumState == {"good", "pseudo", "zero"}

Packet == [id : 1..MaxRequests, src : Endpoints, dst : Endpoints,
           cksum : CksumState]

ASSUME PortAssumption ==
  /\ Traffic \subseteq Header
  /\ Rss \in [Traffic -> Queues]
  /\ RX_RING_SIZE \in Nat \ {0}
  /\ TX_RING_SIZE \in Nat \ {0}
  /\ MaxRequests \in Nat

VARIABLES
  pool,      \* the free mbufs
  pkt,       \* what each mbuf carries
  rx_ring,   \* per queue, received mbufs not polled yet, oldest first
  tx_ring,   \* per queue, mbufs handed to the NIC and not sent yet
  requests,  \* history: the header of packet id is requests[id]
  wire       \* history: per queue, the packets the NIC has sent

portVars == <<pool, pkt, rx_ring, tx_ring, requests, wire>>

PortInit ==
  /\ pool = Mbufs
  /\ pkt = [m \in Mbufs |-> NoPacket]
  /\ rx_ring = [q \in Queues |-> <<>>]
  /\ tx_ring = [q \in Queues |-> <<>>]
  /\ requests = <<>>
  /\ wire = [q \in Queues |-> <<>>]

------------------------------------------------------------------------------
(* The calls of the program.                                               *)

\* The bursts rte_eth_rx_burst(port, q, bufs, burst) may return: any nonempty
\* prefix of the ring that fits the caller's array.
RxBursts(q, burst) == {n \in 1..Len(rx_ring[q]) : n <= burst}

\* The return values of rte_eth_tx_burst(port, q, bufs, Len(bufs)): how many
\* mbufs, from the front of bufs, found a free descriptor.
TxBursts(q, bufs) == {n \in 0..Len(bufs) : Len(tx_ring[q]) + n <= TX_RING_SIZE}

\* rte_pktmbuf_free on every mbuf of bufs, which nobody reads afterwards.
FreeAll(bufs) ==
  /\ pool' = pool \union Range(bufs)
  /\ pkt' = [m \in Mbufs |-> IF m \in Range(bufs) THEN NoPacket ELSE pkt[m]]

\* Mutant: the freeing loop starts one mbuf too late.
SendOrFreeLate(q, bufs, nb_tx) ==
  /\ tx_ring' = [tx_ring EXCEPT ![q] = @ \o SubSeq(bufs, 1, nb_tx)]
  /\ FreeAll(SubSeq(bufs, nb_tx + 2, Len(bufs)))
  /\ UNCHANGED <<rx_ring, requests, wire>>

\* The first nb_tx mbufs of bufs go to the TX ring of q, the caller frees the
\* others: what a worker does on its own and rte_eth_tx_buffer_flush does with
\* the counting callback.
SendOrFree(q, bufs, nb_tx) ==
  /\ tx_ring' = [tx_ring EXCEPT ![q] = @ \o SubSeq(bufs, 1, nb_tx)]
  /\ FreeAll(SubSeq(bufs, nb_tx + 1, Len(bufs)))
  /\ UNCHANGED <<rx_ring, requests, wire>>

------------------------------------------------------------------------------
(* The steps of the NIC.                                                   *)

\* A packet arrives, RSS picks its queue, and it is stored in a free mbuf.
\* With the ring full or the pool empty the NIC loses it unseen.
Deliver(h) ==
  /\ Len(requests) < MaxRequests
  /\ Len(rx_ring[Rss[h]]) < RX_RING_SIZE
  /\ \E m \in pool :
       /\ pool' = pool \ {m}
       /\ rx_ring' = [rx_ring EXCEPT ![Rss[h]] = Append(@, m)]
       /\ pkt' = [pkt EXCEPT ![m] = [id |-> Len(requests) + 1,
                                     src |-> h.src, dst |-> h.dst,
                                     cksum |-> "good"]]
  /\ requests' = Append(requests, h)
  /\ UNCHANGED <<tx_ring, wire>>

\* The checksum offload of the NIC finishes the packets that ask for it.
OnWire(p) == IF p.cksum = "pseudo" THEN [p EXCEPT !.cksum = "good"] ELSE p

\* The NIC sends the oldest packet of a TX ring and returns its mbuf.
Transmit(q) ==
  /\ tx_ring[q] # <<>>
  /\ LET m == Head(tx_ring[q]) IN
       /\ wire' = [wire EXCEPT ![q] = Append(@, OnWire(pkt[m]))]
       /\ FreeAll(<<m>>)
  /\ tx_ring' = [tx_ring EXCEPT ![q] = Tail(@)]
  /\ UNCHANGED <<rx_ring, requests>>

PortTypeOK ==
  /\ pool \subseteq Mbufs
  /\ pkt \in [Mbufs -> Packet \union {NoPacket}]
  /\ rx_ring \in [Queues -> Seq(Mbufs)]
  /\ tx_ring \in [Queues -> Seq(Mbufs)]
  /\ requests \in Seq(Traffic)
  /\ wire \in [Queues -> Seq(Packet)]
==============================================================================
