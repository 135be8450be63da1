---------------------------- MODULE LatencyClient ----------------------------
(***************************************************************************)
(* client_latency_test of packet_gen_client.c: send one request, wait for  *)
(* its echo, note both times, and go on until the time is up.  Whoever     *)
(* else sends to the client is heard too, for its port is in promiscuous   *)
(* mode.                                                                   *)
(*                                                                         *)
(* EchoSystem puts the server behind these steps.  The module by itself    *)
(* has one queue for network and server, which keeps the order of what it  *)
(* carries and may lose it; that serves for what a packet from elsewhere   *)
(* does to the client, where the order of echoes plays no part.            *)
(*                                                                         *)
(* A request is known by its number; it carries the number of the sample   *)
(* it was crafted for, which gives it its port.  Instead of the times the  *)
(* model keeps in snd_times and rcv_times the requests they belong to.     *)
(***************************************************************************)
EXTENDS Naturals, Sequences

CONSTANTS
  num_flows,    \* the source ports the requests go round
  BURST_SIZE,   \* packets one poll may return
  TxMbufs,      \* the size of tx_mbuf_pool
  RxMbufs,      \* the size of rx_mbuf_pool
  MaxRequests,  \* bound of the model: requests that are ever sent
  MaxForeign    \* bound of the model: packets from elsewhere

VARIABLES
  pc,               \* where the client stands
  expired,          \* whether start_time + seconds has passed
  requests,         \* the number of requests crafted
  snd_times,        \* snd_times[k] is the request last sent for sample k
  rcv_times,        \* rcv_times[k] is the request whose echo gave sample k
  incorrect_echos,
  echoing,          \* requests on their way to the server and back
  rx_ring,          \* what waits at the client's port
  foreign,          \* the number of packets that came from elsewhere
  tx_leaked,        \* mbufs of tx_mbuf_pool that nobody will free
  rx_leaked         \* mbufs of rx_mbuf_pool that nobody will free

clientVars == <<pc, requests, snd_times, rcv_times, incorrect_echos, tx_leaked,
                rx_leaked>>
netVars == <<echoing, rx_ring, foreign>>
vars == <<clientVars, netVars, expired>>

correct_echos == Len(rcv_times)

\* flow_src_port, as an offset from client_port.
flow_src_port(flow_id) == flow_id % num_flows

Request == [number : Nat, sample : Nat]
Other == [number |-> 0, sample |-> 0]

\* craft_packet for the next sample.
Crafted == [number |-> requests + 1, sample |-> correct_echos]

Init ==
  /\ pc = "loop"
  /\ expired = FALSE
  /\ requests = 0
  /\ snd_times = <<>>
  /\ rcv_times = <<>>
  /\ incorrect_echos = 0
  /\ echoing = <<>>
  /\ rx_ring = <<>>
  /\ foreign = 0
  /\ tx_leaked = 0
  /\ rx_leaked = 0

------------------------------------------------------------------------------
(* The client.  Between the test of a loop and its body the time may run   *)
(* out.                                                                    *)

\* The condition of the outer loop; at the bound of the model the client stays
\* here until the time is up.
Loop ==
  /\ pc = "loop"
  /\ expired \/ requests < MaxRequests
  /\ pc' = IF expired THEN "done" ELSE "send"
  /\ UNCHANGED <<requests, snd_times, rcv_times, incorrect_echos, tx_leaked,
                 rx_leaked, netVars, expired>>

\* The next sample is still sample correct_echos + 1, so that a second request
\* for it replaces the first one in snd_times.
NoteSent == snd_times' = Append(SubSeq(snd_times, 1, correct_echos), Crafted)

\* Mutant: a request the NIC did not take is sent again at once.
SendRetries ==
  /\ pc = "send"
  /\ tx_leaked < TxMbufs
  /\ requests' = requests + 1
  /\ NoteSent
  /\ \/ /\ echoing' = Append(echoing, Crafted)
        /\ pc' = "wait"
        /\ UNCHANGED tx_leaked
     \/ /\ tx_leaked' = tx_leaked + 1
        /\ UNCHANGED <<echoing, pc>>
  /\ UNCHANGED <<rcv_times, incorrect_echos, rx_leaked, rx_ring, foreign, expired>>

\* A request is crafted, its time noted, and handed to the NIC.  If the NIC
\* does not take it the mbuf is lost, and the client waits all the same.
Send ==
  /\ pc = "send"
  /\ tx_leaked < TxMbufs
  /\ requests' = requests + 1
  /\ NoteSent
  /\ \/ /\ echoing' = Append(echoing, Crafted)
        /\ UNCHANGED tx_leaked
     \/ /\ tx_leaked' = tx_leaked + 1
        /\ UNCHANGED echoing
  /\ pc' = "wait"
  /\ UNCHANGED <<rcv_times, incorrect_echos, rx_leaked, rx_ring, foreign, expired>>

\* With the pool empty, craft_packet writes through a null pointer.
CraftNull ==
  /\ pc = "send"
  /\ tx_leaked >= TxMbufs
  /\ pc' = "crashed"
  /\ UNCHANGED <<requests, snd_times, rcv_times, incorrect_echos, tx_leaked,
                 rx_leaked, netVars, expired>>

\* check_eth_hdr, check_ip_hdr and the comparisons after them.
Matches(p) ==
  p # Other /\ flow_src_port(p.sample) = flow_src_port(correct_echos)

\* The mbufs of a burst that are not freed: all but the first.
Unfreed(nb_rx) == nb_rx - 1

\* Mutant: the client gives up waiting before the time is up.
WaitGivesUp ==
  /\ pc = "wait"
  /\ pc' \in {"poll", "loop"}
  /\ UNCHANGED <<requests, snd_times, rcv_times, incorrect_echos, tx_leaked,
                 rx_leaked, netVars, expired>>

\* Mutant: only an echo ends the waiting loop.
WaitNeverEnds ==
  /\ pc = "wait"
  /\ pc' = "poll"
  /\ UNCHANGED <<requests, snd_times, rcv_times, incorrect_echos, tx_leaked,
                 rx_leaked, netVars, expired>>

\* The condition of the waiting loop.
Wait ==
  /\ pc = "wait"
  /\ pc' = IF expired THEN "loop" ELSE "poll"
  /\ UNCHANGED <<requests, snd_times, rcv_times, incorrect_echos, tx_leaked,
                 rx_leaked, netVars, expired>>

EmptyPoll ==
  /\ pc = "poll"
  /\ rx_ring = <<>>
  /\ pc' = "wait"
  /\ UNCHANGED <<requests, snd_times, rcv_times, incorrect_echos, tx_leaked,
                 rx_leaked, netVars, expired>>

\* A poll that returns packets.  Whatever the first one is, it is freed and
\* the client leaves the waiting loop; the others are neither looked at nor
\* freed.
Poll ==
  /\ pc = "poll"
  /\ \E nb_rx \in 1..Len(rx_ring) :
       /\ nb_rx <= BURST_SIZE
       /\ rx_ring' = SubSeq(rx_ring, nb_rx + 1, Len(rx_ring))
       /\ rx_leaked' = rx_leaked + Unfreed(nb_rx)
  /\ \/ /\ Matches(Head(rx_ring))
        /\ rcv_times' = Append(rcv_times, Head(rx_ring))
        /\ UNCHANGED incorrect_echos
     \/ /\ ~Matches(Head(rx_ring))
        /\ incorrect_echos' = incorrect_echos + 1
        /\ UNCHANGED rcv_times
  /\ pc' = "loop"
  /\ UNCHANGED <<requests, snd_times, tx_leaked, echoing, foreign, expired>>

Client == Loop \/ Send \/ CraftNull \/ Wait \/ EmptyPoll \/ Poll

------------------------------------------------------------------------------
(* What happens around the client.                                         *)

Tick ==
  /\ ~expired
  /\ expired' = TRUE
  /\ UNCHANGED <<clientVars, netVars>>

RxMbufFree == Len(rx_ring) + rx_leaked < RxMbufs

EchoArrives ==
  /\ echoing # <<>> /\ RxMbufFree
  /\ rx_ring' = Append(rx_ring, Head(echoing))
  /\ echoing' = Tail(echoing)
  /\ UNCHANGED <<clientVars, foreign, expired>>

Lose ==
  /\ echoing # <<>>
  /\ echoing' = Tail(echoing)
  /\ UNCHANGED <<clientVars, rx_ring, foreign, expired>>

ForeignArrives ==
  /\ foreign < MaxForeign /\ RxMbufFree
  /\ foreign' = foreign + 1
  /\ rx_ring' = Append(rx_ring, Other)
  /\ UNCHANGED <<clientVars, echoing, expired>>

Next == Client \/ Tick \/ EchoArrives \/ Lose \/ ForeignArrives

Spec == Init /\ [][Next]_vars

------------------------------------------------------------------------------
(* Properties.                                                             *)

TypeOK ==
  /\ pc \in {"loop", "send", "wait", "poll", "done", "crashed"}
  /\ expired \in BOOLEAN
  /\ requests \in 0..MaxRequests
  /\ snd_times \in Seq(Request)
  /\ rcv_times \in Seq(Request)
  /\ incorrect_echos \in Nat
  /\ echoing \in Seq(Request)
  /\ rx_ring \in Seq(Request \union {Other})
  /\ foreign \in 0..MaxForeign
  /\ tx_leaked \in 0..TxMbufs
  /\ rx_leaked \in 0..RxMbufs

\* With nobody else sending, a latency is the time between a request and its
\* own echo, whatever is lost or refused.
SamplesMatch ==
  foreign = 0 => \A k \in 1..correct_echos : rcv_times[k] = snd_times[k]

\* With nobody else sending the client keeps its mbufs, but for the one the NIC
\* would not take, and never crafts a packet in none.
MbufsKept ==
  foreign = 0 => rx_leaked = 0 /\ tx_leaked <= 1 /\ pc # "crashed"

\* The comment in the no_match branch: a packet that is not the echo is freed
\* and the client receives again.
RxAgainAfterNoMatch ==
  [][incorrect_echos' # incorrect_echos => pc' \in {"wait", "poll"}]_vars
==============================================================================
