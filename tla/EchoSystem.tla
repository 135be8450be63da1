------------------------------ MODULE EchoSystem ------------------------------
(***************************************************************************)
(* Both machines: the client of SingleClient, an echo server of which only *)
(* the promise EchoService is known, and the wires between them.  A wire   *)
(* keeps the order of what it carries; the replies of different queues of  *)
(* the server may overtake each other.  Requests are lost when the server  *)
(* drops them, which to the client is as if the wire had, and replies on   *)
(* their way back.                                                         *)
(***************************************************************************)
EXTENDS EchoService, Functions

CONSTANTS
  server,      \* the endpoint of the server
  num_flows, BURST_SIZE, TxMbufs, RxMbufs,
  MaxPings,    \* bound of the model: requests of the latency test
  MaxBulk,     \* bound of the model: packets of the throughput test
  MaxForeign   \* bound of the model: packets from elsewhere

ASSUME SystemAssumption ==
  /\ Traffic = {[src |-> f, dst |-> server] : f \in 0..(num_flows - 1)}
  /\ IsFiniteSet(Queues)
  /\ {num_flows, BURST_SIZE, TxMbufs} \subseteq Nat \ {0}
  /\ {RxMbufs, MaxPings, MaxBulk, MaxForeign} \subseteq Nat
  /\ MaxRequests >= MaxPings + MaxBulk

VARIABLES
  pc, expired, requests, snd_times, rcv_times, incorrect_echos, rx_ring, foreign,
  tx_leaked, rx_leaked,
  tpc, over, next_flow, created_pkts, reqs, tx_sent,
  to_server,  \* the wire to the server
  entered,    \* history: the client's name for the i-th packet in accepted
  returned    \* per queue, how many of its replies are off the wire

\* The client's view: what it sends goes on the wire.
C == INSTANCE SingleClient WITH MaxRequests <- MaxPings, echoing <- to_server

latencyVars == <<pc, requests, snd_times, rcv_times, incorrect_echos, tx_leaked,
                 rx_leaked>>
throughputVars == <<tpc, over, next_flow, created_pkts, reqs, tx_sent>>
clientVars == <<latencyVars, throughputVars, rx_ring, foreign, expired>>
systemVars == <<serviceVars, clientVars, to_server, entered, returned>>

SystemInit ==
  /\ Init
  /\ C!Init
  /\ C!ThroughputInit
  /\ entered = <<>>
  /\ returned = [q \in Queues |-> 0]

------------------------------------------------------------------------------

ClientSteps == C!RunClient /\ UNCHANGED <<serviceVars, entered, returned>>

Header(p) == [src |-> C!flow_src_port(p.sample), dst |-> server]

RequestArrives ==
  /\ to_server # <<>>
  /\ Accept(Header(Head(to_server)))
  /\ to_server' = Tail(to_server)
  /\ entered' = Append(entered, Head(to_server))
  /\ UNCHANGED <<clientVars, returned>>

ServerAnswers(q) == Answer(q) /\ UNCHANGED <<clientVars, to_server, entered, returned>>

\* The next reply of a queue leaves the wire: it reaches the client's port, if
\* an mbuf is free for it, or is lost.
ReplyLeavesWire(q) ==
  /\ returned[q] < Len(replied[q])
  /\ returned' = [returned EXCEPT ![q] = @ + 1]
  /\ \/ /\ C!RxMbufFree
        /\ rx_ring' = Append(rx_ring, entered[replied[q][returned'[q]].id])
     \/ UNCHANGED rx_ring
  /\ UNCHANGED <<serviceVars, latencyVars, throughputVars, foreign, expired>>
  /\ UNCHANGED <<to_server, entered>>

\* The two time limits.
TimePasses ==
  /\ (C!Tick /\ UNCHANGED throughputVars) \/ C!TimeIsOver
  /\ UNCHANGED <<serviceVars, entered, returned>>

ForeignArrives ==
  /\ C!ForeignArrives
  /\ UNCHANGED <<serviceVars, throughputVars, entered, returned>>

SystemNext ==
  \/ ClientSteps \/ TimePasses \/ ForeignArrives
  \/ RequestArrives
  \/ \E q \in Queues : ServerAnswers(q) \/ ReplyLeavesWire(q)

SystemSpec == SystemInit /\ [][SystemNext]_systemVars

\* The client and the server have cores of their own, and time passes.  Nothing
\* is assumed of the wires.
FairSystem ==
  /\ SystemSpec
  /\ WF_systemVars(ClientSteps)
  /\ WF_systemVars(TimePasses)
  /\ \A q \in Queues : WF_systemVars(ServerAnswers(q))

------------------------------------------------------------------------------
(* Properties.                                                             *)

SystemTypeOK ==
  /\ TypeOK
  /\ C!TypeOK
  /\ tpc \in {"idle", "loop", "create", "send", "poll", "done"}
  /\ over \in BOOLEAN
  /\ {next_flow, reqs, tx_sent} \subseteq Nat
  /\ created_pkts \in 0..BURST_SIZE
  /\ returned \in [Queues -> Nat]

\* Per queue, what is in the server or on the wire back.
Underway == [q \in Queues |-> Len(pending[q]) + Len(replied[q]) - returned[q]]

\* Packets the NIC of the client took that are still somewhere, but for those
\* the client has polled.
Outstanding == Len(to_server) + Len(rx_ring) + SumFunction(Underway)

\* With nobody else sending, a latency is the time between a request and its own
\* echo, whatever is lost, refused or dropped on the way.
SamplesMatch == C!SamplesMatch

\* The latency test never has more than one request out, on both machines and
\* both wires, and one more for each packet that came from elsewhere, so that only
\* these can make a poll return several packets of which it looks at one.
OneOutstanding == tpc = "idle" => Outstanding <= 1 + foreign

\* With nobody else sending the client keeps its mbufs through both tests, but
\* for the one the NIC would not take, and never crafts a packet in none.
MbufsKept == C!MbufsKept

\* Whoever else sends, the samples of a flow have echoes of the flow's requests
\* in the order they were sent, none counted twice: RSS keeps a flow on one queue
\* of the server, and the server keeps the order within it.
EchoesInFlowOrder ==
  \A i, j \in 1..Len(rcv_times) :
    i < j /\ C!flow_src_port(i - 1) = C!flow_src_port(j - 1)
      => rcv_times[i].number < rcv_times[j].number

\* The throughput test counts whatever arrives.  What it counts beyond its own
\* packets is at most one late echo of the latency test, and for each packet from
\* elsewhere either that packet or the one late echo more that it has led to.
LateEchoesOnly ==
  tpc # "idle" => reqs + Outstanding <= tx_sent + 1 + foreign

\* Both tests end, even if nothing ever comes back.  Only packets from elsewhere
\* can use up the pool before.
Terminates == <>(tpc = "done" \/ (pc = "crashed" /\ foreign >= TxMbufs))
==============================================================================
