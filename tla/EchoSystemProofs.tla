--------------------------- MODULE EchoSystemProofs ---------------------------
(***************************************************************************)
(* What the client and an echo server satisfy together, for every number   *)
(* of flows, queues and mbufs, every burst size and every RSS mapping.     *)
(*                                                                         *)
(* Of the server only the promise EchoService is used: it is shown first   *)
(* that the composition keeps it.  The rest is one count and three         *)
(* orders: every round of the latency test puts one packet out and polls   *)
(* one, so that what is too many has come from elsewhere (Budget); what is *)
(* out while nobody else sends is the current request (OnlyCurrent); the   *)
(* requests go out by their numbers (Numbered), and those of a flow come   *)
(* back and are taken for samples by them (RingOrder, SampleOrder).        *)
(***************************************************************************)
EXTENDS EchoSystem, EchoServiceProofs, DataLemmas

\* Every sample has its request, and the request that is awaited is noted.
SamplesNoted ==
  /\ Len(rcv_times) <= Len(snd_times)
  /\ pc \in {"wait", "poll"} => Len(snd_times) = Len(rcv_times) + 1

\* One test after the other.
Phases ==
  /\ tpc # "idle" => pc = "done"
  /\ tpc = "idle" => reqs = 0 /\ tx_sent = 0

\* What the client's variables can hold, and how far its counters reach.
ClientTypes ==
  /\ C!TypeOK
  /\ tpc \in {"idle", "loop", "create", "send", "poll", "done"}
  /\ over \in BOOLEAN
  /\ {next_flow, reqs, tx_sent} \subseteq Nat
  /\ created_pkts \in 0..BURST_SIZE
  /\ pc = "send" => requests < MaxPings
  /\ Len(rx_ring) + rx_leaked <= RxMbufs
  /\ created_pkts <= next_flow
  /\ SamplesNoted
  /\ Phases

\* The history names what has entered, and no more replies leave a wire than the
\* server has put on it.
History ==
  /\ entered \in Seq(C!Request)
  /\ Len(entered) = Len(accepted)
  /\ \A i \in 1..Len(entered) : accepted[i] = Header(entered[i])
  /\ returned \in [Queues -> Nat]
  /\ \A q \in Queues : returned[q] <= Len(replied[q])

Typed == Inv /\ ClientTypes /\ History

\* One request is out while the client waits, and may stay out if the time ends
\* the waiting.
Slack == IF pc \in {"wait", "poll", "done"} \/ (pc = "loop" /\ expired) THEN 1 ELSE 0

\* What is out, or has been lost, or has been counted by the throughput test, was
\* sent by that test, has come from elsewhere, or is the one request.
Budget ==
  tx_leaked + rx_leaked + reqs + Outstanding <= tx_sent + foreign + Slack

\* With nobody else sending no poll returns a second packet, and at most one
\* request is refused.
Kept == foreign = 0 => rx_leaked = 0 /\ tx_leaked <= 1 /\ pc # "crashed"

\* p is the request of the current round.
Current(p) ==
  /\ Len(snd_times) = Len(rcv_times) + 1
  /\ p = snd_times[Len(rcv_times) + 1]

\* With nobody else sending all that is out is the current request.
OnlyCurrent ==
  foreign = 0 /\ tpc = "idle" =>
    /\ \A i \in 1..Len(to_server) : Current(to_server[i])
    /\ \A i \in 1..Len(rx_ring) : Current(rx_ring[i])
    /\ \A q \in Queues :
         /\ \A i \in 1..Len(pending[q]) : Current(entered[pending[q][i].id])
         /\ \A j \in 1..Len(replied[q]) :
              j > returned[q] => Current(entered[replied[q][j].id])

\* The requests are numbered in the order they go to the server.
Numbered ==
  tpc = "idle" =>
    /\ \A i \in 1..Len(to_server) : to_server[i].number <= requests
    /\ \A i \in 1..Len(to_server) : \A j \in 1..(i - 1) :
         to_server[j].number < to_server[i].number
    /\ \A i \in 1..Len(entered) : entered[i].number <= requests
    /\ \A i \in 1..Len(entered) : \A j \in 1..(i - 1) :
         entered[j].number < entered[i].number
    /\ \A i \in 1..Len(entered) : \A j \in 1..Len(to_server) :
         entered[i].number < to_server[j].number

\* p is a packet that has come back.
Back(p) ==
  \E q \in Queues : \E j \in 1..returned[q] : p = entered[replied[q][j].id]

SameFlow(p, q) == C!flow_src_port(p.sample) = C!flow_src_port(q.sample)

\* What the client has received and not polled yet has come back, but for what has
\* come from elsewhere, and a flow is in order in it.
RingOrder ==
  tpc = "idle" =>
    \A i \in 1..Len(rx_ring) : rx_ring[i] # C!Other =>
      /\ Back(rx_ring[i])
      /\ \A k \in 1..Len(rcv_times) :
           SameFlow(rcv_times[k], rx_ring[i]) => rcv_times[k].number < rx_ring[i].number
      /\ \A k \in 1..(i - 1) :
           rx_ring[k] # C!Other /\ SameFlow(rx_ring[k], rx_ring[i])
             => rx_ring[k].number < rx_ring[i].number

\* The samples are echoes of their own flow, in order.
SampleOrder ==
  \A i \in 1..Len(rcv_times) :
    /\ tpc = "idle" => Back(rcv_times[i])
    /\ C!flow_src_port(rcv_times[i].sample) = C!flow_src_port(i - 1)
    /\ \A k \in 1..(i - 1) :
         SameFlow(rcv_times[k], rcv_times[i])
           => rcv_times[k].number < rcv_times[i].number

------------------------------------------------------------------------------
(* The server's part of a step is a step of EchoService.                   *)

\* What the client sends has a header the server knows.
LEMMA HeaderInTraffic ==
  ASSUME NEW p \in C!Request
  PROVE  Header(p) \in Traffic
<1>1. p.sample \in Nat /\ num_flows \in Nat \ {0}
  BY SystemAssumption DEF C!Request
<1>2. p.sample % num_flows \in 0..(num_flows - 1)
  BY <1>1
<1> QED
  BY <1>2, SystemAssumption DEF Header, C!flow_src_port

\* A packet enters, packets leave, or nothing happens to the service.
LEMMA StepRefines ==
  ASSUME to_server \in Seq(C!Request), [SystemNext]_systemVars
  PROVE  [Next]_serviceVars
<1>1. CASE ClientSteps \/ TimePasses \/ ForeignArrives \/ UNCHANGED systemVars
  BY <1>1 DEF ClientSteps, TimePasses, ForeignArrives, systemVars, serviceVars
<1>2. CASE RequestArrives
  <2>1. Head(to_server) \in C!Request
    BY <1>2, HeadTailProperties DEF RequestArrives
  <2>2. Header(Head(to_server)) \in Traffic
    BY <2>1, HeaderInTraffic
  <2> QED
    BY <1>2, <2>2 DEF RequestArrives, Next
<1>3. ASSUME NEW q \in Queues, ServerAnswers(q) PROVE Next
  BY <1>3 DEF ServerAnswers, Next
<1>4. ASSUME NEW q \in Queues, ReplyLeavesWire(q) PROVE UNCHANGED serviceVars
  BY <1>4 DEF ReplyLeavesWire
<1> QED
  BY <1>1, <1>2, <1>3, <1>4 DEF SystemNext

------------------------------------------------------------------------------
(* What the variables can hold.                                            *)

\* Whatever the service does, its invariant holds after it.
LEMMA ServiceTyped ==
  ASSUME Typed, [SystemNext]_systemVars
  PROVE  Inv'
<1>1. Inv /\ to_server \in Seq(C!Request)
  BY DEF Typed, ClientTypes, C!TypeOK
<1> QED
  BY <1>1, StepRefines, NextInv

\* A request the client crafts is one.
LEMMA CraftedTyped ==
  ASSUME C!TypeOK
  PROVE  /\ C!Crafted \in C!Request
         /\ Len(rcv_times) \in Nat
         /\ C!Crafted = [number |-> requests + 1, sample |-> Len(rcv_times)]
<1>1. requests \in Nat /\ Len(rcv_times) \in Nat
  BY LenProperties, SystemAssumption DEF C!TypeOK
<1> QED
  BY <1>1 DEF C!Crafted, C!Request, C!correct_echos

\* What is noted when a request is sent: the request, after the ones that have
\* led to a sample.
LEMMA Noted ==
  ASSUME C!TypeOK, Len(rcv_times) <= Len(snd_times), C!NoteSent
  PROVE  /\ snd_times' \in Seq(C!Request)
         /\ Len(snd_times') = Len(rcv_times) + 1
         /\ \A k \in 1..Len(rcv_times) : snd_times'[k] = snd_times[k]
         /\ snd_times'[Len(rcv_times) + 1] = C!Crafted
<1> DEFINE s == SubSeq(snd_times, 1, Len(rcv_times))
<1>1. /\ snd_times \in Seq(C!Request) /\ Len(snd_times) \in Nat
      /\ Len(rcv_times) \in Nat /\ C!Crafted \in C!Request
  BY CraftedTyped, LenProperties DEF C!TypeOK
<1>2. /\ s \in Seq(C!Request) /\ Len(s) = Len(rcv_times)
      /\ \A k \in 1..Len(rcv_times) : s[k] = snd_times[k]
  <2>1. \A i \in 1..Len(rcv_times) : snd_times[i] \in C!Request
    BY <1>1, ElementOfSeq
  <2> DEFINE n == Len(rcv_times)
  <2> HIDE DEF n
  <2>2. CASE 1 <= n
    <3>1. /\ SubSeq(snd_times, 1, n) \in Seq(C!Request)
          /\ Len(SubSeq(snd_times, 1, n)) = n - 1 + 1
          /\ \A i \in 1..(n - 1 + 1) : SubSeq(snd_times, 1, n)[i] = snd_times[1 + i - 1]
      BY <1>1, <2>1, <2>2, SubSeqProperties DEF n
    <3> QED
      BY <1>1, <3>1 DEF n
  <2>3. CASE ~(1 <= n)
    <3>1. n = 0
      BY <1>1, <2>3 DEF n
    <3>2. SubSeq(snd_times, 1, n) = <<>>
      BY <1>1, <3>1, SubSeqEmpty
    <3> QED
      BY <3>1, <3>2 DEF n
  <2> QED
    BY <2>2, <2>3
<1>3. snd_times' = Append(s, C!Crafted)
  BY DEF C!NoteSent, C!correct_echos
<1> HIDE DEF s
<1> QED
  BY <1>1, <1>2, <1>3, AppendProperties

\* The latency test keeps its types.
LEMMA LatencyTyped ==
  ASSUME ClientTypes, C!Client, UNCHANGED throughputVars
  PROVE  ClientTypes'
<1>0. /\ Len(snd_times) \in Nat /\ Len(rcv_times) \in Nat /\ Len(rx_ring) \in Nat
      /\ TxMbufs \in Nat /\ RxMbufs \in Nat /\ MaxPings \in Nat
  BY LenProperties, SystemAssumption DEF ClientTypes, C!TypeOK
<1>t. /\ tpc' = tpc /\ over' = over /\ next_flow' = next_flow
      /\ created_pkts' = created_pkts /\ reqs' = reqs /\ tx_sent' = tx_sent
  BY DEF throughputVars
<1>p. Phases'
  <2>1. tpc # "idle" => FALSE
    BY DEF ClientTypes, Phases, C!Client, C!Loop, C!Send, C!CraftNull, C!Wait,
           C!EmptyPoll, C!Poll
  <2> QED
    BY <1>t, <2>1 DEF ClientTypes, Phases
<1>1. CASE C!Loop
  BY <1>0, <1>1, <1>t, <1>p DEF ClientTypes, C!TypeOK, C!Loop, C!netVars, SamplesNoted
<1>2. CASE C!Send
  <2>1. /\ snd_times' \in Seq(C!Request) /\ Len(snd_times') = Len(rcv_times) + 1
    BY <1>2, Noted DEF ClientTypes, C!Send, SamplesNoted
  <2>2. to_server' \in Seq(C!Request)
    <3>1. C!Crafted \in C!Request
      BY CraftedTyped DEF ClientTypes
    <3>2. to_server \in Seq(C!Request)
      BY DEF ClientTypes, C!TypeOK
    <3>3. to_server' \in {to_server, Append(to_server, C!Crafted)}
      BY <1>2 DEF C!Send
    <3> QED
      BY <3>1, <3>2, <3>3, AppendProperties
  <2>3. requests < MaxPings /\ tx_leaked' \in 0..TxMbufs
    BY <1>0, <1>2, SMTT(30) DEF ClientTypes, C!TypeOK, C!Send
  <2> QED
    BY <1>0, <1>2, <1>t, <1>p, <2>1, <2>2, <2>3
    DEF ClientTypes, C!TypeOK, C!Send, SamplesNoted
<1>3. CASE C!CraftNull
  BY <1>0, <1>3, <1>t, <1>p
  DEF ClientTypes, C!TypeOK, C!CraftNull, C!netVars, SamplesNoted
<1>4. CASE C!Wait
  BY <1>0, <1>4, <1>t, <1>p DEF ClientTypes, C!TypeOK, C!Wait, C!netVars, SamplesNoted
<1>5. CASE C!EmptyPoll
  BY <1>0, <1>5, <1>t, <1>p
  DEF ClientTypes, C!TypeOK, C!EmptyPoll, C!netVars, SamplesNoted
<1>6. CASE C!Poll
  <2>1. PICK nb_rx \in 1..Len(rx_ring) :
          /\ nb_rx <= BURST_SIZE
          /\ rx_ring' = SubSeq(rx_ring, nb_rx + 1, Len(rx_ring))
          /\ rx_leaked' = rx_leaked + (nb_rx - 1)
    BY <1>6 DEF C!Poll, C!Unfreed
  <2>2. rx_ring' \in Seq(C!Request \union {C!Other}) /\ Len(rx_ring') = Len(rx_ring) - nb_rx
    BY <1>0, <2>1, CutFront, SMTT(30) DEF ClientTypes, C!TypeOK
  <2>3. rcv_times' \in Seq(C!Request) /\ Len(rcv_times') \in {Len(rcv_times), Len(rcv_times) + 1}
    <3>1. CASE rcv_times' = Append(rcv_times, Head(rx_ring)) /\ C!Matches(Head(rx_ring))
      <4>1. Head(rx_ring) \in C!Request
        <5>1. Head(rx_ring) \in C!Request \union {C!Other}
          BY <1>0, <2>1, HeadTailProperties, EmptySeq DEF ClientTypes, C!TypeOK
        <5> QED
          BY <3>1, <5>1 DEF C!Matches
      <4> QED
        BY <3>1, <4>1, AppendProperties DEF ClientTypes, C!TypeOK
    <3>2. CASE rcv_times' = rcv_times
      BY <3>2 DEF ClientTypes, C!TypeOK
    <3> QED
      BY <1>6, <3>1, <3>2 DEF C!Poll
  <2>4. rx_leaked' \in 0..RxMbufs /\ Len(rx_ring') + rx_leaked' <= RxMbufs
    <3>1. rx_leaked \in 0..RxMbufs /\ Len(rx_ring) + rx_leaked <= RxMbufs
      BY DEF ClientTypes, C!TypeOK
    <3>2. rx_leaked' = rx_leaked + (nb_rx - 1) /\ nb_rx \in 1..Len(rx_ring)
      BY <2>1
    <3>3. Len(rx_ring') = Len(rx_ring) - nb_rx
      BY <2>2
    <3> QED
      BY <1>0, <3>1, <3>2, <3>3
  <2>5. incorrect_echos' \in Nat
    <3>1. incorrect_echos' \in {incorrect_echos, incorrect_echos + 1}
      BY <1>6 DEF C!Poll
    <3>2. incorrect_echos \in Nat
      BY DEF ClientTypes, C!TypeOK
    <3> QED
      BY <3>1, <3>2
  <2>6. Len(rcv_times') <= Len(snd_times')
    BY <1>0, <1>6, <2>3 DEF ClientTypes, C!Poll, SamplesNoted
  <2> QED
    BY <1>6, <1>t, <1>p, <2>2, <2>3, <2>4, <2>5, <2>6
    DEF ClientTypes, C!TypeOK, C!Poll, SamplesNoted
<1> QED
  BY <1>1, <1>2, <1>3, <1>4, <1>5, <1>6 DEF C!Client

\* A burst of the throughput test is a sequence of packets.
LEMMA BurstTyped ==
  ASSUME ClientTypes, NEW nb_tx \in 0..created_pkts
  PROVE  LET burst == [i \in 1..nb_tx |-> C!Bulk(next_flow - created_pkts + i - 1)]
         IN  burst \in Seq(C!Request) /\ Len(burst) = nb_tx
<1>1. /\ nb_tx \in Nat /\ created_pkts \in Nat /\ next_flow \in Nat
      /\ created_pkts <= next_flow /\ MaxPings \in Nat
  BY SystemAssumption DEF ClientTypes
<1> DEFINE burst == [i \in 1..nb_tx |-> C!Bulk(next_flow - created_pkts + i - 1)]
<1>2. \A i \in 1..nb_tx : burst[i] \in C!Request
  BY <1>1 DEF C!Bulk, C!Request
<1>3. burst \in [1..nb_tx -> C!Request]
  BY <1>2
<1> HIDE DEF burst
<1>4. burst \in Seq(C!Request)
  BY <1>1, <1>3, SeqDef
<1>5. Len(burst) = nb_tx
  BY <1>1, <1>3, <1>4, LenProperties
<1> QED
  BY <1>4, <1>5 DEF burst

\* The throughput test keeps its types, and does not touch what the latency test
\* has left.
LEMMA ThroughputTyped ==
  ASSUME ClientTypes, C!ThroughputTest
  PROVE  ClientTypes'
<1>0. /\ Len(rx_ring) \in Nat /\ created_pkts \in Nat /\ BURST_SIZE \in Nat
      /\ next_flow \in Nat /\ rx_leaked \in Nat /\ RxMbufs \in Nat
      /\ reqs \in Nat /\ tx_sent \in Nat
  BY LenProperties, SystemAssumption DEF ClientTypes, C!TypeOK
<1>1. CASE C!StartThroughput
  BY <1>1 DEF ClientTypes, C!TypeOK, C!StartThroughput, C!vars, C!clientVars, C!netVars,
              SamplesNoted, Phases
<1>2. CASE C!LookAtTime
  BY <1>2 DEF ClientTypes, C!TypeOK, C!LookAtTime, C!vars, C!clientVars, C!netVars,
              SamplesNoted, Phases
<1>3. CASE C!CreateBurst
  <2>1. PICK n \in 0..BURST_SIZE : created_pkts' = n /\ next_flow' = next_flow + n
    BY <1>3 DEF C!CreateBurst
  <2>2. /\ created_pkts' \in 0..BURST_SIZE /\ next_flow' \in Nat
        /\ created_pkts' <= next_flow'
    BY <1>0, <2>1
  <2> QED
    BY <1>3, <2>2 DEF ClientTypes, C!TypeOK, C!CreateBurst, C!vars, C!clientVars,
                      C!netVars, SamplesNoted, Phases
<1>4. CASE C!SendBurst
  <2>1. PICK nb_tx \in 0..created_pkts :
          /\ to_server' = to_server \o
               [i \in 1..nb_tx |-> C!Bulk(next_flow - created_pkts + i - 1)]
          /\ tx_sent' = tx_sent + nb_tx
    BY <1>4 DEF C!SendBurst
  <2>2. to_server' \in Seq(C!Request)
    BY <2>1, BurstTyped, ConcatProperties DEF ClientTypes, C!TypeOK
  <2>3. tx_sent' \in Nat
    BY <1>0, <2>1
  <2>4. created_pkts' \in 0..BURST_SIZE /\ created_pkts' <= next_flow'
    BY <1>0, <1>4 DEF C!SendBurst
  <2> QED
    BY <1>4, <2>2, <2>3, <2>4 DEF ClientTypes, C!TypeOK, C!SendBurst, C!clientVars,
                      SamplesNoted, Phases
<1>5. CASE C!PollBurst
  <2>1. PICK nb_rx \in 0..BURST_SIZE :
          /\ nb_rx <= Len(rx_ring)
          /\ rx_ring' = SubSeq(rx_ring, nb_rx + 1, Len(rx_ring))
          /\ reqs' = reqs + nb_rx
    BY <1>5 DEF C!PollBurst
  <2>2. nb_rx \in 0..Len(rx_ring)
    BY <1>0, <2>1
  <2>3. /\ rx_ring' \in Seq(C!Request \union {C!Other})
        /\ Len(rx_ring') = Len(rx_ring) - nb_rx
    BY <2>1, <2>2, CutFront DEF ClientTypes, C!TypeOK
  <2>4. reqs' \in Nat
    BY <1>0, <2>1
  <2>5. Len(rx_ring') + rx_leaked <= RxMbufs
    <3>1. Len(rx_ring) + rx_leaked <= RxMbufs
      BY DEF ClientTypes
    <3>2. Len(rx_ring') = Len(rx_ring) - nb_rx
      BY <2>3
    <3> QED
      BY <1>0, <2>2, <3>1, <3>2
  <2> QED
    BY <1>5, <2>3, <2>4, <2>5 DEF ClientTypes, C!TypeOK, C!PollBurst, C!clientVars,
                      SamplesNoted, Phases
<1> QED
  BY <1>1, <1>2, <1>3, <1>4, <1>5 DEF C!ThroughputTest

\* Neither does what happens around the client.
LEMMA AroundTyped ==
  ASSUME ClientTypes, TimePasses \/ ForeignArrives
  PROVE  ClientTypes'
<1>1. CASE C!Tick /\ UNCHANGED throughputVars
  BY <1>1 DEF ClientTypes, C!TypeOK, C!Tick, C!clientVars, C!netVars, throughputVars,
              SamplesNoted, Phases
<1>2. CASE C!TimeIsOver
  BY <1>2 DEF ClientTypes, C!TypeOK, C!TimeIsOver, C!vars, C!clientVars, C!netVars,
              SamplesNoted, Phases
<1>3. CASE ForeignArrives
  <2>1. /\ foreign < MaxForeign /\ foreign' = foreign + 1
        /\ rx_ring' = Append(rx_ring, C!Other)
        /\ Len(rx_ring) + rx_leaked < RxMbufs
    BY <1>3 DEF ForeignArrives, C!ForeignArrives, C!RxMbufFree
  <2>2. /\ rx_ring \in Seq(C!Request \union {C!Other}) /\ foreign \in 0..MaxForeign
        /\ rx_leaked \in Nat /\ Len(rx_ring) \in Nat
        /\ MaxForeign \in Nat /\ RxMbufs \in Nat
    BY LenProperties, SystemAssumption DEF ClientTypes, C!TypeOK
  <2>3. /\ rx_ring' \in Seq(C!Request \union {C!Other})
        /\ Len(rx_ring') = Len(rx_ring) + 1
    BY <2>1, <2>2, AppendProperties
  <2>4. Len(rx_ring') + rx_leaked <= RxMbufs /\ foreign' \in 0..MaxForeign
    BY <2>1, <2>2, <2>3
  <2> QED
    BY <1>3, <2>3, <2>4
    DEF ClientTypes, C!TypeOK, ForeignArrives, C!ForeignArrives, C!clientVars,
        throughputVars, SamplesNoted, Phases
<1> QED
  BY <1>1, <1>2, <1>3 DEF TimePasses

\* Nor does the wire to the server.
LEMMA RequestTyped ==
  ASSUME ClientTypes, RequestArrives
  PROVE  ClientTypes'
<1>1. to_server' \in Seq(C!Request)
  BY HeadTailProperties DEF RequestArrives, ClientTypes, C!TypeOK
<1> QED
  BY <1>1 DEF RequestArrives, ClientTypes, C!TypeOK, clientVars, latencyVars,
              throughputVars, SamplesNoted, Phases

\* How the server takes a request off the wire.
LEMMA RequestEffect ==
  ASSUME Typed, RequestArrives
  PROVE  LET p == Head(to_server)
             q == Rss[Header(p)]
             n == Len(entered) + 1
         IN  /\ p \in C!Request /\ q \in Queues /\ Header(p) \in Traffic
             /\ Len(to_server) \in Nat \ {0} /\ p = to_server[1]
             /\ Len(to_server') = Len(to_server) - 1
             /\ \A i \in 1..Len(to_server') : to_server'[i] = to_server[i + 1]
             /\ entered' \in Seq(C!Request) /\ Len(entered') = n /\ entered'[n] = p
             /\ \A i \in 1..Len(entered) : entered'[i] = entered[i]
             /\ Len(accepted') = n /\ accepted'[n] = Header(p)
             /\ \A i \in 1..Len(accepted) : accepted'[i] = accepted[i]
             /\ Len(pending'[q]) = Len(pending[q]) + 1
             /\ \A i \in 1..Len(pending[q]) : pending'[q][i] = pending[q][i]
             /\ pending'[q][Len(pending[q]) + 1].id = n
             /\ \A r \in Queues \ {q} : pending'[r] = pending[r]
<1> DEFINE p == Head(to_server)
           h == Header(p)
           q == Rss[h]
           n == Len(entered) + 1
           e == Request(Len(accepted) + 1, h)
<1>1. /\ to_server \in Seq(C!Request) /\ to_server # <<>>
      /\ accepted \in Seq(Traffic) /\ entered \in Seq(C!Request)
      /\ pending \in [Queues -> Seq(Message)]
      /\ Len(entered) = Len(accepted) /\ Len(accepted) \in Nat
  BY LenProperties
  DEF Typed, Inv, TypeOK, ClientTypes, C!TypeOK, History, RequestArrives
<1>2. /\ p \in C!Request
      /\ Len(to_server) \in Nat \ {0} /\ p = to_server[1]
      /\ Len(Tail(to_server)) = Len(to_server) - 1
      /\ \A i \in 1..Len(Tail(to_server)) : Tail(to_server)[i] = to_server[i + 1]
  BY <1>1, HeadTailProperties, EmptySeq
<1>3. h \in Traffic /\ q \in Queues
  BY <1>2, HeaderInTraffic, ServiceAssumption
<1>4. /\ entered' = Append(entered, p) /\ to_server' = Tail(to_server)
      /\ accepted' = Append(accepted, h)
      /\ pending' = [pending EXCEPT ![q] = Append(@, e)]
  BY DEF RequestArrives, Accept
<1>5. e \in Message /\ e.id = n
  BY <1>1, <1>3 DEF Request, Message, Ends
<1>6. pending[q] \in Seq(Message) /\ pending'[q] = Append(pending[q], e)
  BY <1>1, <1>3, <1>4
<1>7. \A r \in Queues \ {q} : pending'[r] = pending[r]
  BY <1>1, <1>4
<1> HIDE DEF e, q, h, p
<1>8. /\ Len(pending'[q]) = Len(pending[q]) + 1
      /\ \A i \in 1..Len(pending[q]) : pending'[q][i] = pending[q][i]
      /\ pending'[q][Len(pending[q]) + 1] = e
  BY <1>5, <1>6, AppendProperties
<1>9. /\ entered' \in Seq(C!Request) /\ Len(entered') = n /\ entered'[n] = p
      /\ \A i \in 1..Len(entered) : entered'[i] = entered[i]
  BY <1>1, <1>2, <1>4, AppendProperties
<1>10. /\ Len(accepted') = n /\ accepted'[n] = h
       /\ \A i \in 1..Len(accepted) : accepted'[i] = accepted[i]
  BY <1>1, <1>3, <1>4, AppendProperties
<1> QED
  BY <1>2, <1>3, <1>4, <1>5, <1>7, <1>8, <1>9, <1>10 DEF e, q, h, p

\* How a reply leaves the wire.
LEMMA ReplyEffect ==
  ASSUME Typed, NEW q \in Queues, ReplyLeavesWire(q)
  PROVE  LET n == returned[q] + 1
             p == entered[replied[q][n].id]
         IN  /\ n \in 1..Len(replied[q]) /\ Len(replied[q]) \in Nat
             /\ replied[q][n].id \in 1..Len(entered)
             /\ p \in C!Request
             /\ returned' \in [Queues -> Nat] /\ returned'[q] = n
             /\ \A r \in Queues \ {q} : returned'[r] = returned[r]
             /\ \/ rx_ring' = rx_ring
                \/ /\ Len(rx_ring) + rx_leaked < RxMbufs
                   /\ rx_ring' \in Seq(C!Request \union {C!Other})
                   /\ Len(rx_ring') = Len(rx_ring) + 1
                   /\ \A i \in 1..Len(rx_ring) : rx_ring'[i] = rx_ring[i]
                   /\ rx_ring'[Len(rx_ring) + 1] = p
<1> DEFINE n == returned[q] + 1
           p == entered[replied[q][n].id]
<1>1. /\ returned \in [Queues -> Nat] /\ entered \in Seq(C!Request)
      /\ replied[q] \in Seq(Message) /\ Len(replied[q]) \in Nat
      /\ Len(entered) = Len(accepted)
      /\ rx_ring \in Seq(C!Request \union {C!Other})
  BY LenProperties DEF Typed, Inv, TypeOK, History, ClientTypes, C!TypeOK
<1>2. n \in 1..Len(replied[q])
  BY <1>1 DEF ReplyLeavesWire
<1>3. replied[q][n].id \in 1..Len(entered)
  BY <1>1, <1>2 DEF Typed, Inv, Answered
<1>4. p \in C!Request
  BY <1>1, <1>3, ElementOfSeq
<1>5. returned' = [returned EXCEPT ![q] = @ + 1] /\ returned'[q] = n
  BY <1>1 DEF ReplyLeavesWire
<1>6. /\ returned' \in [Queues -> Nat]
      /\ \A r \in Queues \ {q} : returned'[r] = returned[r]
  BY <1>1, <1>5
<1>7. \/ rx_ring' = rx_ring
      \/ /\ Len(rx_ring) + rx_leaked < RxMbufs
         /\ rx_ring' = Append(rx_ring, entered[replied[q][returned'[q]].id])
  BY DEF ReplyLeavesWire, C!RxMbufFree
<1>8. \/ rx_ring' = rx_ring
      \/ /\ Len(rx_ring) + rx_leaked < RxMbufs
         /\ rx_ring' = Append(rx_ring, p)
  BY <1>5, <1>7
<1> HIDE DEF n, p
<1> QED
  <2>1. ASSUME rx_ring' = Append(rx_ring, p)
        PROVE  /\ rx_ring' \in Seq(C!Request \union {C!Other})
               /\ Len(rx_ring') = Len(rx_ring) + 1
               /\ \A i \in 1..Len(rx_ring) : rx_ring'[i] = rx_ring[i]
               /\ rx_ring'[Len(rx_ring) + 1] = p
    BY <1>1, <1>4, <2>1, AppendProperties
  <2> QED
    BY <1>1, <1>2, <1>3, <1>4, <1>5, <1>6, <1>8, <2>1 DEF n, p

\* A reply in the ring is a packet the client has sent.
LEMMA ReplyTyped ==
  ASSUME Typed, NEW q \in Queues, ReplyLeavesWire(q)
  PROVE  ClientTypes'
<1>1. /\ rx_ring' \in Seq(C!Request \union {C!Other})
      /\ Len(rx_ring') + rx_leaked <= RxMbufs
  <2>1. /\ Len(rx_ring) \in Nat /\ rx_leaked \in Nat /\ RxMbufs \in Nat
        /\ Len(rx_ring) + rx_leaked <= RxMbufs
        /\ rx_ring \in Seq(C!Request \union {C!Other})
    BY LenProperties, SystemAssumption DEF Typed, ClientTypes, C!TypeOK
  <2>2. \/ rx_ring' = rx_ring
        \/ /\ Len(rx_ring) + rx_leaked < RxMbufs
           /\ rx_ring' \in Seq(C!Request \union {C!Other})
           /\ Len(rx_ring') = Len(rx_ring) + 1
    BY ReplyEffect
  <2> QED
    BY <2>1, <2>2
<1> QED
  BY <1>1 DEF ReplyLeavesWire, Typed, ClientTypes, C!TypeOK, latencyVars,
              throughputVars, SamplesNoted, Phases

\* Nobody but the wires changes the history, and an answer only adds to the replies.
LEMMA HistoryKept ==
  ASSUME Typed, [SystemNext]_systemVars
  PROVE  History'
<1>1. CASE ClientSteps \/ TimePasses \/ ForeignArrives \/ UNCHANGED systemVars
  <2>1. UNCHANGED <<accepted, replied, entered, returned>>
    BY <1>1 DEF ClientSteps, TimePasses, ForeignArrives, systemVars, serviceVars
  <2> QED
    BY <2>1 DEF Typed, History, Header, C!flow_src_port
<1>2. CASE RequestArrives
  <2> DEFINE p == Head(to_server)
  <2>1. /\ entered' \in Seq(C!Request) /\ Len(entered') = Len(entered) + 1
        /\ entered'[Len(entered) + 1] = p
        /\ \A i \in 1..Len(entered) : entered'[i] = entered[i]
        /\ Len(accepted') = Len(entered) + 1
        /\ accepted'[Len(entered) + 1] = Header(p)
        /\ \A i \in 1..Len(accepted) : accepted'[i] = accepted[i]
    BY <1>2, RequestEffect
  <2>2. /\ returned' = returned /\ replied' = replied
    BY <1>2 DEF RequestArrives, Accept
  <2>3. /\ Len(entered) \in Nat /\ Len(accepted) = Len(entered)
        /\ \A i \in 1..Len(entered) : accepted[i] = Header(entered[i])
    BY LenProperties DEF Typed, History
  <2> HIDE DEF p
  <2>4. \A i \in 1..Len(entered') : accepted'[i] = Header(entered'[i])
    <3> SUFFICES ASSUME NEW i \in 1..Len(entered')
                 PROVE  accepted'[i] = Header(entered'[i])
      OBVIOUS
    <3>1. i \in 1..Len(entered) \/ i = Len(entered) + 1
      BY <2>1, <2>3
    <3> QED
      BY <2>1, <2>3, <3>1
  <2>5. /\ returned' \in [Queues -> Nat]
        /\ \A q \in Queues : returned'[q] <= Len(replied'[q])
    BY <2>2 DEF Typed, History
  <2>6. \A x : Header(x)' = Header(x)
    BY DEF Header, C!flow_src_port
  <2> QED
    BY <2>1, <2>4, <2>5, <2>6 DEF History
<1>3. ASSUME NEW q \in Queues, ServerAnswers(q) PROVE History'
  <2>1. /\ accepted' = accepted /\ entered' = entered /\ returned' = returned
    BY <1>3 DEF ServerAnswers, Answer
  <2>2. \A r \in Queues : returned[r] <= Len(replied'[r])
    <3> SUFFICES ASSUME NEW r \in Queues PROVE returned[r] <= Len(replied'[r])
      OBVIOUS
    <3>1. /\ Answer(q) /\ TypeOK /\ returned[r] \in Nat /\ Len(replied[r]) \in Nat
          /\ returned[r] <= Len(replied[r])
      BY <1>3, LenProperties DEF ServerAnswers, Typed, Inv, TypeOK, History
    <3>2. CASE r # q
      BY <3>1, <3>2, AnswerEffect
    <3>3. CASE r = q
      <4>1. PICK n \in 1..Len(pending[q]) : \E k \in 0..n :
              Len(replied'[q]) = Len(replied[q]) + k
        BY <3>1, AnswerEffect
      <4>2. PICK k \in 0..n : Len(replied'[q]) = Len(replied[q]) + k
        BY <4>1
      <4> QED
        BY <3>1, <3>3, <4>2
    <3> QED
      BY <3>2, <3>3
  <2> QED
    BY <2>1, <2>2 DEF Typed, History, Header, C!flow_src_port
<1>4. ASSUME NEW q \in Queues, ReplyLeavesWire(q) PROVE History'
  <2>1. /\ accepted' = accepted /\ entered' = entered /\ replied' = replied
    BY <1>4 DEF ReplyLeavesWire, serviceVars
  <2>2. /\ returned[q] + 1 \in 1..Len(replied[q]) /\ Len(replied[q]) \in Nat
        /\ returned' \in [Queues -> Nat] /\ returned'[q] = returned[q] + 1
        /\ \A r \in Queues \ {q} : returned'[r] = returned[r]
    BY <1>4, ReplyEffect
  <2>3. \A r \in Queues : returned'[r] <= Len(replied[r])
    BY <2>2, SMTT(30) DEF Typed, History
  <2> QED
    BY <2>1, <2>2, <2>3 DEF Typed, History, Header, C!flow_src_port
<1> QED
  BY <1>1, <1>2, <1>3, <1>4 DEF SystemNext

\* Every step keeps all types.
LEMMA TypedKept ==
  ASSUME Typed, [SystemNext]_systemVars
  PROVE  Typed'
<1>0. SUFFICES ClientTypes'
  BY ServiceTyped, HistoryKept DEF Typed
<1>1. ClientTypes
  BY DEF Typed
<1>2. CASE ClientSteps
  BY <1>1, <1>2, LatencyTyped, ThroughputTyped
  DEF ClientSteps, C!RunClient, C!throughputVars, throughputVars
<1>3. CASE TimePasses \/ ForeignArrives
  BY ONLY <1>1, <1>3, AroundTyped
<1>4. CASE RequestArrives
  BY <1>1, <1>4, RequestTyped
<1>5. ASSUME NEW q \in Queues, ServerAnswers(q) PROVE ClientTypes'
  BY <1>1, <1>5 DEF ServerAnswers, ClientTypes, C!TypeOK, clientVars, latencyVars,
                    throughputVars, SamplesNoted, Phases
<1>6. ASSUME NEW q \in Queues, ReplyLeavesWire(q) PROVE ClientTypes'
  BY <1>6, ReplyTyped
<1>7. CASE UNCHANGED systemVars
  BY <1>1, <1>7 DEF systemVars, ClientTypes, C!TypeOK, clientVars, latencyVars,
                    throughputVars, SamplesNoted, Phases
<1> QED
  BY <1>2, <1>3, <1>4, <1>5, <1>6, <1>7 DEF SystemNext

\* The start has them.
LEMMA InitTyped == SystemInit => Typed
<1> SUFFICES ASSUME SystemInit PROVE Typed
  OBVIOUS
<1>1. Inv
  BY InitInv DEF SystemInit
<1>2. ClientTypes
  <2>1. /\ <<>> \in Seq(C!Request) /\ <<>> \in Seq(C!Request \union {C!Other})
        /\ Len(<<>>) = 0
    OBVIOUS
  <2>2. /\ BURST_SIZE \in Nat /\ TxMbufs \in Nat /\ RxMbufs \in Nat
        /\ MaxPings \in Nat /\ MaxForeign \in Nat
    BY SystemAssumption
  <2>3. C!Init /\ C!ThroughputInit
    BY DEF SystemInit
  <2>4. C!TypeOK
    <3>1. 0 \in 0..TxMbufs /\ 0 \in 0..RxMbufs /\ 0 \in 0..MaxPings /\ 0 \in 0..MaxForeign
      BY <2>2
    <3> QED
      BY <2>1, <2>3, <3>1 DEF C!Init, C!TypeOK
  <2>5. 0 \in 0..BURST_SIZE /\ 0 + 0 <= RxMbufs
    BY <2>2
  <2>6. SamplesNoted /\ Phases
    BY <2>1, <2>3 DEF C!Init, C!ThroughputInit, SamplesNoted, Phases
  <2>7. Len(rx_ring) + rx_leaked = 0 + 0 /\ pc # "send"
    BY <2>1, <2>3 DEF C!Init
  <2>8. /\ tpc = "idle" /\ over = FALSE
        /\ next_flow = 0 /\ created_pkts = 0 /\ reqs = 0 /\ tx_sent = 0
    BY <2>3 DEF C!ThroughputInit
  <2>9. /\ {next_flow, reqs, tx_sent} \subseteq Nat /\ created_pkts <= next_flow
        /\ created_pkts \in 0..BURST_SIZE /\ Len(rx_ring) + rx_leaked <= RxMbufs
    BY <2>5, <2>7, <2>8
  <2> QED
    BY <2>4, <2>6, <2>7, <2>8, <2>9 DEF ClientTypes
<1>3. History
  <2>1. /\ entered = <<>> /\ accepted = <<>> /\ returned = [q \in Queues |-> 0]
        /\ replied = [q \in Queues |-> <<>>]
    BY DEF SystemInit, Init
  <2>2. <<>> \in Seq(C!Request) /\ Len(<<>>) = 0 /\ 1..0 = {}
    OBVIOUS
  <2> QED
    BY <2>1, <2>2 DEF History
<1> QED
  BY <1>1, <1>2, <1>3 DEF Typed

\* The composition never leaves the types.
LEMMA AlwaysTyped == SystemSpec => []Typed
  BY InitTyped, TypedKept, PTL DEF SystemSpec

\* The promise of the server stays one with the client in front of it: what the
\* composition does to the service, the service allows.
THEOREM ServiceKept == SystemSpec => Spec
<1>1. SystemInit => Init
  BY DEF SystemInit
<1>2. Typed /\ [SystemNext]_systemVars => [Next]_serviceVars
  BY StepRefines DEF Typed, ClientTypes, C!TypeOK
<1> QED
  BY <1>1, <1>2, AlwaysTyped, PTL DEF SystemSpec, Spec

\* The packets of both machines, the wires and the counters keep their types.
THEOREM SystemTyping == SystemSpec => []SystemTypeOK
<1>1. Typed => SystemTypeOK
  BY DEF Typed, Inv, ClientTypes, History, SystemTypeOK
<1> QED
  BY <1>1, AlwaysTyped, PTL

\* Replies keep the order of the requests of their queue also in the composition,
THEOREM SystemAnswersInOrder == SystemSpec => []InOrder
  BY ServiceKept, AnswersInOrder, PTL

\* and no packet disappears in the server.
THEOREM SystemNothingDisappears == SystemSpec => []Conserved
  BY ServiceKept, NothingDisappears, PTL

------------------------------------------------------------------------------
(* The count of what is out.                                               *)

\* All that is counted is a natural number.
LEMMA CountsTyped ==
  ASSUME Typed
  PROVE  /\ Underway \in [Queues -> Nat] /\ SumFunction(Underway) \in Nat
         /\ Len(to_server) \in Nat /\ Len(rx_ring) \in Nat /\ Len(rcv_times) \in Nat
         /\ tx_leaked \in Nat /\ rx_leaked \in Nat /\ reqs \in Nat /\ tx_sent \in Nat
         /\ foreign \in Nat /\ created_pkts \in Nat
         /\ Outstanding \in Nat
         /\ Outstanding = Len(to_server) + Len(rx_ring) + SumFunction(Underway)
<1>1. Underway \in [Queues -> Nat]
  <2> SUFFICES ASSUME NEW q \in Queues
               PROVE  Len(pending[q]) + Len(replied[q]) - returned[q] \in Nat
    BY DEF Underway
  <2>1. /\ Len(pending[q]) \in Nat /\ Len(replied[q]) \in Nat
        /\ returned[q] \in Nat /\ returned[q] <= Len(replied[q])
    BY LenProperties DEF Typed, Inv, TypeOK, History
  <2> QED
    BY <2>1
<1>2. SumFunction(Underway) \in Nat
  BY <1>1, SumType, SystemAssumption
<1>3. /\ Len(to_server) \in Nat /\ Len(rx_ring) \in Nat /\ Len(rcv_times) \in Nat
      /\ tx_leaked \in Nat /\ rx_leaked \in Nat /\ reqs \in Nat /\ tx_sent \in Nat
      /\ foreign \in Nat /\ created_pkts \in Nat
  BY LenProperties, SystemAssumption DEF Typed, ClientTypes, C!TypeOK
<1>4. Outstanding \in Nat
  BY <1>2, <1>3 DEF Outstanding
<1> QED
  BY <1>1, <1>2, <1>3, <1>4 DEF Outstanding

\* A queue that changes by d changes the sum by d.
LEMMA UnderwayMoves ==
  ASSUME Typed, Typed', NEW q \in Queues, NEW d \in Int,
         Underway'[q] = Underway[q] + d,
         \A r \in Queues \ {q} : Underway'[r] = Underway[r]
  PROVE  SumFunction(Underway') = SumFunction(Underway) + d
<1> DEFINE f == Underway
           g == Underway'
<1>1. f \in [Queues -> Nat] /\ g \in [Queues -> Nat]
  <2>1. Underway \in [Queues -> Nat]
    BY CountsTyped
  <2>2. Underway' \in [Queues -> Nat]
    <3>1. (Typed => Underway \in [Queues -> Nat])'
      BY CountsTyped, PTL
    <3> QED
      BY <3>1
  <2> QED
    BY <2>1, <2>2
<1>2. f \in [Queues -> Int] /\ g \in [Queues -> Int]
  BY <1>1
<1>3. g[q] = f[q] + d /\ \A r \in Queues \ {q} : g[r] = f[r]
  OBVIOUS
<1> HIDE DEF f, g
<1>4. SumFunction(g) = SumFunction(f) + d
  BY <1>2, <1>3, SumMoves, SystemAssumption
<1> QED
  BY <1>4 DEF f, g

\* One queue before and after a step.
LEMMA UnderwayIs ==
  ASSUME NEW q \in Queues
  PROVE  /\ Underway[q] = Len(pending[q]) + Len(replied[q]) - returned[q]
         /\ Underway'[q] = Len(pending'[q]) + Len(replied'[q]) - returned'[q]
BY DEF Underway

\* The client does nothing to what the server has.
LEMMA UnderwayStays ==
  ASSUME UNCHANGED <<serviceVars, returned>>
  PROVE  Underway' = Underway
BY DEF Underway, serviceVars

\* A round of the latency test puts one packet out and takes at least one in.
LEMMA LatencyBudget ==
  ASSUME Typed, Typed', Budget, Kept, C!Client,
         UNCHANGED <<serviceVars, entered, returned, throughputVars>>
  PROVE  Budget' /\ Kept'
<1> DEFINE U == SumFunction(Underway)
<1>0. /\ U \in Nat /\ Len(to_server) \in Nat /\ Len(rx_ring) \in Nat
      /\ tx_leaked \in Nat /\ rx_leaked \in Nat /\ reqs \in Nat /\ tx_sent \in Nat
      /\ foreign \in Nat /\ TxMbufs \in Nat \ {0}
  BY CountsTyped, SystemAssumption
<1>1. /\ Outstanding = Len(to_server) + Len(rx_ring) + U
      /\ Outstanding' = Len(to_server') + Len(rx_ring') + U
  BY UnderwayStays DEF Outstanding
<1>2. /\ tx_leaked + rx_leaked + reqs + (Len(to_server) + Len(rx_ring) + U)
           <= tx_sent + foreign + Slack
      /\ foreign = 0 => rx_leaked = 0 /\ tx_leaked <= 1 /\ pc # "crashed"
  BY <1>1 DEF Budget, Kept
<1>3. tpc = "idle" /\ reqs = 0 /\ tx_sent = 0 /\ reqs' = reqs /\ tx_sent' = tx_sent
  BY DEF throughputVars, Typed, ClientTypes, Phases, C!Client, C!Loop, C!Send,
         C!CraftNull, C!Wait, C!EmptyPoll, C!Poll
<1>4. SUFFICES /\ tx_leaked' + rx_leaked' + reqs' + (Len(to_server') + Len(rx_ring') + U)
                    <= tx_sent' + foreign' + Slack'
               /\ foreign' = 0 => rx_leaked' = 0 /\ tx_leaked' <= 1 /\ pc' # "crashed"
  BY <1>1 DEF Budget, Kept
<1> HIDE DEF U
<1>5. CASE C!Loop
  BY <1>0, <1>2, <1>3, <1>5 DEF C!Loop, C!netVars, Slack
<1>6. CASE C!Send
  <2>1. /\ Slack = 0 /\ Slack' = 1 /\ pc' = "wait"
        /\ rx_leaked' = rx_leaked /\ rx_ring' = rx_ring /\ foreign' = foreign
    BY <1>6 DEF C!Send, Slack
  <2>2. \/ /\ to_server' = Append(to_server, C!Crafted)
           /\ tx_leaked' = tx_leaked
        \/ /\ tx_leaked' = tx_leaked + 1
           /\ to_server' = to_server
    BY <1>6 DEF C!Send
  <2>3. to_server' = Append(to_server, C!Crafted)
          => Len(to_server') = Len(to_server) + 1
    BY CraftedTyped, AppendProperties DEF Typed, ClientTypes, C!TypeOK
  <2>4. tx_leaked' + Len(to_server') = tx_leaked + Len(to_server) + 1
          /\ tx_leaked' \in {tx_leaked, tx_leaked + 1} /\ Len(to_server') \in Nat
    BY <1>0, <2>2, <2>3
  <2>5. foreign = 0 => tx_leaked = 0
    BY <1>0, <1>2, <1>3, <2>1
  <2> QED
    BY <1>0, <1>2, <1>3, <2>1, <2>4, <2>5
<1>7. CASE C!CraftNull
  <2>1. /\ Slack = 0 /\ Slack' = 0 /\ tx_leaked >= TxMbufs
        /\ rx_leaked' = rx_leaked /\ tx_leaked' = tx_leaked
        /\ rx_ring' = rx_ring /\ foreign' = foreign /\ to_server' = to_server
    BY <1>7 DEF C!CraftNull, C!netVars, Slack
  <2>2. foreign # 0
    BY <1>0, <1>2, <1>3, <2>1
  <2> QED
    BY <1>0, <1>2, <1>3, <2>1, <2>2
<1>8. CASE C!Wait
  BY <1>0, <1>2, <1>3, <1>8 DEF C!Wait, C!netVars, Slack
<1>9. CASE C!EmptyPoll
  BY <1>0, <1>2, <1>3, <1>9 DEF C!EmptyPoll, C!netVars, Slack
<1>10. CASE C!Poll
  <2>1. PICK nb_rx \in 1..Len(rx_ring) :
          /\ rx_ring' = SubSeq(rx_ring, nb_rx + 1, Len(rx_ring))
          /\ rx_leaked' = rx_leaked + (nb_rx - 1)
    BY <1>10 DEF C!Poll, C!Unfreed
  <2>2. Len(rx_ring') = Len(rx_ring) - nb_rx
    <3>1. nb_rx \in 0..Len(rx_ring) /\ rx_ring \in Seq(C!Request \union {C!Other})
      BY <1>0 DEF Typed, ClientTypes, C!TypeOK
    <3> QED
      BY <2>1, <3>1, CutFront
  <2>3. nb_rx \in 1..Len(rx_ring) /\ rx_leaked' = rx_leaked + (nb_rx - 1)
    BY <2>1
  <2>4. /\ Slack = 1 /\ Slack' \in {0, 1} /\ pc' # "crashed"
        /\ pc' = "loop" /\ expired' = expired
        /\ tx_leaked' = tx_leaked /\ to_server' = to_server /\ foreign' = foreign
    BY <1>10 DEF C!Poll, Slack
  <2>5. foreign = 0 => nb_rx = 1
    BY <1>0, <1>2, <1>3, <2>3, <2>4
  <2> QED
    BY <1>0, <1>2, <1>3, <2>2, <2>3, <2>4, <2>5
<1> QED
  BY <1>5, <1>6, <1>7, <1>8, <1>9, <1>10 DEF C!Client

\* The throughput test counts what it polls, and what it sends is its own.
LEMMA ThroughputBudget ==
  ASSUME Typed, Typed', Budget, Kept, C!ThroughputTest,
         UNCHANGED <<serviceVars, entered, returned>>
  PROVE  Budget' /\ Kept'
<1> DEFINE U == SumFunction(Underway)
<1>0. /\ U \in Nat /\ Len(to_server) \in Nat /\ Len(rx_ring) \in Nat
      /\ tx_leaked \in Nat /\ rx_leaked \in Nat /\ reqs \in Nat /\ tx_sent \in Nat
      /\ foreign \in Nat /\ created_pkts \in Nat
  BY CountsTyped
<1>1. /\ Outstanding = Len(to_server) + Len(rx_ring) + U
      /\ Outstanding' = Len(to_server') + Len(rx_ring') + U
  BY UnderwayStays DEF Outstanding
<1>2. /\ tx_leaked + rx_leaked + reqs + (Len(to_server) + Len(rx_ring) + U)
           <= tx_sent + foreign + Slack
      /\ Slack \in {0, 1}
  BY <1>1 DEF Budget, Slack
<1>3. /\ tx_leaked' = tx_leaked /\ rx_leaked' = rx_leaked /\ foreign' = foreign
      /\ pc' = pc /\ expired' = expired /\ Kept' /\ Slack' = Slack
  BY DEF Kept, Slack, C!ThroughputTest, C!StartThroughput, C!LookAtTime, C!CreateBurst,
         C!SendBurst, C!PollBurst, C!vars, C!clientVars, C!netVars
<1>4. SUFFICES tx_leaked + rx_leaked + reqs' + (Len(to_server') + Len(rx_ring') + U)
                 <= tx_sent' + foreign + Slack
  BY <1>1, <1>3 DEF Budget
<1> HIDE DEF U
<1>5. CASE C!StartThroughput \/ C!LookAtTime \/ C!CreateBurst
  <2>1. UNCHANGED <<reqs, tx_sent, to_server, rx_ring>>
    BY <1>5 DEF C!StartThroughput, C!LookAtTime, C!CreateBurst, C!vars, C!netVars
  <2> QED
    BY <1>2, <2>1
<1>6. CASE C!SendBurst
  <2>1. PICK nb_tx \in 0..created_pkts :
          /\ to_server' = to_server \o
               [i \in 1..nb_tx |-> C!Bulk(next_flow - created_pkts + i - 1)]
          /\ tx_sent' = tx_sent + nb_tx
    BY <1>6 DEF C!SendBurst
  <2>2. Len(to_server') = Len(to_server) + nb_tx
    <3> DEFINE burst == [i \in 1..nb_tx |-> C!Bulk(next_flow - created_pkts + i - 1)]
    <3>1. ClientTypes /\ to_server \in Seq(C!Request) /\ to_server' = to_server \o burst
      BY <2>1 DEF Typed, ClientTypes, C!TypeOK
    <3>2. burst \in Seq(C!Request) /\ Len(burst) = nb_tx
      BY <3>1, BurstTyped
    <3> HIDE DEF burst
    <3> QED
      BY <3>1, <3>2, ConcatProperties
  <2>3. nb_tx \in Nat /\ tx_sent' = tx_sent + nb_tx /\ reqs' = reqs /\ rx_ring' = rx_ring
    BY <1>0, <1>6, <2>1 DEF C!SendBurst
  <2> QED
    BY <1>0, <1>2, <2>2, <2>3
<1>7. CASE C!PollBurst
  <2>1. PICK nb_rx \in 0..BURST_SIZE :
          /\ nb_rx <= Len(rx_ring)
          /\ rx_ring' = SubSeq(rx_ring, nb_rx + 1, Len(rx_ring))
          /\ reqs' = reqs + nb_rx
    BY <1>7 DEF C!PollBurst
  <2>2. Len(rx_ring') = Len(rx_ring) - nb_rx
    <3>1. nb_rx \in 0..Len(rx_ring) /\ rx_ring \in Seq(C!Request \union {C!Other})
      BY <1>0, <2>1, SystemAssumption DEF Typed, ClientTypes, C!TypeOK
    <3> QED
      BY <2>1, <3>1, CutFront
  <2>3. /\ nb_rx \in Nat /\ reqs' = reqs + nb_rx /\ tx_sent' = tx_sent
        /\ to_server' = to_server
    BY <1>7, <2>1, SystemAssumption DEF C!PollBurst
  <2> QED
    BY <1>0, <1>2, <2>2, <2>3
<1> QED
  BY <1>5, <1>6, <1>7 DEF C!ThroughputTest

\* The clock may leave one request more, and a packet from elsewhere pays for
\* itself.
LEMMA AroundBudget ==
  ASSUME Typed, Typed', Budget, Kept, TimePasses \/ ForeignArrives
  PROVE  Budget' /\ Kept'
<1> DEFINE U == SumFunction(Underway)
<1>0. /\ U \in Nat /\ Len(to_server) \in Nat /\ Len(rx_ring) \in Nat
      /\ tx_leaked \in Nat /\ rx_leaked \in Nat /\ reqs \in Nat /\ tx_sent \in Nat
      /\ foreign \in Nat
  BY CountsTyped
<1>1. /\ Outstanding = Len(to_server) + Len(rx_ring) + U
      /\ Outstanding' = Len(to_server') + Len(rx_ring') + U
  BY UnderwayStays DEF Outstanding, TimePasses, ForeignArrives
<1>2. /\ tx_leaked + rx_leaked + reqs + (Len(to_server) + Len(rx_ring) + U)
           <= tx_sent + foreign + Slack
      /\ Slack \in {0, 1}
  BY <1>1 DEF Budget, Slack
<1> HIDE DEF U
<1>3. CASE TimePasses
  <2>1. /\ UNCHANGED <<to_server, rx_ring, tx_leaked, rx_leaked, reqs, tx_sent, foreign, pc>>
        /\ expired' = expired \/ expired' = TRUE
    BY <1>3 DEF TimePasses, C!Tick, C!TimeIsOver, C!vars, C!clientVars, C!netVars,
                throughputVars
  <2>2. Slack <= Slack' /\ Slack' \in {0, 1}
    BY <2>1 DEF Slack
  <2>3. Kept'
    BY <2>1 DEF Kept
  <2> QED
    BY <1>0, <1>1, <1>2, <2>1, <2>2, <2>3 DEF Budget
<1>4. CASE ForeignArrives
  <2>1. /\ rx_ring' = Append(rx_ring, C!Other) /\ foreign' = foreign + 1
        /\ UNCHANGED <<to_server, tx_leaked, rx_leaked, reqs, tx_sent, pc, expired>>
    BY <1>4 DEF ForeignArrives, C!ForeignArrives, C!clientVars, throughputVars
  <2>2. Len(rx_ring') = Len(rx_ring) + 1
    BY <2>1, AppendProperties DEF Typed, ClientTypes, C!TypeOK
  <2>3. Slack' = Slack /\ foreign' # 0
    BY <1>0, <2>1 DEF Slack
  <2>4. Kept'
    BY <2>3 DEF Kept
  <2>5. tx_leaked + rx_leaked + reqs + (Len(to_server) + Len(rx_ring') + U)
           <= tx_sent + (foreign + 1) + Slack
    BY <1>0, <1>2, <2>2
  <2> QED
    BY <1>1, <2>1, <2>3, <2>4, <2>5 DEF Budget
<1> QED
  BY <1>3, <1>4

\* Nothing is added on the way.
LEMMA WayBudget ==
  ASSUME Typed, Typed', Budget, Kept,
         \/ RequestArrives
         \/ \E q \in Queues : ServerAnswers(q) \/ ReplyLeavesWire(q)
  PROVE  /\ Budget' /\ Kept'
         /\ Outstanding' <= Outstanding
<1> DEFINE U == SumFunction(Underway)
<1>0. /\ U \in Nat /\ Len(to_server) \in Nat /\ Len(rx_ring) \in Nat
      /\ tx_leaked \in Nat /\ rx_leaked \in Nat /\ reqs \in Nat /\ tx_sent \in Nat
      /\ foreign \in Nat /\ Outstanding \in Nat
  BY CountsTyped
<1>1. /\ Outstanding = Len(to_server) + Len(rx_ring) + U
      /\ Outstanding' = Len(to_server') + Len(rx_ring') + U'
  BY DEF Outstanding
<1>2. /\ UNCHANGED <<tx_leaked, rx_leaked, reqs, tx_sent, foreign, pc, expired>>
  BY DEF RequestArrives, ServerAnswers, ReplyLeavesWire, clientVars, latencyVars,
         throughputVars
<1>3. Kept' /\ Slack' = Slack /\ Slack \in {0, 1}
  BY <1>2 DEF Kept, Slack
<1> HIDE DEF U
<1>4. Outstanding' <= Outstanding /\ Outstanding' \in Nat
  <2>0. (Typed => Outstanding \in Nat)'
    BY CountsTyped, PTL
  <2>1. CASE RequestArrives
    <3> DEFINE q == Rss[Header(Head(to_server))]
    <3>1. /\ q \in Queues
          /\ Len(to_server') = Len(to_server) - 1
          /\ Len(pending'[q]) = Len(pending[q]) + 1
          /\ \A r \in Queues \ {q} : pending'[r] = pending[r]
      BY <2>1, RequestEffect
    <3> HIDE DEF q
    <3>2. /\ replied' = replied /\ returned' = returned /\ rx_ring' = rx_ring
      BY <2>1 DEF RequestArrives, Accept, clientVars
    <3>3. /\ Underway'[q] = Underway[q] + 1
          /\ \A r \in Queues \ {q} : Underway'[r] = Underway[r]
      <4>1. /\ Len(pending[q]) \in Nat /\ Len(replied[q]) \in Nat /\ returned[q] \in Nat
        BY <3>1, LenProperties DEF Typed, Inv, TypeOK, History
      <4>2. \A r \in Queues \ {q} : Underway'[r] = Underway[r]
        BY <3>1, <3>2, UnderwayIs
      <4>3. /\ Underway[q] = Len(pending[q]) + Len(replied[q]) - returned[q]
            /\ Underway'[q] = Len(pending'[q]) + Len(replied'[q]) - returned'[q]
        BY <3>1, UnderwayIs
      <4> QED
        BY <3>1, <3>2, <4>1, <4>2, <4>3
    <3>4. U' = U + 1
      BY <3>1, <3>3, UnderwayMoves DEF U
    <3> QED
      BY <1>0, <1>1, <2>0, <3>1, <3>2, <3>4
  <2>2. ASSUME NEW q \in Queues, ServerAnswers(q)
        PROVE  Outstanding' <= Outstanding /\ Outstanding' \in Nat
    <3>1. Answer(q) /\ TypeOK
      BY <2>2 DEF ServerAnswers, Typed, Inv
    <3>2. PICK n \in 1..Len(pending[q]) : \E k \in 0..n :
            /\ Len(pending'[q]) = Len(pending[q]) - n
            /\ Len(replied'[q]) = Len(replied[q]) + k
      BY <3>1, AnswerEffect
    <3>3. PICK k \in 0..n :
            /\ Len(pending'[q]) = Len(pending[q]) - n
            /\ Len(replied'[q]) = Len(replied[q]) + k
      BY <3>2
    <3>4. /\ \A r \in Queues \ {q} : pending'[r] = pending[r] /\ replied'[r] = replied[r]
          /\ returned' = returned /\ rx_ring' = rx_ring /\ to_server' = to_server
      BY <2>2, <3>1, AnswerEffect DEF ServerAnswers, clientVars
    <3>5. /\ Len(pending[q]) \in Nat /\ Len(replied[q]) \in Nat /\ returned[q] \in Nat
      BY LenProperties DEF Typed, Inv, TypeOK, History
    <3>6. n \in Nat /\ k \in Nat /\ k <= n
      BY <3>5
    <3>7. /\ Underway'[q] = Underway[q] + (k - n)
          /\ \A r \in Queues \ {q} : Underway'[r] = Underway[r]
      <4>1. \A r \in Queues \ {q} : Underway'[r] = Underway[r]
        BY <3>4, UnderwayIs
      <4>2. /\ Underway[q] = Len(pending[q]) + Len(replied[q]) - returned[q]
            /\ Underway'[q] = Len(pending'[q]) + Len(replied'[q]) - returned[q]
        BY <3>4, UnderwayIs
      <4> QED
        BY <3>3, <3>5, <3>6, <4>1, <4>2
    <3>8. k - n \in Int
      BY <3>6
    <3>9. U' = U + (k - n)
      BY <3>7, <3>8, UnderwayMoves DEF U
    <3> QED
      BY <1>0, <1>1, <2>0, <3>4, <3>6, <3>9
  <2>3. ASSUME NEW q \in Queues, ReplyLeavesWire(q)
        PROVE  Outstanding' <= Outstanding /\ Outstanding' \in Nat
    <3>1. /\ returned'[q] = returned[q] + 1
          /\ \A r \in Queues \ {q} : returned'[r] = returned[r]
          /\ rx_ring' = rx_ring \/ Len(rx_ring') = Len(rx_ring) + 1
      BY <2>3, ReplyEffect
    <3>2. pending' = pending /\ replied' = replied /\ to_server' = to_server
      BY <2>3 DEF ReplyLeavesWire, serviceVars
    <3>3. /\ Underway'[q] = Underway[q] + (-1)
          /\ \A r \in Queues \ {q} : Underway'[r] = Underway[r]
      <4>1. /\ Len(pending[q]) \in Nat /\ Len(replied[q]) \in Nat /\ returned[q] \in Nat
        BY LenProperties DEF Typed, Inv, TypeOK, History
      <4>2. \A r \in Queues \ {q} : Underway'[r] = Underway[r]
        BY <3>1, <3>2, UnderwayIs
      <4>3. /\ Underway[q] = Len(pending[q]) + Len(replied[q]) - returned[q]
            /\ Underway'[q] = Len(pending'[q]) + Len(replied'[q]) - returned'[q]
        BY <3>1, UnderwayIs
      <4> QED
        BY <3>1, <3>2, <4>1, <4>2, <4>3
    <3>4. U' = U + (-1)
      BY <3>3, UnderwayMoves DEF U
    <3> QED
      BY <1>0, <1>1, <2>0, <3>1, <3>2, <3>4
  <2> QED
    BY <2>1, <2>2, <2>3
<1>5. Budget'
  <2>1. tx_leaked + rx_leaked + reqs + Outstanding <= tx_sent + foreign + Slack
    BY DEF Budget
  <2>2. tx_leaked + rx_leaked + reqs + Outstanding' <= tx_sent + foreign + Slack
    <3> DEFINE a == tx_leaked + rx_leaked + reqs
               b == tx_sent + foreign + Slack
    <3>1. a \in Nat /\ b \in Nat
      BY <1>0, <1>3
    <3>2. a + Outstanding <= b
      BY <2>1
    <3> HIDE DEF a, b
    <3>3. \A x, y \in Nat : x <= y /\ a + y <= b => a + x <= b
      BY <3>1
    <3>4. Outstanding \in Nat /\ Outstanding' \in Nat /\ Outstanding' <= Outstanding
      BY <1>0, <1>4
    <3>5. a + Outstanding' <= b
      BY <3>2, <3>3, <3>4
    <3> QED
      BY <3>5 DEF a, b
  <2> QED
    BY <1>2, <1>3, <2>2 DEF Budget
<1> QED
  BY <1>3, <1>4, <1>5

\* Every step keeps the count.
LEMMA BudgetKept ==
  ASSUME Typed, Budget, Kept, [SystemNext]_systemVars
  PROVE  Budget' /\ Kept'
<1>0. Typed'
  BY TypedKept
<1>1. CASE ClientSteps
  <2>1. CASE C!Client /\ UNCHANGED throughputVars
    BY <1>0, <1>1, <2>1, LatencyBudget DEF ClientSteps
  <2>2. CASE C!ThroughputTest
    BY <1>0, <1>1, <2>2, ThroughputBudget DEF ClientSteps
  <2> QED
    BY <1>1, <2>1, <2>2 DEF ClientSteps, C!RunClient, C!throughputVars, throughputVars
<1>2. CASE TimePasses \/ ForeignArrives
  BY <1>0, <1>2, AroundBudget
<1>3. CASE RequestArrives \/ \E q \in Queues : ServerAnswers(q) \/ ReplyLeavesWire(q)
  BY <1>0, <1>3, WayBudget
<1>4. CASE UNCHANGED systemVars
  <2>1. /\ UNCHANGED <<serviceVars, returned, to_server, rx_ring, pc, expired>>
        /\ UNCHANGED <<tx_leaked, rx_leaked, reqs, tx_sent, foreign>>
    BY <1>4 DEF systemVars, clientVars, latencyVars, throughputVars
  <2>2. Outstanding' = Outstanding /\ Slack' = Slack
    BY <2>1, UnderwayStays DEF Outstanding, Slack
  <2> QED
    BY <2>1, <2>2 DEF Budget, Kept
<1> QED
  BY <1>1, <1>2, <1>3, <1>4 DEF SystemNext

\* At the start nothing is out.
LEMMA InitBudget == SystemInit => Budget /\ Kept
<1> SUFFICES ASSUME SystemInit PROVE Budget /\ Kept
  OBVIOUS
<1>1. /\ pc = "loop" /\ expired = FALSE /\ to_server = <<>> /\ rx_ring = <<>>
      /\ tx_leaked = 0 /\ rx_leaked = 0 /\ reqs = 0 /\ tx_sent = 0 /\ foreign = 0
  BY DEF SystemInit, C!Init, C!ThroughputInit
<1>2. Underway = [q \in Queues |-> 0]
  <2>1. /\ pending = [q \in Queues |-> <<>>] /\ replied = [q \in Queues |-> <<>>]
        /\ returned = [q \in Queues |-> 0]
    BY DEF SystemInit, Init
  <2>2. \A q \in Queues : Len(pending[q]) + Len(replied[q]) - returned[q] = 0
    BY <2>1
  <2> QED
    BY <2>2 DEF Underway
<1>3. SumFunction(Underway) = 0
  BY <1>2, SumOfZeros, SystemAssumption
<1>4. Outstanding = 0
  BY <1>1, <1>3 DEF Outstanding
<1>5. Slack = 0
  BY <1>1 DEF Slack
<1> QED
  BY <1>1, <1>4, <1>5 DEF Budget, Kept

\* The count holds always.
LEMMA AlwaysBudget == SystemSpec => [](Typed /\ Budget /\ Kept)
<1>1. SystemInit => Typed /\ Budget /\ Kept
  BY InitTyped, InitBudget
<1>2. Typed /\ Budget /\ Kept /\ [SystemNext]_systemVars => (Typed /\ Budget /\ Kept)'
  BY TypedKept, BudgetKept
<1> QED
  BY <1>1, <1>2, PTL DEF SystemSpec

\* The latency test has one request out at most, and one more for each packet from
\* elsewhere, which it has taken for the echo.
THEOREM OneRequestOut == SystemSpec => []OneOutstanding
<1>1. Typed /\ Budget => OneOutstanding
  <2> SUFFICES ASSUME Typed, Budget, tpc = "idle" PROVE Outstanding <= 1 + foreign
    BY DEF OneOutstanding
  <2>1. /\ Outstanding \in Nat /\ foreign \in Nat /\ tx_leaked \in Nat /\ rx_leaked \in Nat
    BY CountsTyped
  <2>2. reqs = 0 /\ tx_sent = 0 /\ Slack \in {0, 1}
    BY DEF Typed, ClientTypes, Phases, Slack
  <2>3. tx_leaked + rx_leaked + reqs + Outstanding <= tx_sent + foreign + Slack
    BY DEF Budget
  <2> QED
    BY <2>1, <2>2, <2>3
<1> QED
  BY <1>1, AlwaysBudget, PTL

\* What the throughput test counts that is not its own is one late echo of the
\* latency test, and one packet for each that came from elsewhere.
THEOREM CountedIsOwnOrLate == SystemSpec => []LateEchoesOnly
<1>1. Typed /\ Budget => LateEchoesOnly
  <2> SUFFICES ASSUME Typed, Budget PROVE reqs + Outstanding <= tx_sent + 1 + foreign
    BY DEF LateEchoesOnly
  <2>1. /\ Outstanding \in Nat /\ foreign \in Nat /\ tx_leaked \in Nat /\ rx_leaked \in Nat
        /\ reqs \in Nat /\ tx_sent \in Nat
    BY CountsTyped
  <2>2. Slack \in {0, 1}
    BY DEF Slack
  <2>3. tx_leaked + rx_leaked + reqs + Outstanding <= tx_sent + foreign + Slack
    BY DEF Budget
  <2> QED
    BY <2>1, <2>2, <2>3
<1> QED
  BY <1>1, AlwaysBudget, PTL

\* With nobody else sending the client keeps its mbufs, but for one, and never
\* crafts a packet in none: whatever the sizes of the pools.
THEOREM ClientMbufsKept == SystemSpec => []MbufsKept
<1>1. Kept => MbufsKept
  BY DEF Kept, MbufsKept, C!MbufsKept
<1> QED
  BY <1>1, AlwaysBudget, PTL

------------------------------------------------------------------------------
(* The samples of the latency test.                                        *)

\* If nothing is out, nothing is anywhere.
LEMMA NothingOut ==
  ASSUME Typed, Outstanding = 0
  PROVE  /\ Len(to_server) = 0 /\ Len(rx_ring) = 0
         /\ \A q \in Queues : Len(pending[q]) = 0 /\ Len(replied[q]) = returned[q]
<1>1. /\ Len(to_server) \in Nat /\ Len(rx_ring) \in Nat /\ SumFunction(Underway) \in Nat
      /\ Underway \in [Queues -> Nat]
      /\ Len(to_server) + Len(rx_ring) + SumFunction(Underway) = 0
  BY CountsTyped
<1>2. Len(to_server) = 0 /\ Len(rx_ring) = 0 /\ SumFunction(Underway) = 0
  BY <1>1
<1>3. ASSUME NEW q \in Queues
      PROVE  Len(pending[q]) = 0 /\ Len(replied[q]) = returned[q]
  <2>1. Underway[q] <= SumFunction(Underway) /\ Underway[q] \in Nat
    BY <1>1, SumAbove, SystemAssumption
  <2>2. Underway[q] = Len(pending[q]) + Len(replied[q]) - returned[q]
    BY UnderwayIs
  <2>3. /\ Len(pending[q]) \in Nat /\ Len(replied[q]) \in Nat
        /\ returned[q] \in Nat /\ returned[q] <= Len(replied[q])
    BY LenProperties DEF Typed, Inv, TypeOK, History
  <2> QED
    BY <1>2, <2>1, <2>2, <2>3
<1> QED
  BY <1>2, <1>3

\* Then there is nothing that could be another request.
LEMMA NothingElse ==
  ASSUME Typed, Outstanding = 0
  PROVE  OnlyCurrent
<1>1. /\ 1..Len(to_server) = {} /\ 1..Len(rx_ring) = {}
      /\ \A q \in Queues : 1..Len(pending[q]) = {}
      /\ \A q \in Queues : \A j \in 1..Len(replied[q]) : ~(j > returned[q])
  <2>1. /\ Len(to_server) = 0 /\ Len(rx_ring) = 0
        /\ \A q \in Queues : Len(pending[q]) = 0 /\ Len(replied[q]) = returned[q]
    BY NothingOut
  <2>2. \A q \in Queues : Len(replied[q]) \in Nat
    BY LenProperties DEF Typed, Inv, TypeOK
  <2> QED
    BY <2>1, <2>2
<1> QED
  BY <1>1 DEF OnlyCurrent

\* How much can be out with nobody else sending.
LEMMA OutInLatency ==
  ASSUME Typed, Budget, foreign = 0, tpc = "idle"
  PROVE  /\ Outstanding \in Nat /\ Outstanding <= 1
         /\ Slack = 0 => Outstanding = 0
<1>1. /\ Outstanding \in Nat /\ tx_leaked \in Nat /\ rx_leaked \in Nat
  BY CountsTyped
<1>2. reqs = 0 /\ tx_sent = 0 /\ Slack \in {0, 1}
  BY DEF Typed, ClientTypes, Phases, Slack
<1>3. tx_leaked + rx_leaked + reqs + Outstanding <= tx_sent + foreign + Slack
  BY DEF Budget
<1> QED
  BY <1>1, <1>2, <1>3

\* What is out and what has been measured.
sampleVars == <<to_server, rx_ring, pending, replied, returned, entered, snd_times,
                rcv_times, foreign, tpc>>

\* Steps that leave both alone.
LEMMA SamplesStay ==
  ASSUME OnlyCurrent, SamplesMatch, UNCHANGED sampleVars
  PROVE  OnlyCurrent' /\ SamplesMatch'
<1>1. \A p : Current(p)' = Current(p)
  BY DEF sampleVars, Current
<1>2. SamplesMatch'
  BY DEF sampleVars, SamplesMatch, C!SamplesMatch, C!correct_echos
<1>3. OnlyCurrent'
  BY <1>1 DEF sampleVars, OnlyCurrent
<1> QED
  BY <1>2, <1>3

\* A request that is sent is the only one out, for the one before it has come
\* back; it does not touch the times of the samples there are.
LEMMA SendSamples ==
  ASSUME Typed, Typed', Budget, OnlyCurrent, SamplesMatch, C!Send,
         UNCHANGED <<serviceVars, entered, returned, throughputVars>>
  PROVE  OnlyCurrent' /\ SamplesMatch'
<1>1. SUFFICES ASSUME foreign = 0 PROVE OnlyCurrent' /\ SamplesMatch'
  BY DEF C!Send, OnlyCurrent, SamplesMatch, C!SamplesMatch
<1>2. /\ rcv_times' = rcv_times /\ rx_ring' = rx_ring /\ foreign' = foreign
      /\ pending' = pending /\ replied' = replied /\ returned' = returned
      /\ entered' = entered /\ tpc' = tpc
      /\ Slack = 0 /\ tpc = "idle"
  BY DEF C!Send, serviceVars, throughputVars, Slack, Typed, ClientTypes, Phases
<1>3. Outstanding = 0
  BY <1>1, <1>2, OutInLatency
<1>4. /\ Len(to_server) = 0 /\ Len(rx_ring) = 0
      /\ \A q \in Queues : Len(pending[q]) = 0 /\ Len(replied[q]) = returned[q]
  BY <1>3, NothingOut
<1>5. /\ Len(snd_times') = Len(rcv_times) + 1
      /\ \A k \in 1..Len(rcv_times) : snd_times'[k] = snd_times[k]
      /\ snd_times'[Len(rcv_times) + 1] = C!Crafted
  BY Noted DEF Typed, ClientTypes, SamplesNoted, C!Send
<1>6. SamplesMatch'
  BY <1>1, <1>2, <1>5 DEF SamplesMatch, C!SamplesMatch, C!correct_echos
<1>7. ASSUME NEW i \in 1..Len(to_server')
      PROVE  /\ Len(snd_times') = Len(rcv_times') + 1
             /\ to_server'[i] = snd_times'[Len(rcv_times') + 1]
  <2>1. to_server' = to_server \/ to_server' = Append(to_server, C!Crafted)
    BY DEF C!Send
  <2>2. to_server' = Append(to_server, C!Crafted)
          => Len(to_server') = 1 /\ to_server'[1] = C!Crafted
    BY <1>4, CraftedTyped, AppendProperties DEF Typed, ClientTypes, C!TypeOK
  <2>3. to_server' = Append(to_server, C!Crafted) /\ i = 1
    <3>1. Len(to_server') # 0
      OBVIOUS
    <3>2. to_server' # to_server
      BY <1>4, <3>1
    <3> QED
      BY <2>1, <2>2, <3>2
  <2> QED
    BY <1>2, <1>5, <2>2, <2>3
<1>8. /\ 1..Len(rx_ring') = {}
      /\ \A q \in Queues : 1..Len(pending'[q]) = {}
      /\ \A q \in Queues : \A j \in 1..Len(replied'[q]) : ~(j > returned'[q])
  <2>1. \A q \in Queues : Len(replied[q]) \in Nat
    BY LenProperties DEF Typed, Inv, TypeOK
  <2> QED
    BY <1>2, <1>4, <2>1
<1>9. OnlyCurrent'
  BY <1>7, <1>8 DEF OnlyCurrent, Current
<1> QED
  BY <1>6, <1>9

\* What a poll finds first is the echo of the current request; there is nothing
\* behind it.
LEMMA PollSamples ==
  ASSUME Typed, Typed', Budget, OnlyCurrent, SamplesMatch, C!Poll,
         UNCHANGED <<serviceVars, entered, returned, throughputVars>>
  PROVE  OnlyCurrent' /\ SamplesMatch'
<1>1. SUFFICES ASSUME foreign = 0 PROVE OnlyCurrent' /\ SamplesMatch'
  BY DEF C!Poll, OnlyCurrent, SamplesMatch, C!SamplesMatch
<1>2. /\ snd_times' = snd_times /\ to_server' = to_server /\ foreign' = foreign
      /\ tpc' = tpc /\ tpc = "idle"
  BY DEF C!Poll, throughputVars, Typed, ClientTypes, Phases
<1>3. PICK nb_rx \in 1..Len(rx_ring) :
        rx_ring' = SubSeq(rx_ring, nb_rx + 1, Len(rx_ring))
  BY DEF C!Poll
<1>4. /\ rx_ring \in Seq(C!Request \union {C!Other}) /\ Len(rx_ring) \in Nat
      /\ rcv_times \in Seq(C!Request) /\ Len(rcv_times) \in Nat
  BY LenProperties DEF Typed, ClientTypes, C!TypeOK
<1>5. Len(rx_ring') = Len(rx_ring) - nb_rx
  <2>1. nb_rx \in 0..Len(rx_ring)
    BY <1>3, <1>4
  <2> QED
    BY <1>3, <1>4, <2>1, CutFront
<1>6. Outstanding' = 0
  <2>1. /\ Outstanding \in Nat /\ Outstanding <= 1
        /\ Outstanding = Len(to_server) + Len(rx_ring) + SumFunction(Underway)
        /\ Len(to_server) \in Nat /\ SumFunction(Underway) \in Nat
    BY <1>1, <1>2, OutInLatency, CountsTyped
  <2>2. Outstanding' = Len(to_server) + Len(rx_ring') + SumFunction(Underway)
    BY <1>2, UnderwayStays DEF Outstanding
  <2>3. nb_rx \in Nat /\ nb_rx >= 1 /\ nb_rx <= Len(rx_ring)
    BY <1>3, <1>4
  <2> QED
    BY <1>4, <1>5, <2>1, <2>2, <2>3
<1>7. OnlyCurrent'
  <2>1. (Typed /\ Outstanding = 0 => OnlyCurrent)'
    BY NothingElse, PTL
  <2> QED
    BY <1>6, <2>1
<1>8. Current(rx_ring[1])
  <2>1. 1 \in 1..Len(rx_ring)
    BY <1>3, <1>4
  <2> QED
    BY <1>1, <1>2, <2>1 DEF OnlyCurrent
<1>9. \A k \in 1..Len(rcv_times) : rcv_times[k] = snd_times[k]
  BY <1>1 DEF SamplesMatch, C!SamplesMatch, C!correct_echos
<1>10. \A k \in 1..Len(rcv_times') : rcv_times'[k] = snd_times[k]
  <2>1. CASE rcv_times' = rcv_times
    BY <1>9, <2>1
  <2>2. CASE rcv_times' = Append(rcv_times, Head(rx_ring)) /\ C!Matches(Head(rx_ring))
    <3>1. Head(rx_ring) = rx_ring[1] /\ Head(rx_ring) \in C!Request
      <4>1. Head(rx_ring) \in C!Request \union {C!Other} /\ Head(rx_ring) = rx_ring[1]
        BY <1>3, <1>4, HeadTailProperties, EmptySeq
      <4> QED
        BY <2>2, <4>1 DEF C!Matches
    <3>2. /\ Len(rcv_times') = Len(rcv_times) + 1
          /\ \A k \in 1..Len(rcv_times) : rcv_times'[k] = rcv_times[k]
          /\ rcv_times'[Len(rcv_times) + 1] = rx_ring[1]
      BY <1>4, <2>2, <3>1, AppendProperties
    <3>3. rx_ring[1] = snd_times[Len(rcv_times) + 1]
      BY <1>8 DEF Current
    <3> SUFFICES ASSUME NEW k \in 1..Len(rcv_times') PROVE rcv_times'[k] = snd_times[k]
      OBVIOUS
    <3>4. k \in 1..Len(rcv_times) \/ k = Len(rcv_times) + 1
      BY <1>4, <3>2
    <3> QED
      BY <1>9, <3>2, <3>3, <3>4
  <2> QED
    BY <2>1, <2>2 DEF C!Poll
<1>11. SamplesMatch'
  BY <1>2, <1>10 DEF SamplesMatch, C!SamplesMatch, C!correct_echos
<1> QED
  BY <1>7, <1>11

\* What enters the server is what the wire carried.
LEMMA RequestSamples ==
  ASSUME Typed, Typed', OnlyCurrent, SamplesMatch, RequestArrives
  PROVE  OnlyCurrent' /\ SamplesMatch'
<1> DEFINE q == Rss[Header(Head(to_server))]
           n == Len(entered) + 1
<1>1. /\ snd_times' = snd_times /\ rcv_times' = rcv_times /\ foreign' = foreign
      /\ tpc' = tpc /\ rx_ring' = rx_ring /\ replied' = replied /\ returned' = returned
  BY DEF RequestArrives, Accept, clientVars, latencyVars, throughputVars
<1>2. SamplesMatch'
  BY <1>1 DEF SamplesMatch, C!SamplesMatch, C!correct_echos
<1>3. SUFFICES ASSUME foreign = 0, tpc = "idle" PROVE OnlyCurrent'
  BY <1>1, <1>2 DEF OnlyCurrent
<1>4. \A p : Current(p)' = Current(p)
  BY <1>1 DEF Current
<1>5. /\ \A i \in 1..Len(to_server) : Current(to_server[i])
      /\ \A i \in 1..Len(rx_ring) : Current(rx_ring[i])
      /\ \A r \in Queues :
           /\ \A i \in 1..Len(pending[r]) : Current(entered[pending[r][i].id])
           /\ \A j \in 1..Len(replied[r]) :
                j > returned[r] => Current(entered[replied[r][j].id])
  BY <1>3 DEF OnlyCurrent
<1>6. /\ q \in Queues
      /\ Len(to_server) \in Nat \ {0} /\ Head(to_server) = to_server[1]
      /\ Len(to_server') = Len(to_server) - 1
      /\ \A i \in 1..Len(to_server') : to_server'[i] = to_server[i + 1]
      /\ entered'[n] = Head(to_server)
      /\ \A i \in 1..Len(entered) : entered'[i] = entered[i]
      /\ Len(pending'[q]) = Len(pending[q]) + 1
      /\ \A i \in 1..Len(pending[q]) : pending'[q][i] = pending[q][i]
      /\ pending'[q][Len(pending[q]) + 1].id = n
      /\ \A r \in Queues \ {q} : pending'[r] = pending[r]
  BY RequestEffect
<1> HIDE DEF q, n
<1>7. \A i \in 1..Len(to_server') : Current(to_server'[i])
  BY <1>5, <1>6
<1>8. ASSUME NEW r \in Queues
      PROVE  /\ \A i \in 1..Len(pending[r]) : pending[r][i].id \in 1..Len(entered)
             /\ \A i \in 1..Len(replied[r]) : replied[r][i].id \in 1..Len(entered)
             /\ Len(pending[r]) \in Nat
  BY LenProperties DEF Typed, Inv, TypeOK, Waiting, Answered, History
<1>9. ASSUME NEW r \in Queues, NEW i \in 1..Len(pending'[r])
      PROVE  Current(entered'[pending'[r][i].id])
  <2>1. CASE r = q /\ i = Len(pending[q]) + 1
    <3>1. Current(to_server[1])
      BY <1>5, <1>6
    <3>2. pending'[r][i].id = n
      BY <1>6, <2>1
    <3>3. entered'[pending'[r][i].id] = to_server[1]
      BY <1>6, <3>2
    <3> QED
      BY <3>1, <3>3
  <2>2. CASE ~(r = q /\ i = Len(pending[q]) + 1)
    <3>1. i \in 1..Len(pending[r]) /\ pending'[r][i] = pending[r][i]
      BY <1>6, <1>8, <2>2
    <3>2. entered'[pending[r][i].id] = entered[pending[r][i].id]
      BY <1>6, <1>8, <3>1
    <3>3. Current(entered[pending[r][i].id])
      BY <1>5, <3>1
    <3> QED
      BY <3>1, <3>2, <3>3
  <2> QED
    BY <2>1, <2>2
<1>10. ASSUME NEW r \in Queues, NEW j \in 1..Len(replied[r]), j > returned[r]
       PROVE  Current(entered'[replied[r][j].id])
  BY <1>5, <1>6, <1>8, <1>10
<1> QED
  BY <1>1, <1>4, <1>5, <1>7, <1>9, <1>10 DEF OnlyCurrent

\* An answer is one of the requests in the server.
LEMMA AnswerSamples ==
  ASSUME Typed, Typed', OnlyCurrent, SamplesMatch, NEW q \in Queues, ServerAnswers(q)
  PROVE  OnlyCurrent' /\ SamplesMatch'
<1>1. /\ snd_times' = snd_times /\ rcv_times' = rcv_times /\ foreign' = foreign
      /\ tpc' = tpc /\ rx_ring' = rx_ring /\ to_server' = to_server
      /\ entered' = entered /\ returned' = returned
  BY DEF ServerAnswers, clientVars, latencyVars, throughputVars
<1>2. SamplesMatch'
  BY <1>1 DEF SamplesMatch, C!SamplesMatch, C!correct_echos
<1>3. SUFFICES ASSUME foreign = 0, tpc = "idle" PROVE OnlyCurrent'
  BY <1>1, <1>2 DEF OnlyCurrent
<1>4. \A p : Current(p)' = Current(p)
  BY <1>1 DEF Current
<1>5. /\ \A i \in 1..Len(to_server) : Current(to_server[i])
      /\ \A i \in 1..Len(rx_ring) : Current(rx_ring[i])
      /\ \A r \in Queues :
           /\ \A i \in 1..Len(pending[r]) : Current(entered[pending[r][i].id])
           /\ \A j \in 1..Len(replied[r]) :
                j > returned[r] => Current(entered[replied[r][j].id])
  BY <1>3 DEF OnlyCurrent
<1>6. Answer(q) /\ TypeOK
  BY DEF ServerAnswers, Typed, Inv
<1>7. \A r \in Queues \ {q} : pending'[r] = pending[r] /\ replied'[r] = replied[r]
  BY <1>6, AnswerEffect
<1>8. PICK n \in 1..Len(pending[q]), k \in 0..Len(pending[q]) :
        /\ k <= n
        /\ Len(pending'[q]) = Len(pending[q]) - n
        /\ \A i \in 1..(Len(pending[q]) - n) : pending'[q][i] = pending[q][n + i]
        /\ Len(replied'[q]) = Len(replied[q]) + k
        /\ \A i \in 1..Len(replied[q]) : replied'[q][i] = replied[q][i]
        /\ \A i \in 1..k : replied'[q][Len(replied[q]) + i] = Echo(pending[q][i])
  <2>1. \A n \in 1..Len(pending[q]) : \A k \in 0..n : k \in 0..Len(pending[q]) /\ k <= n
    BY LenProperties DEF Typed, Inv, TypeOK
  <2> QED
    BY <1>6, <2>1, AnswerEffect
<1>9. Len(pending[q]) \in Nat /\ Len(replied[q]) \in Nat /\ n \in Nat /\ k \in Nat
  BY LenProperties DEF Typed, Inv, TypeOK
<1>10. \A i \in 1..Len(pending'[q]) : Current(entered[pending'[q][i].id])
  <2> SUFFICES ASSUME NEW i \in 1..Len(pending'[q])
               PROVE  Current(entered[pending'[q][i].id])
    OBVIOUS
  <2>1. n + i \in 1..Len(pending[q]) /\ pending'[q][i] = pending[q][n + i]
    BY <1>8, <1>9
  <2> QED
    BY <1>5, <2>1
<1>11. ASSUME NEW j \in 1..Len(replied'[q]), j > returned[q]
       PROVE  Current(entered[replied'[q][j].id])
  <2>1. CASE j \in 1..Len(replied[q])
    <3>1. replied'[q][j] = replied[q][j]
      BY <1>8, <2>1
    <3>2. Current(entered[replied[q][j].id])
      BY <1>5, <1>11, <2>1
    <3> QED BY <3>1, <3>2
  <2>2. CASE j \notin 1..Len(replied[q])
    <3> DEFINE i == j - Len(replied[q])
    <3>1. i \in 1..k /\ i \in 1..Len(pending[q]) /\ j = Len(replied[q]) + i
      BY <1>8, <1>9, <2>2
    <3> HIDE DEF i
    <3>2. replied'[q][j] = Echo(pending[q][i])
      BY <1>8, <3>1
    <3>3. replied'[q][j].id = pending[q][i].id
      BY <3>2 DEF Echo
    <3> QED
      BY <1>5, <3>1, <3>3
  <2> QED
    BY <2>1, <2>2
<1>12. ASSUME NEW r \in Queues
       PROVE  /\ \A i \in 1..Len(pending'[r]) : Current(entered[pending'[r][i].id])
              /\ \A j \in 1..Len(replied'[r]) :
                   j > returned[r] => Current(entered[replied'[r][j].id])
  <2>1. CASE r = q
    BY <1>10, <1>11, <2>1
  <2>2. CASE r # q
    BY <1>5, <1>7, <2>2
  <2> QED
    BY <2>1, <2>2
<1> QED
  BY <1>1, <1>4, <1>5, <1>12 DEF OnlyCurrent

\* A reply that comes back was on the wire.
LEMMA ReplySamples ==
  ASSUME Typed, Typed', OnlyCurrent, SamplesMatch, NEW q \in Queues, ReplyLeavesWire(q)
  PROVE  OnlyCurrent' /\ SamplesMatch'
<1> DEFINE n == returned[q] + 1
<1>1. /\ snd_times' = snd_times /\ rcv_times' = rcv_times /\ foreign' = foreign
      /\ tpc' = tpc /\ to_server' = to_server /\ entered' = entered
      /\ pending' = pending /\ replied' = replied
  BY DEF ReplyLeavesWire, serviceVars, latencyVars, throughputVars
<1>2. SamplesMatch'
  BY <1>1 DEF SamplesMatch, C!SamplesMatch, C!correct_echos
<1>3. SUFFICES ASSUME foreign = 0, tpc = "idle" PROVE OnlyCurrent'
  BY <1>1, <1>2 DEF OnlyCurrent
<1>4. \A p : Current(p)' = Current(p)
  BY <1>1 DEF Current
<1>5. /\ \A i \in 1..Len(to_server) : Current(to_server[i])
      /\ \A i \in 1..Len(rx_ring) : Current(rx_ring[i])
      /\ \A r \in Queues :
           /\ \A i \in 1..Len(pending[r]) : Current(entered[pending[r][i].id])
           /\ \A j \in 1..Len(replied[r]) :
                j > returned[r] => Current(entered[replied[r][j].id])
  BY <1>3 DEF OnlyCurrent
<1>6. /\ n \in 1..Len(replied[q])
      /\ returned'[q] = n /\ returned[q] \in Nat
      /\ \A r \in Queues \ {q} : returned'[r] = returned[r]
      /\ \/ rx_ring' = rx_ring
         \/ /\ Len(rx_ring') = Len(rx_ring) + 1
            /\ \A i \in 1..Len(rx_ring) : rx_ring'[i] = rx_ring[i]
            /\ rx_ring'[Len(rx_ring) + 1] = entered[replied[q][n].id]
  BY ReplyEffect DEF Typed, History
<1>7. \A i \in 1..Len(rx_ring') : Current(rx_ring'[i])
  <2>1. Current(entered[replied[q][n].id])
    BY <1>5, <1>6
  <2>2. Len(rx_ring) \in Nat
    BY CountsTyped
  <2> QED
    BY <1>5, <1>6, <2>1, <2>2
<1>8. ASSUME NEW r \in Queues, NEW j \in 1..Len(replied[r]), j > returned'[r]
      PROVE  Current(entered[replied[r][j].id])
  <2>1. j > returned[r]
    BY <1>6, <1>8
  <2> QED
    BY <1>5, <2>1
<1> QED
  BY <1>1, <1>4, <1>5, <1>7, <1>8 DEF OnlyCurrent

\* Every step keeps the samples.
LEMMA SamplesKept ==
  ASSUME Typed, Budget, OnlyCurrent, SamplesMatch, [SystemNext]_systemVars
  PROVE  OnlyCurrent' /\ SamplesMatch'
<1>0. Typed'
  BY TypedKept
<1>1. CASE ClientSteps
  <2>1. UNCHANGED <<serviceVars, entered, returned>>
    BY <1>1 DEF ClientSteps
  <2>2. CASE C!Client /\ UNCHANGED throughputVars
    <3>1. CASE C!Send
      BY <1>0, <2>1, <2>2, <3>1, SendSamples
    <3>2. CASE C!Poll
      BY <1>0, <2>1, <2>2, <3>2, PollSamples
    <3>3. CASE C!Loop \/ C!CraftNull \/ C!Wait \/ C!EmptyPoll
      <4>1. UNCHANGED sampleVars
        BY <2>1, <2>2, <3>3 DEF sampleVars, serviceVars, throughputVars, C!Loop,
             C!CraftNull, C!Wait, C!EmptyPoll, C!netVars
      <4> QED
        BY <4>1, SamplesStay
    <3> QED
      BY <2>2, <3>1, <3>2, <3>3 DEF C!Client
  <2>3. CASE C!ThroughputTest
    <3>1. /\ snd_times' = snd_times /\ rcv_times' = rcv_times /\ foreign' = foreign
          /\ tpc' # "idle"
      BY <2>3 DEF C!ThroughputTest, C!StartThroughput, C!LookAtTime, C!CreateBurst,
             C!SendBurst, C!PollBurst, C!vars, C!clientVars, C!netVars
    <3> QED
      BY <3>1 DEF OnlyCurrent, SamplesMatch, C!SamplesMatch, C!correct_echos
  <2> QED
    BY <1>1, <2>2, <2>3 DEF ClientSteps, C!RunClient, C!throughputVars, throughputVars
<1>2. CASE TimePasses
  <2>1. UNCHANGED sampleVars
    BY <1>2 DEF TimePasses, sampleVars, serviceVars, throughputVars, C!Tick,
                C!TimeIsOver, C!vars, C!clientVars, C!netVars
  <2> QED
    BY <2>1, SamplesStay
<1>3. CASE ForeignArrives
  <2>1. /\ snd_times' = snd_times /\ rcv_times' = rcv_times /\ foreign' # 0
    <3>1. foreign' = foreign + 1 /\ foreign \in Nat
      BY <1>3, CountsTyped DEF ForeignArrives, C!ForeignArrives
    <3> QED
      BY <1>3, <3>1 DEF ForeignArrives, C!ForeignArrives, C!clientVars
  <2> QED
    BY <2>1 DEF OnlyCurrent, SamplesMatch, C!SamplesMatch
<1>4. CASE RequestArrives
  BY <1>0, <1>4, RequestSamples
<1>5. ASSUME NEW q \in Queues, ServerAnswers(q) PROVE OnlyCurrent' /\ SamplesMatch'
  BY <1>0, <1>5, AnswerSamples
<1>6. ASSUME NEW q \in Queues, ReplyLeavesWire(q) PROVE OnlyCurrent' /\ SamplesMatch'
  BY <1>0, <1>6, ReplySamples
<1>7. CASE UNCHANGED systemVars
  <2>1. UNCHANGED sampleVars
    BY <1>7 DEF systemVars, serviceVars, clientVars, latencyVars, throughputVars,
                sampleVars
  <2> QED
    BY <2>1, SamplesStay
<1> QED
  BY <1>1, <1>2, <1>3, <1>4, <1>5, <1>6, <1>7 DEF SystemNext

\* With nobody else sending, each latency is the time of a request and of its own
\* echo, however the server groups, drops and reorders what it gets.
THEOREM SamplesAreOwn == SystemSpec => []SamplesMatch
<1> DEFINE I == Typed /\ Budget /\ Kept /\ OnlyCurrent /\ SamplesMatch
<1>1. SystemInit => I
  <2> SUFFICES ASSUME SystemInit PROVE I
    OBVIOUS
  <2>1. /\ to_server = <<>> /\ rx_ring = <<>> /\ rcv_times = <<>>
        /\ pending = [q \in Queues |-> <<>>] /\ replied = [q \in Queues |-> <<>>]
    BY DEF SystemInit, Init, C!Init
  <2>2. Len(<<>>) = 0 /\ 1..0 = {}
    OBVIOUS
  <2>3. OnlyCurrent
    BY <2>1, <2>2 DEF OnlyCurrent
  <2>4. SamplesMatch
    BY <2>1, <2>2 DEF SamplesMatch, C!SamplesMatch, C!correct_echos
  <2> QED
    BY <2>3, <2>4, InitTyped, InitBudget
<1>2. I /\ [SystemNext]_systemVars => I'
  BY TypedKept, BudgetKept, SamplesKept
<1>3. I => SamplesMatch
  OBVIOUS
<1> QED
  BY <1>1, <1>2, <1>3, PTL DEF SystemSpec

------------------------------------------------------------------------------
(* The order of the echoes of a flow.                                      *)

\* The requests keep their numbers in order: a new one has the largest, and the
\* wire keeps the order.
LEMMA SendNumbered ==
  ASSUME Typed, Numbered, C!Send, UNCHANGED <<entered, throughputVars>>
  PROVE  Numbered'
<1>1. /\ requests' = requests + 1 /\ requests \in Nat /\ entered' = entered
      /\ tpc' = tpc /\ tpc = "idle"
      /\ to_server' = to_server \/ to_server' = Append(to_server, C!Crafted)
  BY SystemAssumption
  DEF C!Send, throughputVars, Typed, ClientTypes, C!TypeOK, Phases
<1>2. /\ to_server \in Seq(C!Request) /\ Len(to_server) \in Nat
      /\ entered \in Seq(C!Request) /\ Len(entered) \in Nat
  BY LenProperties DEF Typed, ClientTypes, C!TypeOK, History
<1>3. C!Crafted \in C!Request /\ C!Crafted.number = requests + 1
  BY CraftedTyped DEF Typed, ClientTypes
<1>4. /\ \A i \in 1..Len(to_server) : to_server[i].number <= requests
      /\ \A i \in 1..Len(to_server) : \A j \in 1..(i - 1) :
           to_server[j].number < to_server[i].number
      /\ \A i \in 1..Len(entered) : entered[i].number <= requests
      /\ \A i \in 1..Len(entered) : \A j \in 1..(i - 1) :
           entered[j].number < entered[i].number
      /\ \A i \in 1..Len(entered) : \A j \in 1..Len(to_server) :
           entered[i].number < to_server[j].number
  BY <1>1 DEF Numbered
<1>5. /\ \A i \in 1..Len(to_server) : to_server[i].number \in Nat
      /\ \A i \in 1..Len(entered) : entered[i].number \in Nat
  <2>1. \A x \in C!Request : x.number \in Nat
    BY DEF C!Request
  <2> QED
    BY <1>2, <2>1, ElementOfSeq
<1>6. /\ \A i \in 1..Len(to_server) : to_server[i].number < requests + 1
      /\ \A i \in 1..Len(entered) : entered[i].number < requests + 1
  BY <1>1, <1>4, <1>5
<1>7. CASE to_server' = to_server
  <2>1. /\ \A i \in 1..Len(to_server) : to_server[i].number <= requests + 1
        /\ \A i \in 1..Len(entered) : entered[i].number <= requests + 1
    BY <1>1, <1>5, <1>6
  <2> QED
    BY <1>1, <1>4, <1>7, <2>1 DEF Numbered
<1>8. CASE to_server' = Append(to_server, C!Crafted)
  <2> DEFINE n == Len(to_server) + 1
  <2>1. /\ Len(to_server') = n /\ to_server'[n].number = requests + 1
        /\ \A i \in 1..Len(to_server) : to_server'[i] = to_server[i]
    BY <1>2, <1>3, <1>8, AppendProperties
  <2>2. \A i \in 1..Len(to_server') : i = n \/ i \in 1..Len(to_server)
    BY <1>2, <2>1
  <2>3. /\ \A i \in 1..Len(to_server') : to_server'[i].number <= requests + 1
        /\ \A i \in 1..Len(entered) : entered[i].number <= requests + 1
    BY <1>1, <1>5, <1>6, <2>1, <2>2
  <2>4. ASSUME NEW i \in 1..Len(to_server'), NEW j \in 1..(i - 1)
        PROVE  to_server'[j].number < to_server'[i].number
    <3>1. j \in 1..Len(to_server)
      BY <1>2, <2>1
    <3> QED
      BY <1>4, <1>6, <2>1, <2>2, <3>1
  <2>5. ASSUME NEW i \in 1..Len(entered), NEW j \in 1..Len(to_server')
        PROVE  entered[i].number < to_server'[j].number
    BY <1>4, <1>6, <2>1, <2>2
  <2> QED
    BY <1>1, <1>4, <2>3, <2>4, <2>5 DEF Numbered
<1> QED
  BY <1>1, <1>7, <1>8

\* A request that enters the server is the next one there.
LEMMA RequestNumbered ==
  ASSUME Typed, Numbered, RequestArrives
  PROVE  Numbered'
<1> DEFINE n == Len(entered) + 1
<1>1. requests' = requests /\ tpc' = tpc
  BY DEF RequestArrives, clientVars, latencyVars, throughputVars
<1>2. SUFFICES ASSUME tpc = "idle" PROVE Numbered'
  BY <1>1 DEF Numbered
<1>3. /\ Len(to_server) \in Nat \ {0} /\ Head(to_server) = to_server[1]
      /\ Len(to_server') = Len(to_server) - 1
      /\ \A i \in 1..Len(to_server') : to_server'[i] = to_server[i + 1]
      /\ Len(entered') = n /\ entered'[n] = Head(to_server)
      /\ \A i \in 1..Len(entered) : entered'[i] = entered[i]
  BY RequestEffect
<1>4. Len(entered) \in Nat
  BY LenProperties DEF Typed, History
<1>5. /\ \A i \in 1..Len(to_server) : to_server[i].number <= requests
      /\ \A i \in 1..Len(to_server) : \A j \in 1..(i - 1) :
           to_server[j].number < to_server[i].number
      /\ \A i \in 1..Len(entered) : entered[i].number <= requests
      /\ \A i \in 1..Len(entered) : \A j \in 1..(i - 1) :
           entered[j].number < entered[i].number
      /\ \A i \in 1..Len(entered) : \A j \in 1..Len(to_server) :
           entered[i].number < to_server[j].number
  BY <1>2 DEF Numbered
<1>6. \A i \in 1..Len(entered') : i \in 1..Len(entered) \/ i = n
  BY <1>3, <1>4
<1>7. entered'[n] = to_server[1] /\ 1 \in 1..Len(to_server)
  BY <1>3
<1> HIDE DEF n
<1>8. ASSUME NEW i \in 1..Len(to_server')
      PROVE  /\ i + 1 \in 1..Len(to_server) /\ to_server'[i] = to_server[i + 1]
             /\ to_server[1].number < to_server[i + 1].number
  <2>1. i + 1 \in 1..Len(to_server) /\ 1 \in 1..(i + 1 - 1)
    BY <1>3
  <2> QED
    BY <1>3, <1>5, <2>1
<1>9. ASSUME NEW i \in 1..Len(to_server'), NEW j \in 1..(i - 1)
      PROVE  to_server'[j].number < to_server'[i].number
  <2>1. j \in 1..Len(to_server') /\ j + 1 \in 1..(i + 1 - 1)
    BY <1>3
  <2> QED
    BY <1>5, <1>8, <2>1, SMTT(30)
<1>10. ASSUME NEW i \in 1..Len(entered'), NEW j \in 1..(i - 1)
       PROVE  entered'[j].number < entered'[i].number
  <2>1. j \in 1..Len(entered)
    BY <1>3, <1>4 DEF n
  <2>2. CASE i \in 1..Len(entered)
    BY <1>3, <1>5, <2>1, <2>2
  <2>3. CASE i = n
    BY <1>3, <1>5, <1>7, <2>1, <2>3
  <2> QED
    BY <1>6, <2>2, <2>3
<1>11. ASSUME NEW i \in 1..Len(entered'), NEW j \in 1..Len(to_server')
       PROVE  entered'[i].number < to_server'[j].number
  <2>1. CASE i \in 1..Len(entered)
    BY <1>3, <1>5, <1>8, <2>1
  <2>2. CASE i = n
    BY <1>7, <1>8, <2>2
  <2> QED
    BY <1>6, <2>1, <2>2
<1>12. /\ \A i \in 1..Len(to_server') : to_server'[i].number <= requests
       /\ \A i \in 1..Len(entered') : entered'[i].number <= requests
  <2>1. ASSUME NEW i \in 1..Len(entered') PROVE entered'[i].number <= requests
    BY <1>3, <1>5, <1>6, <1>7
  <2> QED
    BY <1>5, <1>8, <2>1
<1> QED
  BY <1>1, <1>9, <1>10, <1>11, <1>12 DEF Numbered

\* Every step keeps the numbers in order.
LEMMA NumberedKept ==
  ASSUME Typed, Numbered, [SystemNext]_systemVars
  PROVE  Numbered'
<1>1. CASE UNCHANGED <<to_server, requests, entered, tpc>>
  BY <1>1 DEF Numbered
<1>2. CASE tpc' # "idle"
  BY <1>2 DEF Numbered
<1>3. CASE ClientSteps
  <2>1. entered' = entered
    BY <1>3 DEF ClientSteps
  <2>2. CASE C!Client /\ UNCHANGED throughputVars
    <3>1. CASE C!Send
      BY <2>1, <2>2, <3>1, SendNumbered
    <3>2. CASE C!Loop \/ C!CraftNull \/ C!Wait \/ C!EmptyPoll \/ C!Poll
      BY <1>1, <2>1, <2>2, <3>2
      DEF throughputVars, C!Loop, C!CraftNull, C!Wait, C!EmptyPoll, C!Poll, C!netVars
    <3> QED
      BY <2>2, <3>1, <3>2 DEF C!Client
  <2>3. CASE C!ThroughputTest
    BY <1>2, <2>3
    DEF C!ThroughputTest, C!StartThroughput, C!LookAtTime, C!CreateBurst, C!SendBurst,
        C!PollBurst
  <2> QED
    BY <1>3, <2>2, <2>3 DEF ClientSteps, C!RunClient, C!throughputVars, throughputVars
<1>4. CASE TimePasses \/ ForeignArrives
  BY <1>1, <1>4 DEF TimePasses, ForeignArrives, throughputVars, C!Tick, C!TimeIsOver,
                    C!ForeignArrives, C!vars, C!clientVars, C!netVars
<1>5. CASE RequestArrives
  BY <1>5, RequestNumbered
<1>6. CASE \E q \in Queues : ServerAnswers(q) \/ ReplyLeavesWire(q)
  BY <1>1, <1>6 DEF ServerAnswers, ReplyLeavesWire, clientVars, latencyVars,
                    throughputVars
<1>7. CASE UNCHANGED systemVars
  BY <1>1, <1>7 DEF systemVars, clientVars, latencyVars, throughputVars
<1> QED
  BY <1>3, <1>4, <1>5, <1>6, <1>7 DEF SystemNext

\* What has come back stays so: the history and the replies only grow.
LEMMA BackStays ==
  ASSUME Typed, [SystemNext]_systemVars, NEW p, Back(p)
  PROVE  Back(p)'
<1>0. PICK q \in Queues : \E j \in 1..returned[q] : p = entered[replied[q][j].id]
  BY DEF Back
<1>1. PICK j \in 1..returned[q] : p = entered[replied[q][j].id]
  BY <1>0
<1>2. /\ returned[q] \in Nat /\ j \in 1..Len(replied[q])
      /\ replied[q][j].id \in 1..Len(entered)
  <2>1. /\ returned[q] \in Nat /\ returned[q] <= Len(replied[q]) /\ Len(replied[q]) \in Nat
        /\ Len(entered) = Len(accepted)
    BY LenProperties DEF Typed, Inv, TypeOK, History
  <2>2. j \in 1..Len(replied[q])
    BY <2>1
  <2> QED
    BY <2>1, <2>2 DEF Typed, Inv, Answered
<1>3. SUFFICES /\ returned'[q] \in Nat /\ returned'[q] >= returned[q]
               /\ replied'[q][j] = replied[q][j]
               /\ entered'[replied[q][j].id] = entered[replied[q][j].id]
  <2>1. returned'[q] \in Nat /\ returned'[q] >= returned[q] => j \in 1..returned'[q]
    BY <1>2
  <2> QED
    BY <1>1, <2>1 DEF Back
<1>4. CASE UNCHANGED <<returned, replied, entered>>
  BY <1>2, <1>4
<1>5. CASE ClientSteps \/ TimePasses \/ ForeignArrives \/ UNCHANGED systemVars
  BY <1>4, <1>5 DEF ClientSteps, TimePasses, ForeignArrives, systemVars, serviceVars
<1>6. CASE RequestArrives
  <2>1. returned' = returned /\ replied' = replied
    BY <1>6 DEF RequestArrives, Accept
  <2>2. \A i \in 1..Len(entered) : entered'[i] = entered[i]
    BY <1>6, RequestEffect
  <2> QED
    BY <1>2, <2>1, <2>2
<1>7. ASSUME NEW r \in Queues, ServerAnswers(r)
      PROVE  /\ returned'[q] \in Nat /\ returned'[q] >= returned[q]
             /\ replied'[q][j] = replied[q][j]
             /\ entered'[replied[q][j].id] = entered[replied[q][j].id]
  <2>1. returned' = returned /\ entered' = entered /\ Answer(r) /\ TypeOK
    BY <1>7 DEF ServerAnswers, Typed, Inv
  <2>2. CASE q # r
    BY <1>2, <2>1, <2>2, AnswerEffect
  <2>3. CASE q = r
    BY <1>2, <2>1, <2>3, AnswerEffect
  <2> QED
    BY <2>2, <2>3
<1>8. ASSUME NEW r \in Queues, ReplyLeavesWire(r)
      PROVE  /\ returned'[q] \in Nat /\ returned'[q] >= returned[q]
             /\ replied'[q][j] = replied[q][j]
             /\ entered'[replied[q][j].id] = entered[replied[q][j].id]
  <2>1. replied' = replied /\ entered' = entered
    BY <1>8 DEF ReplyLeavesWire, serviceVars
  <2>2. /\ returned'[r] = returned[r] + 1
        /\ \A s \in Queues \ {r} : returned'[s] = returned[s]
    BY <1>8, ReplyEffect
  <2>3. returned'[q] \in Nat /\ returned'[q] >= returned[q]
    BY <1>2, <2>2
  <2> QED
    BY <2>1, <2>3
<1> QED
  BY <1>5, <1>6, <1>7, <1>8 DEF SystemNext

\* What comes back now was sent after all that has come back of the same flow: RSS
\* gives a flow one queue, and within a queue no reply overtakes another.
LEMMA LaterOfFlow ==
  ASSUME Typed, Numbered, tpc = "idle", NEW q \in Queues,
         NEW n \in 1..Len(replied[q]), n = returned[q] + 1,
         NEW x, Back(x), SameFlow(x, entered[replied[q][n].id])
  PROVE  x.number < entered[replied[q][n].id].number
<1> DEFINE p == entered[replied[q][n].id]
<1>0. PICK r \in Queues : \E j \in 1..returned[r] : x = entered[replied[r][j].id]
  BY DEF Back
<1>1. PICK j \in 1..returned[r] : x = entered[replied[r][j].id]
  BY <1>0
<1>2. /\ \A s \in Queues : returned[s] \in Nat /\ returned[s] <= Len(replied[s])
      /\ \A s \in Queues : Len(replied[s]) \in Nat
      /\ Len(entered) = Len(accepted) /\ Len(accepted) \in Nat
      /\ \A i \in 1..Len(entered) : accepted[i] = Header(entered[i])
  BY LenProperties DEF Typed, Inv, TypeOK, History
<1>3. j \in 1..Len(replied[r]) /\ j \in Nat /\ n \in Nat
  BY <1>2
<1>4. /\ replied[r][j].id \in 1..Len(entered)
      /\ Rss[accepted[replied[r][j].id]] = r
      /\ replied[q][n].id \in 1..Len(entered)
      /\ Rss[accepted[replied[q][n].id]] = q
  BY <1>2, <1>3 DEF Typed, Inv, Answered
<1>5. Rss[Header(x)] = r /\ Rss[Header(p)] = q
  BY <1>1, <1>2, <1>4
<1>6. Header(x) = Header(p)
  BY DEF Header, SameFlow
<1>7. r = q /\ j \in 1..(n - 1)
  <2>1. r = q
    BY <1>5, <1>6
  <2>2. j \in 1..returned[q]
    BY <2>1
  <2> QED
    BY <1>2, <2>1, <2>2
<1>8. replied[q][j].id < replied[q][n].id
  BY <1>7 DEF Typed, Inv, Answered
<1>9. replied[q][j].id \in 1..(replied[q][n].id - 1)
  <2>1. /\ replied[q][j].id \in 1..Len(entered) /\ replied[q][n].id \in 1..Len(entered)
        /\ Len(entered) \in Nat
    BY <1>2, <1>4, <1>7
  <2> QED
    BY <1>8, <2>1, SMTT(30)
<1> QED
  BY <1>1, <1>4, <1>7, <1>9 DEF Numbered

\* Steps that touch neither the ring nor the samples.
LEMMA OrderStays ==
  ASSUME Typed, RingOrder, SampleOrder, [SystemNext]_systemVars,
         tpc' = "idle" => tpc = "idle" /\ rx_ring' = rx_ring, rcv_times' = rcv_times
  PROVE  RingOrder' /\ SampleOrder'
<1>1. RingOrder'
  <2> SUFFICES ASSUME tpc' = "idle", NEW i \in 1..Len(rx_ring'), rx_ring'[i] # C!Other
               PROVE  /\ Back(rx_ring[i])'
                      /\ \A k \in 1..Len(rcv_times') :
                           SameFlow(rcv_times[k], rx_ring[i])'
                             => rcv_times'[k].number < rx_ring'[i].number
                      /\ \A k \in 1..(i - 1) :
                           rx_ring'[k] # C!Other /\ SameFlow(rx_ring[k], rx_ring[i])'
                             => rx_ring'[k].number < rx_ring'[i].number
    BY DEF RingOrder, C!Other
  <2>1. rx_ring' = rx_ring /\ tpc = "idle"
    OBVIOUS
  <2>2. Back(rx_ring[i])
    BY <2>1 DEF RingOrder
  <2>3. Back(rx_ring[i])'
    BY <2>1, <2>2, BackStays
  <2> QED
    BY <2>1, <2>3 DEF RingOrder, SameFlow, C!flow_src_port
<1>2. SampleOrder'
  <2> SUFFICES ASSUME NEW i \in 1..Len(rcv_times)
               PROVE  tpc' = "idle" => Back(rcv_times[i])'
    BY DEF SampleOrder, SameFlow, C!flow_src_port
  <2>1. tpc' = "idle" => Back(rcv_times[i])
    BY DEF SampleOrder
  <2> QED
    BY <2>1, BackStays
<1> QED
  BY <1>1, <1>2

\* A poll takes the oldest packet of the ring as a sample, if it is of the flow that
\* is expected; what is behind it is younger.
LEMMA PollOrder ==
  ASSUME Typed, RingOrder, SampleOrder, [SystemNext]_systemVars, C!Poll,
         UNCHANGED throughputVars
  PROVE  RingOrder' /\ SampleOrder'
<1>1. /\ rx_ring \in Seq(C!Request \union {C!Other}) /\ Len(rx_ring) \in Nat
      /\ rcv_times \in Seq(C!Request) /\ Len(rcv_times) \in Nat
      /\ tpc = "idle" /\ tpc' = "idle"
  BY LenProperties DEF Typed, ClientTypes, C!TypeOK, Phases, C!Poll, throughputVars
<1>2. PICK nb_rx \in 1..Len(rx_ring) :
        rx_ring' = SubSeq(rx_ring, nb_rx + 1, Len(rx_ring))
  BY DEF C!Poll
<1>3. /\ Len(rx_ring') = Len(rx_ring) - nb_rx
      /\ \A i \in 1..Len(rx_ring') : rx_ring'[i] = rx_ring[nb_rx + i]
  <2>1. nb_rx \in 0..Len(rx_ring)
    BY <1>1, <1>2
  <2> QED
    BY <1>1, <1>2, <2>1, CutFront
<1>4. ASSUME NEW i \in 1..Len(rx_ring), rx_ring[i] # C!Other
      PROVE  /\ Back(rx_ring[i])
             /\ \A k \in 1..Len(rcv_times) :
                  SameFlow(rcv_times[k], rx_ring[i])
                    => rcv_times[k].number < rx_ring[i].number
             /\ \A k \in 1..(i - 1) :
                  rx_ring[k] # C!Other /\ SameFlow(rx_ring[k], rx_ring[i])
                    => rx_ring[k].number < rx_ring[i].number
  BY <1>1, <1>4 DEF RingOrder
<1>5. ASSUME NEW i \in 1..Len(rcv_times)
      PROVE  /\ Back(rcv_times[i])
             /\ C!flow_src_port(rcv_times[i].sample) = C!flow_src_port(i - 1)
             /\ \A k \in 1..(i - 1) :
                  SameFlow(rcv_times[k], rcv_times[i])
                    => rcv_times[k].number < rcv_times[i].number
  BY <1>1 DEF SampleOrder
<1>6. Head(rx_ring) = rx_ring[1] /\ 1 \in 1..Len(rx_ring)
  BY <1>1, <1>2
<1>7. \/ rcv_times' = rcv_times
      \/ /\ Len(rcv_times') = Len(rcv_times) + 1
         /\ \A k \in 1..Len(rcv_times) : rcv_times'[k] = rcv_times[k]
         /\ rcv_times'[Len(rcv_times) + 1] = rx_ring[1]
         /\ rx_ring[1] # C!Other
         /\ C!flow_src_port(rx_ring[1].sample) = C!flow_src_port(Len(rcv_times))
  <2>1. CASE rcv_times' = Append(rcv_times, Head(rx_ring)) /\ C!Matches(Head(rx_ring))
    <3>1. /\ rx_ring[1] # C!Other
          /\ C!flow_src_port(rx_ring[1].sample) = C!flow_src_port(Len(rcv_times))
      BY <1>6, <2>1 DEF C!Matches, C!correct_echos
    <3>2. rx_ring[1] \in C!Request
      BY <1>1, <1>6, <3>1, ElementOfSeq
    <3> QED
      BY <1>1, <1>6, <2>1, <3>1, <3>2, AppendProperties
  <2>2. CASE rcv_times' = rcv_times
    BY <2>2
  <2> QED
    BY <2>1, <2>2 DEF C!Poll
<1>8. ASSUME NEW i \in 1..Len(rx_ring'), rx_ring'[i] # C!Other
      PROVE  /\ Back(rx_ring[nb_rx + i])
             /\ \A k \in 1..Len(rcv_times') :
                  SameFlow(rcv_times'[k], rx_ring'[i])
                    => rcv_times'[k].number < rx_ring'[i].number
             /\ \A k \in 1..(i - 1) :
                  rx_ring'[k] # C!Other /\ SameFlow(rx_ring'[k], rx_ring'[i])
                    => rx_ring'[k].number < rx_ring'[i].number
  <2>1. /\ nb_rx + i \in 1..Len(rx_ring) /\ rx_ring'[i] = rx_ring[nb_rx + i]
        /\ 1 \in 1..(nb_rx + i - 1)
    BY <1>1, <1>2, <1>3, SMTT(30)
  <2>2. ASSUME NEW k \in 1..Len(rcv_times'), SameFlow(rcv_times'[k], rx_ring'[i])
        PROVE  rcv_times'[k].number < rx_ring'[i].number
    <3>1. CASE k \in 1..Len(rcv_times) /\ rcv_times'[k] = rcv_times[k]
      BY <1>4, <1>8, <2>1, <2>2, <3>1
    <3>2. CASE rcv_times'[k] = rx_ring[1] /\ rx_ring[1] # C!Other
      BY <1>4, <1>8, <2>1, <2>2, <3>2
    <3>3. \/ k \in 1..Len(rcv_times) /\ rcv_times'[k] = rcv_times[k]
          \/ rcv_times'[k] = rx_ring[1] /\ rx_ring[1] # C!Other
      <4>1. CASE rcv_times' = rcv_times
        BY <4>1
      <4>2. CASE rcv_times' # rcv_times
        BY <1>1, <1>7, <4>2
      <4> QED
        BY <4>1, <4>2
    <3> QED
      BY <3>1, <3>2, <3>3
  <2>3. ASSUME NEW k \in 1..(i - 1), rx_ring'[k] # C!Other,
               SameFlow(rx_ring'[k], rx_ring'[i])
        PROVE  rx_ring'[k].number < rx_ring'[i].number
    <3>1. /\ nb_rx + k \in 1..(nb_rx + i - 1) /\ rx_ring'[k] = rx_ring[nb_rx + k]
      BY <1>1, <1>2, <1>3, SMTT(30)
    <3> QED
      BY <1>4, <1>8, <2>1, <2>3, <3>1
  <2>4. Back(rx_ring[nb_rx + i])
    BY <1>4, <1>8, <2>1
  <2> QED
    BY <2>2, <2>3, <2>4
<1>9. RingOrder'
  <2> SUFFICES ASSUME NEW i \in 1..Len(rx_ring'), rx_ring'[i] # C!Other
               PROVE  Back(rx_ring[i])'
    BY <1>8 DEF RingOrder, C!Other, SameFlow, C!flow_src_port
  <2>1. Back(rx_ring[nb_rx + i]) /\ rx_ring'[i] = rx_ring[nb_rx + i]
    BY <1>3, <1>8
  <2> QED
    BY <2>1, BackStays
<1>10. ASSUME NEW i \in 1..Len(rcv_times')
       PROVE  /\ C!flow_src_port(rcv_times'[i].sample) = C!flow_src_port(i - 1)
              /\ \A k \in 1..(i - 1) :
                   SameFlow(rcv_times'[k], rcv_times'[i])
                     => rcv_times'[k].number < rcv_times'[i].number
  <2>1. CASE i \in 1..Len(rcv_times) /\ \A k \in 1..i : rcv_times'[k] = rcv_times[k]
    <3>1. i \in 1..i /\ \A k \in 1..(i - 1) : k \in 1..i
      OBVIOUS
    <3> QED
      BY <1>5, <2>1, <3>1
  <2>2. CASE /\ i = Len(rcv_times) + 1 /\ rcv_times'[i] = rx_ring[1]
             /\ \A k \in 1..Len(rcv_times) : rcv_times'[k] = rcv_times[k]
             /\ rx_ring[1] # C!Other
             /\ C!flow_src_port(rx_ring[1].sample) = C!flow_src_port(Len(rcv_times))
    <3>1. i - 1 = Len(rcv_times)
      BY <1>1, <2>2
    <3> QED
      BY <1>4, <1>6, <2>2, <3>1
  <2>3. i \in 1..Len(rcv_times) => \A k \in 1..i : k \in 1..Len(rcv_times)
    BY <1>1
  <2> QED
    BY <1>1, <1>7, <2>1, <2>2, <2>3
<1>11. ASSUME NEW i \in 1..Len(rcv_times') PROVE Back(rcv_times'[i])
  <2>1. CASE i \in 1..Len(rcv_times) /\ rcv_times'[i] = rcv_times[i]
    BY <1>5, <2>1
  <2>2. CASE rcv_times'[i] = rx_ring[1] /\ rx_ring[1] # C!Other
    BY <1>4, <1>6, <2>2
  <2> QED
    BY <1>1, <1>7, <2>1, <2>2
<1>12. SampleOrder'
  <2> SUFFICES ASSUME NEW i \in 1..Len(rcv_times') PROVE Back(rcv_times[i])'
    BY <1>10 DEF SampleOrder, SameFlow, C!flow_src_port
  <2> QED
    BY <1>11, BackStays
<1> QED
  BY <1>9, <1>12

\* A packet put behind what waits in the ring keeps the order, if it is from
\* elsewhere or has just come back and was sent after all of its flow before it.
LEMMA RingGrows ==
  ASSUME Typed, RingOrder, SampleOrder, [SystemNext]_systemVars,
         rcv_times' = rcv_times, tpc' = tpc, NEW p,
         Len(rx_ring') = Len(rx_ring) + 1,
         \A i \in 1..Len(rx_ring) : rx_ring'[i] = rx_ring[i],
         rx_ring'[Len(rx_ring) + 1] = p,
         tpc = "idle" /\ p # C!Other =>
           /\ Back(p)'
           /\ \A x : Back(x) /\ SameFlow(x, p) => x.number < p.number
  PROVE  RingOrder' /\ SampleOrder'
<1>1. Len(rx_ring) \in Nat
  BY CountsTyped
<1>2. RingOrder'
  <2>1. ASSUME tpc = "idle", NEW i \in 1..Len(rx_ring'), rx_ring'[i] # C!Other
        PROVE  /\ \/ Back(rx_ring'[i])
                  \/ rx_ring'[i] = p /\ p # C!Other
               /\ \A k \in 1..Len(rcv_times) :
                    SameFlow(rcv_times[k], rx_ring'[i])
                      => rcv_times[k].number < rx_ring'[i].number
               /\ \A k \in 1..(i - 1) :
                    rx_ring'[k] # C!Other /\ SameFlow(rx_ring'[k], rx_ring'[i])
                      => rx_ring'[k].number < rx_ring'[i].number
    <3>1. CASE i \in 1..Len(rx_ring)
      <4>1. rx_ring'[i] = rx_ring[i] /\ \A k \in 1..(i - 1) : rx_ring'[k] = rx_ring[k]
        BY <1>1, <3>1
      <4> QED
        BY <2>1, <3>1, <4>1 DEF RingOrder
    <3>2. CASE i = Len(rx_ring) + 1
      <4>1. rx_ring'[i] = p /\ p # C!Other
        BY <2>1, <3>2
      <4>2. \A k \in 1..Len(rcv_times) : Back(rcv_times[k])
        BY <2>1 DEF SampleOrder
      <4>3. ASSUME NEW k \in 1..(i - 1), rx_ring'[k] # C!Other
            PROVE  Back(rx_ring'[k])
        <5>1. k \in 1..Len(rx_ring) /\ rx_ring'[k] = rx_ring[k]
          BY <1>1, <3>2
        <5> QED
          BY <2>1, <4>3, <5>1 DEF RingOrder
      <4> QED
        BY <2>1, <4>1, <4>2, <4>3
    <3> QED
      BY <1>1, <3>1, <3>2
  <2>2. ASSUME tpc = "idle", NEW i \in 1..Len(rx_ring'), rx_ring'[i] # C!Other
        PROVE  Back(rx_ring[i])'
    <3>1. CASE Back(rx_ring'[i])
      BY <3>1, BackStays
    <3>2. CASE rx_ring'[i] = p /\ p # C!Other
      BY <2>2, <3>2
    <3> QED
      BY <2>1, <2>2, <3>1, <3>2
  <2> QED
    BY <2>1, <2>2 DEF RingOrder, C!Other, SameFlow, C!flow_src_port
<1>3. SampleOrder'
  <2> SUFFICES ASSUME NEW i \in 1..Len(rcv_times)
               PROVE  tpc' = "idle" => Back(rcv_times[i])'
    BY DEF SampleOrder, SameFlow, C!flow_src_port
  <2>1. tpc' = "idle" => Back(rcv_times[i])
    BY DEF SampleOrder
  <2> QED
    BY <2>1, BackStays
<1> QED
  BY <1>2, <1>3

\* A reply that comes back is younger than all of its flow that has.
LEMMA ReplyOrder ==
  ASSUME Typed, Numbered, RingOrder, SampleOrder, NEW q \in Queues, ReplyLeavesWire(q)
  PROVE  RingOrder' /\ SampleOrder'
<1>0. PICK n, p : n = returned[q] + 1 /\ p = entered[replied[q][n].id]
  OBVIOUS
<1>1. /\ n \in 1..Len(replied[q])
      /\ returned'[q] = n /\ n \in Nat /\ n >= 1
      /\ \/ rx_ring' = rx_ring
         \/ /\ Len(rx_ring') = Len(rx_ring) + 1
            /\ \A i \in 1..Len(rx_ring) : rx_ring'[i] = rx_ring[i]
            /\ rx_ring'[Len(rx_ring) + 1] = p
  BY <1>0, ReplyEffect DEF Typed, History
<1>2. /\ [SystemNext]_systemVars /\ rcv_times' = rcv_times /\ tpc' = tpc
      /\ entered' = entered /\ replied' = replied
  BY DEF ReplyLeavesWire, SystemNext, latencyVars, throughputVars, serviceVars
<1>3. CASE rx_ring' = rx_ring
  BY <1>2, <1>3, OrderStays
<1>4. CASE rx_ring' # rx_ring
  <2>1. Back(p)'
    <3>1. n \in 1..returned'[q] /\ p = entered'[replied'[q][n].id]
      BY <1>0, <1>1, <1>2
    <3> QED
      BY <3>1 DEF Back
  <2>2. tpc = "idle" => \A x : Back(x) /\ SameFlow(x, p) => x.number < p.number
    BY <1>0, <1>1, LaterOfFlow
  <2> QED
    BY <1>1, <1>2, <1>4, <2>1, <2>2, RingGrows
<1> QED
  BY <1>3, <1>4

\* Every step keeps the order.
LEMMA OrderKept ==
  ASSUME Typed, Numbered, RingOrder, SampleOrder, [SystemNext]_systemVars
  PROVE  RingOrder' /\ SampleOrder'
<1>1. CASE tpc' = tpc /\ rx_ring' = rx_ring /\ rcv_times' = rcv_times
  BY <1>1, OrderStays
<1>2. CASE ClientSteps
  <2>1. CASE C!Client /\ UNCHANGED throughputVars
    <3>1. CASE C!Poll
      BY <2>1, <3>1, PollOrder
    <3>2. CASE C!Loop \/ C!Send \/ C!CraftNull \/ C!Wait \/ C!EmptyPoll
      BY <1>1, <2>1, <3>2
      DEF throughputVars, C!Loop, C!Send, C!CraftNull, C!Wait, C!EmptyPoll, C!netVars
    <3> QED
      BY <2>1, <3>1, <3>2 DEF C!Client
  <2>2. CASE C!ThroughputTest
    <3>1. tpc' # "idle" /\ rcv_times' = rcv_times
      BY <2>2
      DEF C!ThroughputTest, C!StartThroughput, C!LookAtTime, C!CreateBurst, C!SendBurst,
          C!PollBurst, C!vars, C!clientVars
    <3> QED
      BY <3>1, OrderStays
  <2> QED
    BY <1>2, <2>1, <2>2 DEF ClientSteps, C!RunClient, C!throughputVars, throughputVars
<1>3. CASE TimePasses
  BY <1>1, <1>3
  DEF TimePasses, throughputVars, C!Tick, C!TimeIsOver, C!vars, C!clientVars, C!netVars
<1>4. CASE ForeignArrives
  <2>1. /\ rx_ring' = Append(rx_ring, C!Other) /\ rcv_times' = rcv_times /\ tpc' = tpc
    BY <1>4 DEF ForeignArrives, C!ForeignArrives, C!clientVars, throughputVars
  <2>2. rx_ring \in Seq(C!Request \union {C!Other}) /\ C!Other \in C!Request \union {C!Other}
    BY DEF Typed, ClientTypes, C!TypeOK
  <2>3. PICK p : p = C!Other
    OBVIOUS
  <2>4. /\ Len(rx_ring') = Len(rx_ring) + 1
        /\ \A i \in 1..Len(rx_ring) : rx_ring'[i] = rx_ring[i]
        /\ rx_ring'[Len(rx_ring) + 1] = p
    BY <2>1, <2>2, <2>3, AppendProperties
  <2> QED
    BY <2>1, <2>3, <2>4, RingGrows
<1>5. CASE RequestArrives
  BY <1>1, <1>5 DEF RequestArrives, clientVars, latencyVars, throughputVars
<1>6. ASSUME NEW q \in Queues, ServerAnswers(q) PROVE RingOrder' /\ SampleOrder'
  BY <1>1, <1>6 DEF ServerAnswers, clientVars, latencyVars, throughputVars
<1>7. ASSUME NEW q \in Queues, ReplyLeavesWire(q) PROVE RingOrder' /\ SampleOrder'
  BY <1>7, ReplyOrder
<1>8. CASE UNCHANGED systemVars
  BY <1>1, <1>8 DEF systemVars, clientVars, latencyVars, throughputVars
<1> QED
  BY <1>2, <1>3, <1>4, <1>5, <1>6, <1>7, <1>8 DEF SystemNext

\* Whoever else sends, the samples of a flow are echoes of its requests in the order
\* they went out: on any number of queues and with any mapping of flows to them.
THEOREM FlowsInOrder == SystemSpec => []EchoesInFlowOrder
<1> DEFINE I == Typed /\ Numbered /\ RingOrder /\ SampleOrder
<1>1. SystemInit => I
  <2> SUFFICES ASSUME SystemInit PROVE I
    OBVIOUS
  <2>1. to_server = <<>> /\ rx_ring = <<>> /\ rcv_times = <<>> /\ entered = <<>>
    BY DEF SystemInit, C!Init
  <2>2. Len(<<>>) = 0 /\ 1..0 = {}
    OBVIOUS
  <2>3. Numbered
    BY <2>1, <2>2 DEF Numbered
  <2>4. RingOrder /\ SampleOrder
    BY <2>1, <2>2 DEF RingOrder, SampleOrder
  <2> QED
    BY <2>3, <2>4, InitTyped
<1>2. I /\ [SystemNext]_systemVars => I'
  BY TypedKept, NumberedKept, OrderKept
<1>3. I => EchoesInFlowOrder
  <2> SUFFICES ASSUME I, NEW i \in 1..Len(rcv_times), NEW j \in 1..Len(rcv_times), i < j,
                      C!flow_src_port(i - 1) = C!flow_src_port(j - 1)
               PROVE  rcv_times[i].number < rcv_times[j].number
    BY DEF EchoesInFlowOrder
  <2>1. i \in 1..(j - 1)
    OBVIOUS
  <2>2. SameFlow(rcv_times[i], rcv_times[j])
    BY DEF SampleOrder, SameFlow
  <2> QED
    BY <2>1, <2>2 DEF SampleOrder
<1> QED
  BY <1>1, <1>2, <1>3, PTL DEF SystemSpec
==============================================================================
