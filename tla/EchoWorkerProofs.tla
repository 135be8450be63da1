-------------------------- MODULE EchoWorkerProofs ---------------------------
(***************************************************************************)
(* What EchoWorker satisfies for every number of queues, mbufs and packets *)
(* and every ring and burst size: its types, that no mbuf is ever leaked,  *)
(* freed twice or held by two workers at once, that the counters and the   *)
(* [profile] lines made from them account for every packet, that the       *)
(* checksums of what is sent are as the mode promises, and that the server *)
(* is an EchoService and so answers in order and loses nothing uncounted.  *)
(*                                                                         *)
(* The types alone are not inductive.  A batch can only be rewritten if    *)
(* each of its mbufs carries a packet; this holds because they are not in  *)
(* the pool; and that needs the ownership invariant.  And a poll only      *)
(* keeps the mbufs of the batch before it because there are none.          *)
(***************************************************************************)
EXTENDS EchoWorker, OwnershipLemmas, DataLemmas

\* Whoever holds an mbuf finds a packet in it.
HeldCarry == \A m \in Mbufs \ pool : pkt[m] \in Packet

\* There is a batch in rx_bufs only from the poll to the sending.
NoBatch == \A q \in Queues : pc[q] \in {"poll", "loop_end"} => rx_bufs[q] = <<>>

Inv == TypeOK /\ MbufOwnership /\ HeldCarry /\ NoBatch

\* What a worker holds, part by part, and that none of it is free.
LEMMA HeldByParts ==
  ASSUME TypeOK, MbufOwnership, NEW q \in Queues
  PROVE  /\ tx_ring[q] \in Seq(Mbufs) /\ rx_bufs[q] \in Seq(Mbufs)
         /\ rx_ring[q] \in Seq(Mbufs)
         /\ Held[q] = tx_ring[q] \o rx_bufs[q] \o rx_ring[q]
         /\ Range(Held[q]) = Range(tx_ring[q]) \union Range(rx_bufs[q])
                               \union Range(rx_ring[q])
         /\ Range(Held[q]) \subseteq Mbufs \ pool
         /\ IsInjective(Held[q])
         /\ IsInjective(tx_ring[q]) /\ IsInjective(rx_bufs[q])
         /\ IsInjective(rx_ring[q])
         /\ Range(tx_ring[q]) \intersect Range(rx_bufs[q]) = {}
         /\ Range(tx_ring[q]) \intersect Range(rx_ring[q]) = {}
         /\ Range(rx_bufs[q]) \intersect Range(rx_ring[q]) = {}
<1>1. /\ tx_ring[q] \in Seq(Mbufs) /\ rx_bufs[q] \in Seq(Mbufs)
      /\ rx_ring[q] \in Seq(Mbufs)
  BY DEF TypeOK, PortTypeOK, WorkerTypeOK
<1>2. Held[q] = tx_ring[q] \o rx_bufs[q] \o rx_ring[q]
  BY DEF Held
<1>3. IsInjective(Held[q]) /\ Range(Held[q]) \intersect pool = {}
  BY DEF MbufOwnership, OwnedOnce
<1>4. Range(Held[q]) = Range(tx_ring[q]) \union Range(rx_bufs[q])
                         \union Range(rx_ring[q])
  BY <1>1, <1>2, ThreeParts
<1>5. /\ IsInjective(tx_ring[q]) /\ IsInjective(rx_bufs[q])
      /\ IsInjective(rx_ring[q])
      /\ Range(tx_ring[q]) \intersect Range(rx_bufs[q]) = {}
      /\ Range(tx_ring[q]) \intersect Range(rx_ring[q]) = {}
      /\ Range(rx_bufs[q]) \intersect Range(rx_ring[q]) = {}
  BY <1>1, <1>2, <1>3, ThreeParts
<1>6. /\ Range(tx_ring[q]) \subseteq Mbufs /\ Range(rx_bufs[q]) \subseteq Mbufs
      /\ Range(rx_ring[q]) \subseteq Mbufs
  BY <1>1, RangeOfSeq
<1> QED
  BY <1>1, <1>2, <1>3, <1>4, <1>5, <1>6

\* At the start all mbufs are in the pool.
LEMMA InvInit == Init => Inv
<1> SUFFICES ASSUME Init PROVE Inv
  OBVIOUS
<1>1. /\ <<>> \in Seq(Mbufs) /\ <<>> \in Seq(Traffic) /\ <<>> \in Seq(Packet)
      /\ Range(<<>>) = {} /\ IsInjective(<<>>)
      /\ <<>> \o <<>> \o <<>> = <<>>
  BY DEF Range, IsInjective
<1>2. TypeOK
  BY <1>1 DEF Init, PortInit, WorkerInit, TypeOK, PortTypeOK, WorkerTypeOK,
              ZeroCounters, Counters
<1>3. \A q \in Queues : Held[q] = <<>>
  BY <1>1 DEF Init, PortInit, WorkerInit, Held
<1>4. MbufOwnership
  BY <1>1, <1>3 DEF MbufOwnership, OwnedOnce, Init, PortInit
<1>5. HeldCarry /\ NoBatch
  BY DEF Init, PortInit, WorkerInit, HeldCarry, NoBatch
<1> QED
  BY <1>2, <1>4, <1>5 DEF Inv

\* A packet that arrives takes an mbuf from the pool to the right end of what
\* the worker of its queue holds.
LEMMA InvDeliver ==
  ASSUME Inv, NEW h \in Traffic, Deliver(h), UNCHANGED workerVars
  PROVE  Inv'
<1> DEFINE q == Rss[h]
           p == [id |-> Len(requests) + 1, src |-> h.src, dst |-> h.dst,
                 cksum |-> "good"]
<1>1. PICK m \in pool :
        /\ pool' = pool \ {m}
        /\ rx_ring' = [rx_ring EXCEPT ![q] = Append(@, m)]
        /\ pkt' = [pkt EXCEPT ![m] = p]
  BY Zenon DEF Deliver
<1>2. /\ requests' = Append(requests, h) /\ Len(requests) < MaxRequests
      /\ UNCHANGED <<tx_ring, wire>> /\ UNCHANGED workerVars
  BY DEF Deliver
<1>3. TypeOK /\ MbufOwnership /\ HeldCarry /\ NoBatch
  BY DEF Inv
<1>4. q \in Queues /\ m \in Mbufs /\ h \in Header
  BY <1>3, PortAssumption DEF TypeOK, PortTypeOK
<1>5. p \in Packet
  <2>1. Len(requests) \in Nat
    BY <1>3, LenProperties DEF TypeOK, PortTypeOK
  <2> QED
    BY <1>2, <1>4, <2>1, PortAssumption DEF Packet, Header, CksumState
<1> HIDE DEF q, p
<1>6. /\ rx_ring'[q] = Append(rx_ring[q], m)
      /\ \A r \in Queues \ {q} : rx_ring'[r] = rx_ring[r]
      /\ rx_ring' \in [Queues -> Seq(Mbufs)]
  <2>1. rx_ring \in [Queues -> Seq(Mbufs)]
    BY <1>3 DEF TypeOK, PortTypeOK
  <2>2. Append(rx_ring[q], m) \in Seq(Mbufs)
    BY <1>4, <2>1, AppendProperties
  <2> QED
    BY <1>1, <1>4, <2>1, <2>2
<1>7. /\ pkt'[m] = p
      /\ \A n \in Mbufs \ {m} : pkt'[n] = pkt[n]
      /\ pkt' \in [Mbufs -> Packet \union {NoPacket}]
  BY <1>1, <1>3, <1>4, <1>5 DEF TypeOK, PortTypeOK
<1>8. TypeOK'
  <2>1. requests' \in Seq(Traffic)
    BY <1>2, <1>3, AppendProperties DEF TypeOK, PortTypeOK
  <2> QED
    BY <1>1, <1>2, <1>3, <1>6, <1>7, <2>1
    DEF TypeOK, PortTypeOK, WorkerTypeOK, workerVars
<1>9. MbufOwnership'
  <2>1. Held'[q] = tx_ring[q] \o rx_bufs[q] \o Append(rx_ring[q], m)
    BY <1>2, <1>4, <1>6 DEF Held, workerVars
  <2>2. m \notin Range(Held[q])
    BY <1>3, <1>4, HeldByParts
  <2>3. /\ tx_ring[q] \in Seq(Mbufs) /\ rx_bufs[q] \in Seq(Mbufs)
        /\ rx_ring[q] \in Seq(Mbufs) /\ IsInjective(Held[q])
        /\ Held[q] = tx_ring[q] \o rx_bufs[q] \o rx_ring[q]
    BY <1>3, <1>4, HeldByParts
  <2>5. /\ Range(Held'[q]) = Range(Held[q]) \union {m}
        /\ IsInjective(Held'[q])
    BY <1>4, <2>1, <2>2, <2>3, EnterRight
  <2>6. \A r \in Queues \ {q} : Held'[r] = Held[r]
    BY <1>2, <1>6 DEF Held, workerVars
  <2>7. Range(Held[q]) \intersect pool = {}
    BY <1>3, <1>4, HeldByParts
  <2>8. /\ Range(Held'[q]) \union pool' = Range(Held[q]) \union pool
        /\ Range(Held'[q]) \intersect pool' = {}
    BY <1>1, <2>5, <2>7
  <2>9. OwnedOnce(Held', pool')
    BY <1>3, <1>4, <2>5, <2>6, <2>8, OneWorkerMoves DEF MbufOwnership
  <2> QED
    BY <2>9 DEF MbufOwnership
<1>10. HeldCarry' /\ NoBatch'
  BY <1>1, <1>2, <1>3, <1>5, <1>7 DEF HeldCarry, NoBatch, workerVars
<1> QED
  BY <1>8, <1>9, <1>10 DEF Inv

\* The NIC takes the oldest mbuf of a TX ring back to the pool.
LEMMA InvTransmit ==
  ASSUME Inv, NEW q \in Queues, Transmit(q), UNCHANGED workerVars
  PROVE  Inv'
<1> DEFINE m == Head(tx_ring[q])
<1>1. /\ tx_ring[q] # <<>>
      /\ tx_ring' = [tx_ring EXCEPT ![q] = Tail(@)]
      /\ wire' = [wire EXCEPT ![q] = Append(@, OnWire(pkt[m]))]
      /\ pool' = pool \union Range(<<m>>)
      /\ pkt' = [n \in Mbufs |-> IF n \in Range(<<m>>) THEN NoPacket ELSE pkt[n]]
      /\ UNCHANGED <<rx_ring, requests>> /\ UNCHANGED workerVars
  BY Zenon DEF Transmit, FreeAll
<1>2. TypeOK /\ MbufOwnership /\ HeldCarry /\ NoBatch
  BY DEF Inv
<1>3. /\ tx_ring[q] \in Seq(Mbufs) /\ rx_bufs[q] \in Seq(Mbufs)
      /\ rx_ring[q] \in Seq(Mbufs) /\ IsInjective(Held[q])
      /\ Held[q] = tx_ring[q] \o rx_bufs[q] \o rx_ring[q]
      /\ Range(Held[q]) \subseteq Mbufs \ pool
  BY <1>2, HeldByParts
<1>4. m \in Mbufs /\ Tail(tx_ring[q]) \in Seq(Mbufs) /\ Range(<<m>>) = {m}
  BY <1>1, <1>3, HeadAndTail
<1> HIDE DEF m
<1>5. /\ tx_ring'[q] = Tail(tx_ring[q])
      /\ \A r \in Queues \ {q} : tx_ring'[r] = tx_ring[r]
      /\ tx_ring' \in [Queues -> Seq(Mbufs)]
  BY <1>1, <1>2, <1>4 DEF TypeOK, PortTypeOK
<1>6. Held'[q] = Tail(tx_ring[q]) \o rx_bufs[q] \o rx_ring[q]
  BY <1>1, <1>5 DEF Held, workerVars
<1>7. /\ Range(Held[q]) = Range(Held'[q]) \union {m}
      /\ m \notin Range(Held'[q])
      /\ IsInjective(Held'[q])
  BY <1>1, <1>3, <1>6, LeaveLeft DEF m
<1>8. MbufOwnership'
  <2>1. \A r \in Queues \ {q} : Held'[r] = Held[r]
    BY <1>1, <1>5 DEF Held, workerVars
  <2>2. /\ Range(Held'[q]) \union pool' = Range(Held[q]) \union pool
        /\ Range(Held'[q]) \intersect pool' = {}
    BY <1>1, <1>3, <1>4, <1>7
  <2>3. OwnedOnce(Held', pool')
    BY <1>2, <1>7, <2>1, <2>2, OneWorkerMoves DEF MbufOwnership
  <2> QED
    BY <2>3 DEF MbufOwnership
<1>9. OnWire(pkt[m]) \in Packet
  <2>1. pkt[m] \in Packet
    BY <1>2, <1>3, <1>7 DEF HeldCarry
  <2> QED
    BY <2>1 DEF OnWire, Packet, CksumState
<1>10. TypeOK'
  <2>1. wire' \in [Queues -> Seq(Packet)]
    BY <1>1, <1>2, <1>9, AppendProperties DEF TypeOK, PortTypeOK
  <2>2. pkt' \in [Mbufs -> Packet \union {NoPacket}] /\ pool' \subseteq Mbufs
    BY <1>1, <1>2, <1>4 DEF TypeOK, PortTypeOK
  <2> QED
    BY <1>1, <1>2, <1>5, <2>1, <2>2
    DEF TypeOK, PortTypeOK, WorkerTypeOK, workerVars
<1>11. HeldCarry' /\ NoBatch'
  BY <1>1, <1>2, <1>4 DEF HeldCarry, NoBatch, workerVars
<1> QED
  BY <1>8, <1>10, <1>11 DEF Inv

\* Printing the counters changes nothing else.
LEMMA CountersMaybeReport ==
  ASSUME WorkerTypeOK, NEW q \in Queues, MaybeReport(q)
  PROVE  stats' \in [Queues -> Counters] /\ printed' \in [Queues -> Counters]
<1>1. stats \in [Queues -> Counters] /\ printed \in [Queues -> Counters]
  BY DEF WorkerTypeOK
<1>2. Plus(printed[q], stats[q]) \in Counters /\ ZeroCounters \in Counters
  BY <1>1, PlusCounters DEF ZeroCounters, Counters
<1> QED
  BY <1>1, <1>2 DEF MaybeReport, Report

\* An empty poll at most prints.
LEMMA InvEmptyPoll ==
  ASSUME Inv, NEW q \in Queues, EmptyPoll(q)
  PROVE  Inv'
<1>1. /\ UNCHANGED portVars /\ UNCHANGED <<checksum_mode, pc, rx_bufs>>
      /\ MaybeReport(q) /\ WorkerTypeOK
  BY DEF EmptyPoll, Inv, TypeOK
<1>2. stats' \in [Queues -> Counters] /\ printed' \in [Queues -> Counters]
  BY <1>1, CountersMaybeReport
<1>3. TypeOK'
  BY <1>1, <1>2 DEF Inv, TypeOK, PortTypeOK, WorkerTypeOK, portVars
<1>4. NoBatch'
  BY <1>1 DEF Inv, NoBatch
<1>5. MbufOwnership' /\ HeldCarry'
  BY <1>1 DEF Inv, MbufOwnership, OwnedOnce, Held, HeldCarry, portVars
<1> QED
  BY <1>3, <1>4, <1>5 DEF Inv

\* The end of an iteration at most prints.
LEMMA InvLoopEnd ==
  ASSUME Inv, NEW q \in Queues, LoopEnd(q)
  PROVE  Inv'
<1>1. /\ UNCHANGED portVars /\ UNCHANGED <<checksum_mode, rx_bufs>>
      /\ pc[q] = "loop_end" /\ pc' = [pc EXCEPT ![q] = "poll"]
      /\ MaybeReport(q) /\ WorkerTypeOK
  BY DEF LoopEnd, Goto, Inv, TypeOK
<1>2. stats' \in [Queues -> Counters] /\ printed' \in [Queues -> Counters]
  BY <1>1, CountersMaybeReport
<1>3. TypeOK'
  BY <1>1, <1>2 DEF Inv, TypeOK, PortTypeOK, WorkerTypeOK, portVars
<1>4. NoBatch'
  BY <1>1 DEF Inv, TypeOK, NoBatch
<1>5. MbufOwnership' /\ HeldCarry'
  BY <1>1 DEF Inv, MbufOwnership, OwnedOnce, Held, HeldCarry, portVars
<1> QED
  BY <1>3, <1>4, <1>5 DEF Inv

\* A poll moves mbufs from the left of the RX ring to the right of rx_bufs,
\* which was empty.
LEMMA InvRxBurst ==
  ASSUME Inv, NEW q \in Queues, RxBurst(q)
  PROVE  Inv'
<1>1. /\ pc[q] = "poll" /\ pc' = [pc EXCEPT ![q] = "rewrite"]
      /\ UNCHANGED <<pool, pkt, tx_ring, requests, wire, checksum_mode, printed>>
  BY DEF RxBurst, Goto
<1>2. PICK nb_rx \in RxBursts(q, BURST_SIZE) :
        /\ rx_bufs' = [rx_bufs EXCEPT ![q] = SubSeq(rx_ring[q], 1, nb_rx)]
        /\ rx_ring' = [rx_ring EXCEPT ![q] = SubSeq(@, nb_rx + 1, Len(@))]
        /\ stats' = [stats EXCEPT ![q].rx_packets = @ + nb_rx]
  BY Zenon DEF RxBurst
<1>3. TypeOK /\ MbufOwnership /\ HeldCarry /\ NoBatch
  BY DEF Inv
<1>4. /\ rx_ring[q] \in Seq(Mbufs) /\ tx_ring[q] \in Seq(Mbufs)
      /\ Held[q] = tx_ring[q] \o rx_bufs[q] \o rx_ring[q]
  BY <1>3, HeldByParts
<1>5. rx_bufs[q] = <<>>
  BY <1>1, <1>3 DEF NoBatch
<1>6. nb_rx \in Nat /\ nb_rx \in 0..Len(rx_ring[q])
  BY <1>2, <1>4, LenProperties DEF RxBursts
<1> DEFINE front == SubSeq(rx_ring[q], 1, nb_rx)
           back == SubSeq(rx_ring[q], nb_rx + 1, Len(rx_ring[q]))
<1>7. /\ front \in Seq(Mbufs) /\ back \in Seq(Mbufs)
      /\ tx_ring[q] \o front \o back = tx_ring[q] \o <<>> \o rx_ring[q]
  BY <1>4, <1>6, EnterMiddle, ZenonT(30)
<1> HIDE DEF front, back
<1>8. /\ rx_bufs' = [rx_bufs EXCEPT ![q] = front]
      /\ rx_ring' = [rx_ring EXCEPT ![q] = back]
  BY <1>2 DEF front, back
<1>9. TypeOK'
  <2>1. stats' \in [Queues -> Counters]
    <3>1. stats \in [Queues -> Counters]
      BY <1>3 DEF TypeOK, WorkerTypeOK
    <3>2. [stats[q] EXCEPT !.rx_packets = @ + nb_rx] \in Counters
      BY <1>6, <3>1, RxCounterGrows
    <3> QED
      BY <1>2, <3>1, <3>2
  <2> QED
    BY <1>1, <1>3, <1>7, <1>8, <2>1 DEF TypeOK, PortTypeOK, WorkerTypeOK
<1>10. Held' = Held
  <2>1. Held'[q] = tx_ring[q] \o front \o back
    BY <1>1, <1>3, <1>8 DEF Held, TypeOK, PortTypeOK, WorkerTypeOK
  <2>4. Held'[q] = Held[q]
    BY <1>4, <1>5, <1>7, <2>1
  <2>5. \A r \in Queues \ {q} : Held'[r] = Held[r]
    BY <1>1, <1>3, <1>8 DEF Held, TypeOK, PortTypeOK, WorkerTypeOK
  <2> QED
    BY <2>4, <2>5 DEF Held
<1>11. MbufOwnership'
  BY <1>1, <1>3, <1>10 DEF MbufOwnership, OwnedOnce
<1>12. HeldCarry' /\ NoBatch'
  BY <1>1, <1>3, <1>8 DEF HeldCarry, NoBatch, TypeOK
<1> QED
  BY <1>9, <1>11, <1>12 DEF Inv

\* The stages that edit a batch find a packet in each of its mbufs, and move
\* none of them.
LEMMA InvEdit ==
  ASSUME Inv, NEW q \in Queues, NEW to \in {"checksum", "tx"},
         NEW edited \in [Packet -> Packet],
         pkt' = [m \in Mbufs |->
                   IF m \in Range(rx_bufs[q]) THEN edited[pkt[m]] ELSE pkt[m]],
         pc' = [pc EXCEPT ![q] = to],
         UNCHANGED <<pool, rx_ring, tx_ring, requests, wire>>,
         UNCHANGED <<checksum_mode, rx_bufs, stats, printed>>
  PROVE  Inv'
<1>1. TypeOK /\ MbufOwnership /\ HeldCarry /\ NoBatch
  BY DEF Inv
<1>2. \A m \in Range(rx_bufs[q]) : m \in Mbufs \ pool /\ pkt[m] \in Packet
  <2>1. Range(rx_bufs[q]) \subseteq Mbufs \ pool
    BY <1>1, HeldByParts
  <2> QED
    BY <1>1, <2>1 DEF HeldCarry
<1>3. /\ pkt' \in [Mbufs -> Packet \union {NoPacket}]
      /\ \A m \in Mbufs \ pool : pkt'[m] \in Packet
  BY <1>1, <1>2 DEF TypeOK, PortTypeOK, HeldCarry
<1>4. TypeOK'
  BY <1>1, <1>3 DEF TypeOK, PortTypeOK, WorkerTypeOK
<1>5. MbufOwnership'
  BY <1>1 DEF MbufOwnership, OwnedOnce, Held
<1>6. HeldCarry' /\ NoBatch'
  BY <1>1, <1>3 DEF HeldCarry, NoBatch, TypeOK
<1> QED
  BY <1>4, <1>5, <1>6 DEF Inv

\* The exchange of the endpoints writes into mbufs of the batch only.
LEMMA InvRewrite ==
  ASSUME Inv, NEW q \in Queues, Rewrite(q)
  PROVE  Inv'
<1> DEFINE edited == [p \in Packet |-> SwapEndpoints(p)]
<1>1. edited \in [Packet -> Packet]
  BY DEF SwapEndpoints, Packet
<1>2. \A m \in Range(rx_bufs[q]) : SwapEndpoints(pkt[m]) = edited[pkt[m]]
  <2>1. Range(rx_bufs[q]) \subseteq Mbufs \ pool
    BY HeldByParts DEF Inv
  <2> QED
    BY <2>1 DEF Inv, HeldCarry
<1> HIDE DEF edited
<1>3. pkt' = [m \in Mbufs |->
                IF m \in Range(rx_bufs[q]) THEN edited[pkt[m]] ELSE pkt[m]]
  BY <1>2 DEF Rewrite, EditBatch
<1> QED
  BY <1>1, <1>3, InvEdit DEF Rewrite, Goto

\* So does the checksum stage.
LEMMA InvChecksum ==
  ASSUME Inv, NEW q \in Queues, Checksum(q)
  PROVE  Inv'
<1> DEFINE edited == [p \in Packet |-> FixChecksum(checksum_mode, p)]
<1>1. edited \in [Packet -> Packet]
  <2>1. checksum_mode \in {"software", "offload", "preserve", "none"}
    BY WorkerAssumption DEF Inv, TypeOK, WorkerTypeOK
  <2>2. \A p \in Packet, c \in CksumState : [p EXCEPT !.cksum = c] \in Packet
    BY DEF Packet
  <2> QED
    BY <2>1, <2>2 DEF FixChecksum, CksumState
<1>2. \A m \in Range(rx_bufs[q]) :
        FixChecksum(checksum_mode, pkt[m]) = edited[pkt[m]]
  <2>1. Range(rx_bufs[q]) \subseteq Mbufs \ pool
    BY HeldByParts DEF Inv
  <2> QED
    BY <2>1 DEF Inv, HeldCarry
<1> HIDE DEF edited
<1>3. pkt' = [m \in Mbufs |->
                IF m \in Range(rx_bufs[q]) THEN edited[pkt[m]] ELSE pkt[m]]
  BY <1>2 DEF Checksum, EditBatch
<1> QED
  BY <1>1, <1>3, InvEdit DEF Checksum, Goto

\* The first nb_tx mbufs of the batch go to the TX ring, the others back to the
\* pool: the two loops of the code leave no mbuf between them.
LEMMA InvTxBurst ==
  ASSUME Inv, NEW q \in Queues, TxBurst(q)
  PROVE  Inv'
<1>1. /\ pc[q] = "tx" /\ pc' = [pc EXCEPT ![q] = "loop_end"]
      /\ rx_bufs' = [rx_bufs EXCEPT ![q] = <<>>]
      /\ UNCHANGED <<checksum_mode, printed>>
  BY DEF TxBurst, Goto
<1>2. PICK nb_tx \in TxBursts(q, rx_bufs[q]) :
        SendOrFree(q, rx_bufs[q], nb_tx) /\ CountTx(q, Len(rx_bufs[q]), nb_tx)
  BY DEF TxBurst
<1> DEFINE front == SubSeq(rx_bufs[q], 1, nb_tx)
           back == SubSeq(rx_bufs[q], nb_tx + 1, Len(rx_bufs[q]))
<1>3. /\ tx_ring' = [tx_ring EXCEPT ![q] = @ \o front]
      /\ pool' = pool \union Range(back)
      /\ pkt' = [m \in Mbufs |-> IF m \in Range(back) THEN NoPacket ELSE pkt[m]]
      /\ UNCHANGED <<rx_ring, requests, wire>>
  BY <1>2 DEF SendOrFree, FreeAll
<1>4. TypeOK /\ MbufOwnership /\ HeldCarry /\ NoBatch
  BY DEF Inv
<1>5. /\ tx_ring[q] \in Seq(Mbufs) /\ rx_bufs[q] \in Seq(Mbufs)
      /\ rx_ring[q] \in Seq(Mbufs) /\ IsInjective(Held[q])
      /\ Held[q] = tx_ring[q] \o rx_bufs[q] \o rx_ring[q]
      /\ Range(Held[q]) \subseteq Mbufs \ pool
  BY <1>4, HeldByParts
<1>6. nb_tx \in 0..Len(rx_bufs[q]) /\ Len(rx_bufs[q]) \in Nat
  BY <1>2, <1>5, LenProperties DEF TxBursts
<1>7. /\ tx_ring[q] \o front \in Seq(Mbufs)
      /\ Range(Held[q])
           = Range((tx_ring[q] \o front) \o <<>> \o rx_ring[q]) \union Range(back)
      /\ Range((tx_ring[q] \o front) \o <<>> \o rx_ring[q])
           \intersect Range(back) = {}
      /\ IsInjective((tx_ring[q] \o front) \o <<>> \o rx_ring[q])
  BY <1>5, <1>6, LeaveMiddle
<1> HIDE DEF front, back
<1>8. /\ tx_ring'[q] = tx_ring[q] \o front /\ rx_bufs'[q] = <<>>
      /\ \A r \in Queues \ {q} : tx_ring'[r] = tx_ring[r] /\ rx_bufs'[r] = rx_bufs[r]
      /\ tx_ring' \in [Queues -> Seq(Mbufs)] /\ rx_bufs' \in [Queues -> Seq(Mbufs)]
  BY <1>1, <1>3, <1>4, <1>7 DEF TypeOK, PortTypeOK, WorkerTypeOK
<1>9. Held'[q] = (tx_ring[q] \o front) \o <<>> \o rx_ring[q]
  BY <1>3, <1>8 DEF Held
<1>10. MbufOwnership'
  <2>1. \A r \in Queues \ {q} : Held'[r] = Held[r]
    BY <1>3, <1>8 DEF Held
  <2>2. /\ IsInjective(Held'[q])
        /\ Range(Held'[q]) \union pool' = Range(Held[q]) \union pool
        /\ Range(Held'[q]) \intersect pool' = {}
    BY <1>3, <1>5, <1>7, <1>9
  <2>3. OwnedOnce(Held', pool')
    BY <1>4, <2>1, <2>2, OneWorkerMoves DEF MbufOwnership
  <2> QED
    BY <2>3 DEF MbufOwnership
<1>11. stats' \in [Queues -> Counters]
  <2>1. stats \in [Queues -> Counters]
    BY <1>4 DEF TypeOK, WorkerTypeOK
  <2>2. nb_tx \in Nat /\ Len(rx_bufs[q]) - nb_tx \in Nat
    BY <1>6
  <2>3. [stats[q] EXCEPT !.tx_packets = @ + nb_tx,
                         !.tx_drops = @ + (Len(rx_bufs[q]) - nb_tx)] \in Counters
    BY <2>1, <2>2, TxCountersGrow, Zenon
  <2> QED
    BY <1>2, <2>1, <2>3 DEF CountTx
<1>12. pool' \subseteq Mbufs /\ pkt' \in [Mbufs -> Packet \union {NoPacket}]
  BY <1>3, <1>4, <1>5, <1>7 DEF TypeOK, PortTypeOK
<1>13. TypeOK'
  BY <1>1, <1>3, <1>4, <1>8, <1>11, <1>12 DEF TypeOK, PortTypeOK, WorkerTypeOK
<1>14. HeldCarry' /\ NoBatch'
  BY <1>1, <1>3, <1>4, <1>8 DEF HeldCarry, NoBatch, TypeOK
<1> QED
  BY <1>10, <1>13, <1>14 DEF Inv

\* Every step keeps the invariant,
LEMMA InvNext == Inv /\ [Next]_vars => Inv'
<1> SUFFICES ASSUME Inv, [Next]_vars PROVE Inv'
  OBVIOUS
<1>1. ASSUME NEW h \in Traffic, Deliver(h), UNCHANGED workerVars PROVE Inv'
  BY <1>1, InvDeliver
<1>2. ASSUME NEW q \in Queues, Transmit(q), UNCHANGED workerVars PROVE Inv'
  BY <1>2, InvTransmit
<1>3. ASSUME NEW q \in Queues, EmptyPoll(q) PROVE Inv'
  BY <1>3, InvEmptyPoll
<1>4. ASSUME NEW q \in Queues, RxBurst(q) PROVE Inv'
  BY <1>4, InvRxBurst
<1>5. ASSUME NEW q \in Queues, Rewrite(q) PROVE Inv'
  BY <1>5, InvRewrite
<1>6. ASSUME NEW q \in Queues, Checksum(q) PROVE Inv'
  BY <1>6, InvChecksum
<1>7. ASSUME NEW q \in Queues, TxBurst(q) PROVE Inv'
  BY <1>7, InvTxBurst
<1>8. ASSUME NEW q \in Queues, LoopEnd(q) PROVE Inv'
  BY <1>8, InvLoopEnd
<1>9. CASE UNCHANGED vars
  <2>1. TypeOK' /\ HeldCarry' /\ NoBatch'
    BY <1>9 DEF vars, portVars, workerVars, Inv, TypeOK, PortTypeOK, WorkerTypeOK,
                HeldCarry, NoBatch
  <2>2. MbufOwnership'
    BY <1>9 DEF vars, portVars, workerVars, Inv, MbufOwnership, OwnedOnce, Held
  <2> QED
    BY <2>1, <2>2 DEF Inv
<1> QED
  BY <1>1, <1>2, <1>3, <1>4, <1>5, <1>6, <1>7, <1>8, <1>9 DEF Next, Nic, Serve

\* and so it always holds.
LEMMA Invariance == Spec => []Inv
<1>1. Init => Inv
  BY InvInit
<1>2. Inv /\ [Next]_vars => Inv'
  BY InvNext
<1> QED
  BY <1>1, <1>2, PTL DEF Spec

\* The variables of the server and of its port keep their types: no counter
\* goes below zero, and every stage finds packets in the mbufs it edits.
THEOREM Typing == Spec => []TypeOK
<1>1. Inv => TypeOK
  BY DEF Inv
<1> QED
  BY <1>1, Invariance, PTL

\* The loops of echo_server.c and echo_server_checksum_exp.c never leak an mbuf
\* or free it twice, and no two workers ever hold the same one.
THEOREM Ownership == Spec => []MbufOwnership
<1>1. Inv => MbufOwnership
  BY DEF Inv
<1> QED
  BY <1>1, Invariance, PTL

------------------------------------------------------------------------------
(* The counters.  That every [profile] line adds up by itself needs that a *)
(* report is only made between two batches, when all that was polled has   *)
(* been counted as sent or dropped.                                        *)

CountInv == Inv /\ CountersBalance /\ ReportsBalance

\* What the invariant says of one worker.
Balanced(q) == AddsUp(printed[q], stats[q], Len(rx_bufs[q]),
                      Len(wire[q]) + Len(tx_ring[q]))

\* The two ways of stating the balance are the same.
LEMMA BalancedIsBalance == CountersBalance <=> \A q \in Queues : Balanced(q)
BY DEF CountersBalance, Balanced, AddsUp, Counted

\* The other workers are not affected by what one does.
LEMMA OthersBalanced ==
  ASSUME CountersBalance, ReportsBalance, NEW q \in Queues, Balanced(q)',
         printed'[q].rx_packets = printed'[q].tx_packets + printed'[q].tx_drops,
         \A r \in Queues \ {q} :
           /\ stats'[r] = stats[r] /\ printed'[r] = printed[r]
           /\ rx_bufs'[r] = rx_bufs[r] /\ tx_ring'[r] = tx_ring[r]
           /\ wire'[r] = wire[r]
  PROVE  CountersBalance' /\ ReportsBalance'
<1>1. ASSUME NEW r \in Queues \ {q} PROVE Balanced(r)'
  BY BalancedIsBalance DEF Balanced
<1>2. \A r \in Queues : Balanced(r)'
  BY <1>1
<1>3. CountersBalance'
  BY <1>2 DEF CountersBalance, Balanced, AddsUp, Counted
<1>4. ReportsBalance'
  BY DEF ReportsBalance
<1> QED
  BY <1>3, <1>4

\* Nothing is counted at the start.
LEMMA CountInit == Init => CountInv
<1> SUFFICES ASSUME Init PROVE CountInv
  OBVIOUS
<1>1. ASSUME NEW q \in Queues
      PROVE  /\ stats[q] = ZeroCounters /\ printed[q] = ZeroCounters
             /\ rx_bufs[q] = <<>> /\ wire[q] = <<>> /\ tx_ring[q] = <<>>
  BY DEF Init, PortInit, WorkerInit
<1>2. ZeroCounters \in Counters
  BY DEF ZeroCounters, Counters
<1>3. AddsUp(ZeroCounters, ZeroCounters, 0, 0)
  <2>1. /\ ZeroCounters.rx_packets = 0 /\ ZeroCounters.tx_packets = 0
        /\ ZeroCounters.tx_drops = 0
    BY DEF ZeroCounters
  <2> QED
    BY <1>2, <2>1, AddsUpByParts
<1>4. ASSUME NEW q \in Queues PROVE Balanced(q)
  <2>1. Len(rx_bufs[q]) = 0 /\ Len(wire[q]) = 0 /\ Len(tx_ring[q]) = 0
    BY <1>1
  <2>2. Len(wire[q]) + Len(tx_ring[q]) = 0
    BY <2>1
  <2> QED
    BY <1>1, <1>3, <2>1, <2>2 DEF Balanced
<1>5. ReportsBalance
  BY <1>1 DEF ReportsBalance, ZeroCounters
<1> QED
  BY <1>4, <1>5, InvInit, BalancedIsBalance DEF CountInv

\* A worker's part of the state, typed.
LEMMA WorkerParts ==
  ASSUME TypeOK, NEW q \in Queues
  PROVE  /\ stats \in [Queues -> Counters] /\ printed \in [Queues -> Counters]
         /\ rx_bufs \in [Queues -> Seq(Mbufs)] /\ tx_ring \in [Queues -> Seq(Mbufs)]
         /\ wire \in [Queues -> Seq(Packet)]
         /\ stats[q] \in Counters /\ printed[q] \in Counters
         /\ rx_bufs[q] \in Seq(Mbufs) /\ tx_ring[q] \in Seq(Mbufs)
         /\ rx_ring[q] \in Seq(Mbufs) /\ wire[q] \in Seq(Packet)
         /\ Len(rx_bufs[q]) \in Nat /\ Len(rx_ring[q]) \in Nat
         /\ Len(wire[q]) \in Nat /\ Len(tx_ring[q]) \in Nat
         /\ Len(wire[q]) + Len(tx_ring[q]) \in Nat
<1>1. /\ stats \in [Queues -> Counters] /\ printed \in [Queues -> Counters]
      /\ rx_bufs \in [Queues -> Seq(Mbufs)] /\ tx_ring \in [Queues -> Seq(Mbufs)]
      /\ rx_ring \in [Queues -> Seq(Mbufs)] /\ wire \in [Queues -> Seq(Packet)]
  BY DEF TypeOK, PortTypeOK, WorkerTypeOK
<1>2. /\ stats[q] \in Counters /\ printed[q] \in Counters
      /\ rx_bufs[q] \in Seq(Mbufs) /\ tx_ring[q] \in Seq(Mbufs)
      /\ rx_ring[q] \in Seq(Mbufs) /\ wire[q] \in Seq(Packet)
  BY <1>1
<1>3. /\ Len(rx_bufs[q]) \in Nat /\ Len(rx_ring[q]) \in Nat
      /\ Len(wire[q]) \in Nat /\ Len(tx_ring[q]) \in Nat
  BY <1>2, LenProperties
<1>4. Len(wire[q]) + Len(tx_ring[q]) \in Nat
  <2> DEFINE out == Len(wire[q])
             ring == Len(tx_ring[q])
  <2>1. out \in Nat /\ ring \in Nat
    BY <1>3
  <2> HIDE DEF out, ring
  <2>2. out + ring \in Nat
    BY <2>1
  <2> QED
    BY <2>2 DEF out, ring
<1> QED
  BY <1>1, <1>2, <1>3, <1>4

\* A report is made when no batch is under way, so that what is printed adds
\* up and so does what is left.
LEMMA CountReport ==
  ASSUME CountInv, NEW q \in Queues, MaybeReport(q), rx_bufs[q] = <<>>,
         UNCHANGED <<rx_bufs, tx_ring, wire>>
  PROVE  CountersBalance' /\ ReportsBalance'
<1>1. TypeOK /\ CountersBalance /\ ReportsBalance
  BY DEF CountInv, Inv
<1>2. CASE UNCHANGED <<stats, printed>>
  BY <1>1, <1>2 DEF CountersBalance, ReportsBalance, Counted
<1>3. CASE Report(q)
  <2> DEFINE s == stats[q]
             p == printed[q]
             sent == Len(wire[q]) + Len(tx_ring[q])
  <2>1. /\ printed' = [printed EXCEPT ![q] = Plus(p, s)]
        /\ stats' = [stats EXCEPT ![q] = ZeroCounters]
    BY <1>3 DEF Report
  <2>2. /\ \A r \in Queues \ {q} : printed'[r] = printed[r] /\ stats'[r] = stats[r]
        /\ printed'[q] = Plus(p, s) /\ stats'[q] = ZeroCounters
    BY <1>1, <2>1, WorkerParts
  <2>3. s \in Counters /\ p \in Counters /\ sent \in Nat
    BY <1>1, WorkerParts
  <2>4. AddsUp(p, s, 0, sent)
    <3>1. Len(rx_bufs[q]) = 0
      OBVIOUS
    <3> QED
      BY <1>1, <3>1, BalancedIsBalance DEF Balanced
  <2>5. Len(rx_bufs'[q]) = 0 /\ Len(wire'[q]) + Len(tx_ring'[q]) = sent
    OBVIOUS
  <2> HIDE DEF s, p, sent
  <2>6. /\ AddsUp(Plus(p, s), ZeroCounters, 0, sent)
        /\ Plus(p, s).rx_packets = Plus(p, s).tx_packets + Plus(p, s).tx_drops
    BY <2>3, <2>4, AddsUpAfterReport
  <2>7. Balanced(q)'
    BY <2>2, <2>5, <2>6 DEF Balanced
  <2> QED
    BY <1>1, <2>2, <2>6, <2>7, OthersBalanced
<1> QED
  BY <1>2, <1>3 DEF MaybeReport

\* The NIC counts nothing: a packet it sends leaves the TX ring for the wire.
LEMMA CountTransmit ==
  ASSUME CountInv, NEW q \in Queues, Transmit(q), UNCHANGED workerVars
  PROVE  CountersBalance' /\ ReportsBalance'
<1> DEFINE ring == tx_ring[q]
           out == wire[q]
           rest == Tail(ring)
           p == OnWire(pkt[Head(ring)])
<1>1. TypeOK /\ CountersBalance /\ ReportsBalance
  BY DEF CountInv, Inv
<1>2. /\ ring # <<>>
      /\ tx_ring' = [tx_ring EXCEPT ![q] = rest]
      /\ wire' = [wire EXCEPT ![q] = Append(out, p)]
  BY DEF Transmit
<1>3. ring \in Seq(Mbufs) /\ out \in Seq(Packet)
  BY <1>1, WorkerParts
<1>4. /\ \A r \in Queues \ {q} : tx_ring'[r] = tx_ring[r] /\ wire'[r] = wire[r]
      /\ tx_ring'[q] = rest /\ wire'[q] = Append(out, p)
  BY <1>1, <1>2, WorkerParts
<1>5. Len(Append(out, p)) + Len(rest) = Len(out) + Len(ring)
  <2>1. Len(ring) = 1 + Len(rest) /\ rest \in Seq(Mbufs)
    BY <1>2, <1>3, HeadAndTail, Zenon
  <2> HIDE DEF ring, out, rest, p
  <2>2. Len(Append(out, p)) = Len(out) + 1
    BY <1>3
  <2>3. Len(out) \in Nat /\ Len(rest) \in Nat
    BY <1>3, <2>1, LenProperties
  <2> QED
    BY <2>1, <2>2, <2>3
<1>6. \A r \in Queues : /\ stats'[r] = stats[r] /\ printed'[r] = printed[r]
                        /\ rx_bufs'[r] = rx_bufs[r]
  BY DEF workerVars
<1>7. Balanced(q)'
  <2>1. Len(wire'[q]) + Len(tx_ring'[q]) = Len(wire[q]) + Len(tx_ring[q])
    BY <1>4, <1>5
  <2>2. Balanced(q)
    BY <1>1, BalancedIsBalance
  <2> QED
    BY <1>6, <2>1, <2>2 DEF Balanced
<1>8. printed'[q].rx_packets = printed'[q].tx_packets + printed'[q].tx_drops
  BY <1>1, <1>6 DEF ReportsBalance
<1> QED
  BY <1>1, <1>4, <1>6, <1>7, <1>8, OthersBalanced

\* A batch is counted as received when it comes into rx_bufs.
LEMMA CountRxBurst ==
  ASSUME CountInv, NEW q \in Queues, RxBurst(q)
  PROVE  CountersBalance' /\ ReportsBalance'
<1> DEFINE s == stats[q]
           p == printed[q]
           sent == Len(wire[q]) + Len(tx_ring[q])
<1>1. /\ TypeOK /\ MbufOwnership /\ NoBatch
      /\ CountersBalance /\ ReportsBalance
  BY DEF CountInv, Inv
<1>2. pc[q] = "poll" /\ UNCHANGED <<tx_ring, wire, printed>>
  BY DEF RxBurst, Goto
<1>3. PICK nb_rx \in RxBursts(q, BURST_SIZE) :
        /\ rx_bufs' = [rx_bufs EXCEPT ![q] = SubSeq(rx_ring[q], 1, nb_rx)]
        /\ stats' = [stats EXCEPT ![q].rx_packets = @ + nb_rx]
  BY Zenon DEF RxBurst
<1>4. nb_rx \in Nat /\ nb_rx \in 0..Len(rx_ring[q])
  BY <1>1, <1>3, WorkerParts DEF RxBursts
<1>5. /\ \A r \in Queues \ {q} : rx_bufs'[r] = rx_bufs[r] /\ stats'[r] = stats[r]
      /\ rx_bufs'[q] = SubSeq(rx_ring[q], 1, nb_rx)
      /\ stats'[q] = [s EXCEPT !.rx_packets = @ + nb_rx]
  BY <1>1, <1>3, WorkerParts
<1>6. Len(rx_bufs'[q]) = nb_rx
  BY <1>1, <1>4, <1>5, WorkerParts, CutInTwo
<1>7. AddsUp(p, s, 0, sent)
  <2>1. Len(rx_bufs[q]) = 0
    BY <1>1, <1>2 DEF NoBatch
  <2> QED
    BY <1>1, <2>1, BalancedIsBalance DEF Balanced
<1>8. s \in Counters /\ p \in Counters /\ sent \in Nat
  BY <1>1, WorkerParts
<1>9. printed'[q] = p /\ Len(wire'[q]) + Len(tx_ring'[q]) = sent
  BY <1>2
<1> HIDE DEF s, p, sent
<1>10. AddsUp(p, [s EXCEPT !.rx_packets = @ + nb_rx], nb_rx, sent)
  BY <1>4, <1>7, <1>8, AddsUpAfterPoll
<1>11. Balanced(q)'
  BY <1>5, <1>6, <1>9, <1>10 DEF Balanced
<1>12. printed'[q].rx_packets = printed'[q].tx_packets + printed'[q].tx_drops
  BY <1>1, <1>2 DEF ReportsBalance
<1> QED
  BY <1>1, <1>2, <1>5, <1>11, <1>12, OthersBalanced

\* A batch leaves rx_bufs when all of it is counted as sent or dropped.
LEMMA CountTxBurst ==
  ASSUME CountInv, NEW q \in Queues, TxBurst(q)
  PROVE  CountersBalance' /\ ReportsBalance'
<1> DEFINE s == stats[q]
           p == printed[q]
           bufs == rx_bufs[q]
           ring == tx_ring[q]
           batch == Len(bufs)
           sent == Len(wire[q]) + Len(ring)
<1>1. TypeOK /\ CountersBalance /\ ReportsBalance
  BY DEF CountInv, Inv
<1>2. rx_bufs' = [rx_bufs EXCEPT ![q] = <<>>] /\ UNCHANGED printed
  BY DEF TxBurst
<1>3. PICK nb_tx \in TxBursts(q, bufs) :
        /\ SendOrFree(q, bufs, nb_tx)
        /\ CountTx(q, batch, nb_tx)
  BY DEF TxBurst
<1> DEFINE front == SubSeq(bufs, 1, nb_tx)
<1>4. /\ tx_ring' = [tx_ring EXCEPT ![q] = ring \o front] /\ UNCHANGED wire
      /\ stats' = [stats EXCEPT ![q].tx_packets = @ + nb_tx,
                                ![q].tx_drops = @ + (batch - nb_tx)]
  BY <1>3 DEF SendOrFree, CountTx
<1>5. nb_tx \in 0..batch
  BY <1>3 DEF TxBursts
<1>6. /\ s \in Counters /\ p \in Counters /\ batch \in Nat /\ sent \in Nat
      /\ bufs \in Seq(Mbufs) /\ ring \in Seq(Mbufs)
      /\ Len(wire[q]) \in Nat /\ Len(ring) \in Nat
  BY <1>1, WorkerParts
<1>7. /\ \A r \in Queues \ {q} : /\ rx_bufs'[r] = rx_bufs[r]
                                /\ tx_ring'[r] = tx_ring[r]
                                /\ stats'[r] = stats[r]
      /\ rx_bufs'[q] = <<>> /\ tx_ring'[q] = ring \o front
      /\ stats'[q] = [s EXCEPT !.tx_packets = @ + nb_tx,
                               !.tx_drops = @ + (batch - nb_tx)]
  BY <1>1, <1>2, <1>4, WorkerParts
<1>8. front \in Seq(Mbufs) /\ Len(front) = nb_tx
  BY <1>5, <1>6, CutInTwo
<1>9. Len(ring \o front) = Len(ring) + nb_tx
  <2> HIDE DEF ring, front
  <2> QED
    BY <1>6, <1>8, ConcatProperties
<1>10. AddsUp(p, s, batch, sent)
  BY <1>1, BalancedIsBalance DEF Balanced
<1>11. Len(wire'[q]) + Len(tx_ring'[q]) = sent + nb_tx
  <2>1. /\ Len(wire'[q]) = Len(wire[q])
        /\ Len(tx_ring'[q]) = Len(ring) + nb_tx
    BY <1>4, <1>7, <1>9
  <2> DEFINE out == Len(wire[q])
             waiting == Len(ring)
  <2>2. /\ Len(wire'[q]) = out /\ Len(tx_ring'[q]) = waiting + nb_tx
        /\ sent = out + waiting /\ out \in Nat /\ waiting \in Nat
        /\ nb_tx \in Nat
    BY <1>5, <1>6, <2>1
  <2> HIDE DEF sent, out, waiting
  <2> QED
    BY <2>2
<1>12. printed'[q] = p /\ Len(rx_bufs'[q]) = 0
  BY <1>2, <1>7
<1> HIDE DEF s, p, batch, sent
<1>13. AddsUp(p, [s EXCEPT !.tx_packets = @ + nb_tx,
                           !.tx_drops = @ + (batch - nb_tx)], 0, sent + nb_tx)
  BY <1>5, <1>6, <1>10, AddsUpAfterSend
<1>14. Balanced(q)'
  BY <1>7, <1>11, <1>12, <1>13 DEF Balanced
<1>15. printed'[q].rx_packets = printed'[q].tx_packets + printed'[q].tx_drops
  BY <1>1, <1>2 DEF ReportsBalance
<1> QED
  BY <1>1, <1>2, <1>4, <1>7, <1>14, <1>15, OthersBalanced

\* Every step keeps the counters in balance,
LEMMA CountNext == CountInv /\ [Next]_vars => CountInv'
<1> SUFFICES ASSUME CountInv, [Next]_vars PROVE CountInv'
  OBVIOUS
<1>1. Inv'
  BY InvNext DEF CountInv
<1>2. CountersBalance /\ ReportsBalance /\ NoBatch
  BY DEF CountInv, Inv
<1>3. ASSUME UNCHANGED <<rx_bufs, stats, printed, tx_ring, wire>>
      PROVE  CountersBalance' /\ ReportsBalance'
  BY <1>2, <1>3 DEF CountersBalance, ReportsBalance, Counted
<1>4. ASSUME NEW h \in Traffic, Deliver(h), UNCHANGED workerVars
      PROVE  CountersBalance' /\ ReportsBalance'
  BY <1>3, <1>4 DEF Deliver, workerVars
<1>5. ASSUME NEW q \in Queues, Transmit(q), UNCHANGED workerVars
      PROVE  CountersBalance' /\ ReportsBalance'
  BY <1>5, CountTransmit
<1>6. ASSUME NEW q \in Queues, EmptyPoll(q)
      PROVE  CountersBalance' /\ ReportsBalance'
  <2>1. /\ MaybeReport(q) /\ rx_bufs[q] = <<>>
        /\ UNCHANGED <<rx_bufs, tx_ring, wire>>
    BY <1>2, <1>6 DEF EmptyPoll, NoBatch, portVars
  <2> QED
    BY <2>1, CountReport
<1>7. ASSUME NEW q \in Queues, LoopEnd(q)
      PROVE  CountersBalance' /\ ReportsBalance'
  <2>1. /\ MaybeReport(q) /\ rx_bufs[q] = <<>>
        /\ UNCHANGED <<rx_bufs, tx_ring, wire>>
    BY <1>2, <1>7 DEF LoopEnd, Goto, NoBatch, portVars
  <2> QED
    BY <2>1, CountReport
<1>8. ASSUME NEW q \in Queues, RxBurst(q)
      PROVE  CountersBalance' /\ ReportsBalance'
  BY <1>8, CountRxBurst
<1>9. ASSUME NEW q \in Queues, Rewrite(q)
      PROVE  CountersBalance' /\ ReportsBalance'
  BY <1>3, <1>9 DEF Rewrite
<1>10. ASSUME NEW q \in Queues, Checksum(q)
       PROVE  CountersBalance' /\ ReportsBalance'
  BY <1>3, <1>10 DEF Checksum
<1>11. ASSUME NEW q \in Queues, TxBurst(q)
       PROVE  CountersBalance' /\ ReportsBalance'
  BY <1>11, CountTxBurst
<1>12. ASSUME UNCHANGED vars PROVE CountersBalance' /\ ReportsBalance'
  BY <1>3, <1>12 DEF vars, portVars, workerVars
<1>13. CountersBalance' /\ ReportsBalance'
  BY <1>4, <1>5, <1>6, <1>7, <1>8, <1>9, <1>10, <1>11, <1>12
  DEF Next, Nic, Serve
<1> QED
  BY <1>1, <1>13 DEF CountInv

\* and so they always are.
LEMMA Accounting == Spec => []CountInv
<1>1. Init => CountInv
  BY CountInit
<1>2. CountInv /\ [Next]_vars => CountInv'
  BY CountNext
<1> QED
  BY <1>1, <1>2, PTL DEF Spec

\* The counters of a worker of echo_server.c account for every packet polled:
\* it is sent, dropped, or still in rx_bufs.
THEOREM CountersAddUp == Spec => []CountersBalance
<1>1. CountInv => CountersBalance
  BY DEF CountInv
<1> QED
  BY <1>1, Accounting, PTL

\* Every [profile] line that print_profile prints adds up by itself.
THEOREM ReportsAddUp == Spec => []ReportsBalance
<1>1. CountInv => ReportsBalance
  BY DEF CountInv
<1> QED
  BY <1>1, Accounting, PTL

------------------------------------------------------------------------------
(* The checksum fields.  The wire is only right because every packet on    *)
(* the way is: good in the RX ring and until the checksum stage, finished  *)
(* for its mode from there on.  What one worker or the NIC writes into an  *)
(* mbuf must not show in the packets of another queue, which is again the  *)
(* ownership invariant.                                                    *)

ChecksumsOf(q) ==
  /\ \A m \in Range(rx_ring[q]) : pkt[m].cksum = "good"
  /\ \A m \in Range(rx_bufs[q]) :
       pkt[m].cksum = IF pc[q] = "tx" THEN Finished ELSE "good"
  /\ \A m \in Range(tx_ring[q]) : pkt[m].cksum = Finished

CksumInv == Inv /\ (\A q \in Queues : ChecksumsOf(q)) /\ WireChecksums

\* WireChecksums, by the name that the lemmas give to the right state.
LEMMA WireByName ==
  WireChecksums <=> \A q \in Queues : \A i \in 1..Len(wire[q]) :
                      wire[q][i].cksum = OnTheWire
BY DEF WireChecksums, OnTheWire

\* The packets of a queue keep their fields if neither the queue nor what its
\* mbufs carry has changed.
LEMMA SameChecksums ==
  ASSUME Inv, NEW r \in Queues, ChecksumsOf(r),
         rx_bufs'[r] = rx_bufs[r], rx_ring'[r] = rx_ring[r],
         tx_ring'[r] = tx_ring[r], pc'[r] = pc[r], checksum_mode' = checksum_mode,
         \A m \in Range(Held[r]) : pkt'[m] = pkt[m]
  PROVE  ChecksumsOf(r)'
<1>1. Range(Held[r]) = Range(tx_ring[r]) \union Range(rx_bufs[r])
                         \union Range(rx_ring[r])
  BY HeldByParts DEF Inv
<1> QED
  BY <1>1 DEF ChecksumsOf, Finished

\* So do those of the other queues when only free mbufs and mbufs of queue q
\* are written.
LEMMA OthersKeepChecksums ==
  ASSUME CksumInv, NEW q \in Queues, NEW r \in Queues \ {q},
         rx_bufs'[r] = rx_bufs[r], rx_ring'[r] = rx_ring[r],
         tx_ring'[r] = tx_ring[r], pc'[r] = pc[r], checksum_mode' = checksum_mode,
         \A m \in Mbufs \ (pool \union Range(Held[q])) : pkt'[m] = pkt[m]
  PROVE  ChecksumsOf(r)'
<1>1. Range(Held[r]) \subseteq Mbufs \ pool
  BY HeldByParts DEF CksumInv, Inv
<1>2. Range(Held[r]) \intersect Range(Held[q]) = {}
  BY DEF CksumInv, Inv, MbufOwnership, OwnedOnce
<1>3. \A m \in Range(Held[r]) : pkt'[m] = pkt[m]
  BY <1>1, <1>2
<1> QED
  BY <1>3, SameChecksums DEF CksumInv

\* A wire that does not change, in a mode that does not either.
LEMMA SameWire ==
  ASSUME WireChecksums, wire' = wire, checksum_mode' = checksum_mode
  PROVE  WireChecksums'
BY DEF WireChecksums

\* A new packet is good.
LEMMA CksumDeliver ==
  ASSUME CksumInv, Inv', NEW h \in Traffic, Deliver(h), UNCHANGED workerVars
  PROVE  CksumInv'
<1> DEFINE q == Rss[h]
           p == [id |-> Len(requests) + 1, src |-> h.src, dst |-> h.dst,
                 cksum |-> "good"]
<1>1. PICK m \in pool :
        /\ rx_ring' = [rx_ring EXCEPT ![q] = Append(@, m)]
        /\ pkt' = [pkt EXCEPT ![m] = p]
  BY Zenon DEF Deliver
<1>2. UNCHANGED <<tx_ring, wire>> /\ UNCHANGED workerVars
  BY DEF Deliver
<1>3. TypeOK /\ MbufOwnership
  BY DEF CksumInv, Inv
<1>4. p.cksum = "good"
  OBVIOUS
<1>5. q \in Queues /\ m \in Mbufs
  BY <1>3, PortAssumption DEF TypeOK, PortTypeOK
<1> HIDE DEF q, p
<1>6. /\ rx_ring'[q] = Append(rx_ring[q], m)
      /\ \A r \in Queues \ {q} : rx_ring'[r] = rx_ring[r]
      /\ pkt'[m] = p /\ \A n \in Mbufs \ {m} : pkt'[n] = pkt[n]
  BY <1>1, <1>3, <1>5 DEF TypeOK, PortTypeOK
<1>7. ChecksumsOf(q)'
  <2>1. Range(rx_ring'[q]) = Range(rx_ring[q]) \union {m}
    <3>1. rx_ring[q] \in Seq(Mbufs)
      BY <1>3, <1>5, HeldByParts
    <3> QED
      BY <1>5, <1>6, <3>1, RangeAppend
  <2>2. /\ Range(tx_ring[q]) \subseteq Mbufs \ pool
        /\ Range(rx_bufs[q]) \subseteq Mbufs \ pool
        /\ Range(rx_ring[q]) \subseteq Mbufs \ pool
    BY <1>3, <1>5, HeldByParts
  <2>3. ChecksumsOf(q)
    BY <1>5 DEF CksumInv
  <2> QED
    BY <1>1, <1>2, <1>4, <1>6, <2>1, <2>2, <2>3
    DEF ChecksumsOf, Finished, workerVars
<1>8. ASSUME NEW r \in Queues \ {q} PROVE ChecksumsOf(r)'
  BY <1>1, <1>2, <1>5, <1>6, OthersKeepChecksums DEF workerVars
<1>9. WireChecksums'
  BY <1>2, SameWire DEF CksumInv, workerVars
<1> QED
  BY <1>7, <1>8, <1>9 DEF CksumInv

\* What the NIC sends was finished.
LEMMA CksumTransmit ==
  ASSUME CksumInv, Inv', NEW q \in Queues, Transmit(q), UNCHANGED workerVars
  PROVE  CksumInv'
<1> DEFINE m == Head(tx_ring[q])
<1>1. /\ tx_ring[q] # <<>>
      /\ tx_ring' = [tx_ring EXCEPT ![q] = Tail(@)]
      /\ wire' = [wire EXCEPT ![q] = Append(@, OnWire(pkt[m]))]
      /\ pkt' = [n \in Mbufs |-> IF n \in Range(<<m>>) THEN NoPacket ELSE pkt[n]]
      /\ UNCHANGED rx_ring /\ UNCHANGED workerVars
  BY Zenon DEF Transmit, FreeAll
<1>2. TypeOK /\ MbufOwnership /\ HeldCarry
  BY DEF CksumInv, Inv
<1>3. /\ tx_ring[q] \in Seq(Mbufs) /\ IsInjective(tx_ring[q])
      /\ Range(tx_ring[q]) \intersect Range(rx_bufs[q]) = {}
      /\ Range(tx_ring[q]) \intersect Range(rx_ring[q]) = {}
      /\ Range(Held[q]) \subseteq Mbufs \ pool
      /\ Range(Held[q]) = Range(tx_ring[q]) \union Range(rx_bufs[q])
                            \union Range(rx_ring[q])
  BY <1>2, HeldByParts
<1>4. m \in Mbufs /\ Tail(tx_ring[q]) \in Seq(Mbufs) /\ Range(<<m>>) = {m}
  BY <1>1, <1>3, HeadAndTail
<1>5. /\ Range(tx_ring[q]) = {m} \union Range(Tail(tx_ring[q]))
      /\ m \notin Range(Tail(tx_ring[q]))
  BY <1>1, <1>3, RangeOfTail
<1>6. m \notin Range(rx_bufs[q]) \union Range(rx_ring[q])
  BY <1>3, <1>5
<1> HIDE DEF m
<1>7. /\ tx_ring'[q] = Tail(tx_ring[q])
      /\ \A r \in Queues \ {q} : tx_ring'[r] = tx_ring[r]
      /\ \A n \in Mbufs \ {m} : pkt'[n] = pkt[n]
  BY <1>1, <1>2, <1>4 DEF TypeOK, PortTypeOK
<1>8. ChecksumsOf(q)'
  <2>1. ChecksumsOf(q)
    BY DEF CksumInv
  <2> QED
    BY <1>1, <1>3, <1>5, <1>6, <1>7, <2>1 DEF ChecksumsOf, Finished, workerVars
<1>9. ASSUME NEW r \in Queues \ {q} PROVE ChecksumsOf(r)'
  BY <1>1, <1>3, <1>5, <1>7, OthersKeepChecksums DEF workerVars
<1>10. WireChecksums'
  <2>1. pkt[m] \in Packet /\ pkt[m].cksum = Finished
    BY <1>2, <1>3, <1>5 DEF HeldCarry, CksumInv, ChecksumsOf
  <2>2. OnWire(pkt[m]).cksum = OnTheWire /\ OnWire(pkt[m]) \in Packet
    BY <2>1, NicCompletes
  <2>3. /\ wire[q] \in Seq(Packet)
        /\ wire'[q] = Append(wire[q], OnWire(pkt[m]))
        /\ \A r \in Queues \ {q} : wire'[r] = wire[r]
    BY <1>1, <1>2 DEF TypeOK, PortTypeOK
  <2>4. OnTheWire' = OnTheWire
    BY <1>1 DEF OnTheWire, workerVars
  <2>5. \A r \in Queues : \A i \in 1..Len(wire[r]) : wire[r][i].cksum = OnTheWire
    BY WireByName DEF CksumInv
  <2>6. \A i \in 1..Len(wire'[q]) : wire'[q][i].cksum = OnTheWire
    BY <2>2, <2>3, <2>5, WireGrows
  <2>7. \A r \in Queues : \A i \in 1..Len(wire'[r]) : wire'[r][i].cksum = OnTheWire
    BY <2>3, <2>5, <2>6
  <2> QED
    BY <2>4, <2>7 DEF WireChecksums, OnTheWire
<1> QED
  BY <1>8, <1>9, <1>10 DEF CksumInv

\* A step that moves no mbuf and writes none, between two batches.
LEMMA CksumIdle ==
  ASSUME CksumInv, Inv', NEW q \in Queues, rx_bufs[q] = <<>>,
         UNCHANGED portVars, UNCHANGED <<checksum_mode, rx_bufs>>,
         \A r \in Queues \ {q} : pc'[r] = pc[r]
  PROVE  CksumInv'
<1>1. \A r \in Queues \ {q} : ChecksumsOf(r)'
  BY DEF CksumInv, ChecksumsOf, Finished, portVars
<1>2. ChecksumsOf(q)'
  <2>1. Range(rx_bufs'[q]) = {}
    BY DEF Range
  <2> QED
    BY <2>1 DEF CksumInv, ChecksumsOf, Finished, portVars
<1>3. WireChecksums'
  BY SameWire DEF CksumInv, portVars
<1> QED
  BY <1>1, <1>2, <1>3 DEF CksumInv

\* A poll takes good packets from the RX ring.
LEMMA CksumRxBurst ==
  ASSUME CksumInv, Inv', NEW q \in Queues, RxBurst(q)
  PROVE  CksumInv'
<1>1. /\ pc' = [pc EXCEPT ![q] = "rewrite"]
      /\ UNCHANGED <<pkt, tx_ring, wire, checksum_mode>>
  BY DEF RxBurst, Goto
<1>2. PICK nb_rx \in RxBursts(q, BURST_SIZE) :
        /\ rx_bufs' = [rx_bufs EXCEPT ![q] = SubSeq(rx_ring[q], 1, nb_rx)]
        /\ rx_ring' = [rx_ring EXCEPT ![q] = SubSeq(@, nb_rx + 1, Len(@))]
  BY Zenon DEF RxBurst
<1>3. TypeOK /\ rx_ring[q] \in Seq(Mbufs)
  BY HeldByParts DEF CksumInv, Inv
<1> DEFINE front == SubSeq(rx_ring[q], 1, nb_rx)
           back == SubSeq(rx_ring[q], nb_rx + 1, Len(rx_ring[q]))
<1>4. nb_rx \in 0..Len(rx_ring[q])
  BY <1>2, <1>3, LenProperties DEF RxBursts
<1>5. front \in Seq(Mbufs) /\ back \in Seq(Mbufs) /\ front \o back = rx_ring[q]
  BY <1>3, <1>4, CutInTwo
<1> HIDE DEF front, back
<1>6. Range(rx_ring[q]) = Range(front) \union Range(back)
  BY <1>5, RangeConcatenation, ZenonT(30)
<1>7. /\ rx_bufs'[q] = front /\ rx_ring'[q] = back /\ pc'[q] = "rewrite"
      /\ \A r \in Queues \ {q} : /\ rx_bufs'[r] = rx_bufs[r]
                                 /\ rx_ring'[r] = rx_ring[r] /\ pc'[r] = pc[r]
  BY <1>1, <1>2, <1>3 DEF TypeOK, PortTypeOK, WorkerTypeOK, front, back
<1>8. ChecksumsOf(q)'
  BY <1>1, <1>6, <1>7 DEF CksumInv, ChecksumsOf, Finished
<1>9. \A r \in Queues \ {q} : ChecksumsOf(r)'
  BY <1>1, <1>7 DEF CksumInv, ChecksumsOf, Finished
<1>10. WireChecksums'
  BY <1>1, SameWire DEF CksumInv
<1> QED
  BY <1>8, <1>9, <1>10 DEF CksumInv

\* A stage that edits the batch, and what it leaves in the checksum fields.
LEMMA CksumEdit ==
  ASSUME CksumInv, Inv', NEW q \in Queues, NEW to \in {"checksum", "tx"},
         pc' = [pc EXCEPT ![q] = to],
         \A m \in Mbufs \ Range(rx_bufs[q]) : pkt'[m] = pkt[m],
         \A m \in Range(rx_bufs[q]) :
           pkt'[m].cksum = IF to = "tx" THEN Finished ELSE "good",
         UNCHANGED <<rx_ring, tx_ring, wire, checksum_mode, rx_bufs>>
  PROVE  CksumInv'
<1>1. TypeOK /\ MbufOwnership
  BY DEF CksumInv, Inv
<1>2. /\ Range(Held[q]) = Range(tx_ring[q]) \union Range(rx_bufs[q])
                            \union Range(rx_ring[q])
      /\ Range(Held[q]) \subseteq Mbufs \ pool
      /\ Range(tx_ring[q]) \intersect Range(rx_bufs[q]) = {}
      /\ Range(rx_bufs[q]) \intersect Range(rx_ring[q]) = {}
  BY <1>1, HeldByParts
<1>3. pc'[q] = to /\ \A r \in Queues \ {q} : pc'[r] = pc[r]
  BY <1>1 DEF TypeOK
<1>4. ChecksumsOf(q)'
  BY <1>2, <1>3 DEF CksumInv, ChecksumsOf, Finished
<1>5. ASSUME NEW r \in Queues \ {q} PROVE ChecksumsOf(r)'
  BY <1>2, <1>3, OthersKeepChecksums
<1>6. WireChecksums'
  BY SameWire DEF CksumInv
<1> QED
  BY <1>4, <1>5, <1>6 DEF CksumInv

\* The exchange of the endpoints leaves a good packet good.
LEMMA CksumRewrite ==
  ASSUME CksumInv, Inv', NEW q \in Queues, Rewrite(q)
  PROVE  CksumInv'
<1>1. Range(rx_bufs[q]) \subseteq Mbufs \ pool /\ HeldCarry
  BY HeldByParts DEF CksumInv, Inv
<1>2. pc[q] = "rewrite" /\ pc' = [pc EXCEPT ![q] = "checksum"]
  BY DEF Rewrite, Goto
<1>3. pkt' = [m \in Mbufs |-> IF m \in Range(rx_bufs[q])
                               THEN SwapEndpoints(pkt[m]) ELSE pkt[m]]
  BY DEF Rewrite, EditBatch
<1>4. ASSUME NEW m \in Range(rx_bufs[q]) PROVE pkt'[m].cksum = "good"
  <2>1. pkt[m] \in Packet /\ pkt[m].cksum = "good"
    BY <1>1, <1>2 DEF HeldCarry, CksumInv, ChecksumsOf
  <2> QED
    BY <1>1, <1>3, <2>1, SwapKeepsFields
<1> QED
  BY <1>2, <1>3, <1>4, CksumEdit DEF Rewrite

\* The checksum stage finishes the batch.
LEMMA CksumChecksum ==
  ASSUME CksumInv, Inv', NEW q \in Queues, Checksum(q)
  PROVE  CksumInv'
<1>1. /\ Range(rx_bufs[q]) \subseteq Mbufs \ pool /\ HeldCarry
      /\ checksum_mode \in Modes
  BY HeldByParts DEF CksumInv, Inv, TypeOK, WorkerTypeOK
<1>2. pc[q] = "checksum" /\ pc' = [pc EXCEPT ![q] = "tx"]
  BY DEF Checksum, Goto
<1>3. pkt' = [m \in Mbufs |-> IF m \in Range(rx_bufs[q])
                               THEN FixChecksum(checksum_mode, pkt[m]) ELSE pkt[m]]
  BY DEF Checksum, EditBatch
<1>4. ASSUME NEW m \in Range(rx_bufs[q]) PROVE pkt'[m].cksum = Finished
  <2>1. pkt[m] \in Packet /\ pkt[m].cksum = "good"
    BY <1>1, <1>2 DEF HeldCarry, CksumInv, ChecksumsOf
  <2> QED
    BY <1>1, <1>3, <2>1, StageFinishes
<1> QED
  BY <1>2, <1>3, <1>4, CksumEdit DEF Checksum

\* The batch goes to the TX ring finished.
LEMMA CksumTxBurst ==
  ASSUME CksumInv, Inv', NEW q \in Queues, TxBurst(q)
  PROVE  CksumInv'
<1>1. /\ pc[q] = "tx" /\ pc' = [pc EXCEPT ![q] = "loop_end"]
      /\ rx_bufs' = [rx_bufs EXCEPT ![q] = <<>>] /\ UNCHANGED checksum_mode
  BY DEF TxBurst, Goto
<1>2. PICK nb_tx \in TxBursts(q, rx_bufs[q]) : SendOrFree(q, rx_bufs[q], nb_tx)
  BY DEF TxBurst
<1> DEFINE front == SubSeq(rx_bufs[q], 1, nb_tx)
           back == SubSeq(rx_bufs[q], nb_tx + 1, Len(rx_bufs[q]))
<1>3. /\ tx_ring' = [tx_ring EXCEPT ![q] = @ \o front]
      /\ pkt' = [m \in Mbufs |-> IF m \in Range(back) THEN NoPacket ELSE pkt[m]]
      /\ UNCHANGED <<rx_ring, wire>>
  BY <1>2 DEF SendOrFree, FreeAll
<1>4. TypeOK /\ MbufOwnership
  BY DEF CksumInv, Inv
<1>5. /\ tx_ring[q] \in Seq(Mbufs) /\ rx_bufs[q] \in Seq(Mbufs)
      /\ IsInjective(rx_bufs[q])
      /\ Range(tx_ring[q]) \intersect Range(rx_bufs[q]) = {}
      /\ Range(rx_bufs[q]) \intersect Range(rx_ring[q]) = {}
      /\ Range(Held[q]) \subseteq Mbufs \ pool
      /\ Range(Held[q]) = Range(tx_ring[q]) \union Range(rx_bufs[q])
                            \union Range(rx_ring[q])
  BY <1>4, HeldByParts
<1>6. nb_tx \in 0..Len(rx_bufs[q]) /\ Len(rx_bufs[q]) \in Nat
  BY <1>2, <1>5, LenProperties DEF TxBursts
<1>7. /\ front \in Seq(Mbufs) /\ back \in Seq(Mbufs) /\ front \o back = rx_bufs[q]
  BY <1>5, <1>6, CutInTwo
<1> HIDE DEF front, back
<1>8. /\ tx_ring[q] \in Seq(Mbufs) /\ front \in Seq(Mbufs) /\ back \in Seq(Mbufs)
      /\ IsInjective(front \o back)
  BY <1>5, <1>7
<1>9. /\ Range(tx_ring[q] \o front) = Range(tx_ring[q]) \union Range(front)
      /\ Range(rx_bufs[q]) = Range(front) \union Range(back)
      /\ Range(front) \intersect Range(back) = {}
  <2>1. /\ Range(tx_ring[q] \o front) = Range(tx_ring[q]) \union Range(front)
        /\ Range(front \o back) = Range(front) \union Range(back)
    BY <1>8, RangeJoin
  <2>2. Range(front) \intersect Range(back) = {}
    BY <1>8, ConcatInjective
  <2> QED
    BY <1>7, <2>1, <2>2
<1>10. /\ tx_ring'[q] = tx_ring[q] \o front /\ rx_bufs'[q] = <<>>
       /\ \A r \in Queues \ {q} : /\ tx_ring'[r] = tx_ring[r]
                                  /\ rx_bufs'[r] = rx_bufs[r] /\ pc'[r] = pc[r]
       /\ \A m \in Mbufs \ Range(back) : pkt'[m] = pkt[m]
  BY <1>1, <1>3, <1>4 DEF TypeOK, PortTypeOK, WorkerTypeOK
<1>11. ChecksumsOf(q)'
  <2>1. ChecksumsOf(q) /\ \A m \in Range(front) : pkt[m].cksum = Finished
    BY <1>1, <1>9 DEF CksumInv, ChecksumsOf
  <2>2. \A m \in Range(tx_ring[q] \o front) \union Range(rx_ring[q]) :
          pkt'[m] = pkt[m]
    BY <1>5, <1>9, <1>10
  <2>3. Finished' = Finished /\ Range(<<>>) = {}
    BY <1>1 DEF Finished, Range
  <2>4. \A m \in Range(rx_ring'[q]) : pkt'[m].cksum = "good"
    BY <1>3, <2>1, <2>2 DEF ChecksumsOf
  <2>5. \A m \in Range(tx_ring'[q]) : pkt'[m].cksum = Finished
    <3>1. \A m \in Range(tx_ring[q] \o front) : pkt[m].cksum = Finished
      BY <1>9, <2>1 DEF ChecksumsOf
    <3> QED
      BY <1>10, <2>2, <3>1
  <2>6. Range(rx_bufs'[q]) = {}
    BY <1>10, <2>3
  <2> QED
    BY <2>3, <2>4, <2>5, <2>6 DEF ChecksumsOf
<1>12. ASSUME NEW r \in Queues \ {q} PROVE ChecksumsOf(r)'
  BY <1>1, <1>3, <1>5, <1>9, <1>10, OthersKeepChecksums
<1>13. WireChecksums'
  BY <1>1, <1>3, SameWire DEF CksumInv
<1> QED
  BY <1>11, <1>12, <1>13 DEF CksumInv

\* Every step keeps the invariant.
LEMMA CksumNext == CksumInv /\ [Next]_vars => CksumInv'
<1> SUFFICES ASSUME CksumInv, [Next]_vars PROVE CksumInv'
  OBVIOUS
<1>0. Inv' /\ TypeOK /\ NoBatch
  BY InvNext DEF CksumInv, Inv
<1>1. ASSUME NEW h \in Traffic, Deliver(h), UNCHANGED workerVars PROVE CksumInv'
  BY <1>0, <1>1, CksumDeliver
<1>2. ASSUME NEW q \in Queues, Transmit(q), UNCHANGED workerVars PROVE CksumInv'
  BY <1>0, <1>2, CksumTransmit
<1>3. ASSUME NEW q \in Queues, EmptyPoll(q) PROVE CksumInv'
  BY <1>0, <1>3, CksumIdle DEF EmptyPoll, NoBatch
<1>4. ASSUME NEW q \in Queues, LoopEnd(q) PROVE CksumInv'
  BY <1>0, <1>4, CksumIdle DEF LoopEnd, Goto, NoBatch, TypeOK
<1>5. ASSUME NEW q \in Queues, RxBurst(q) PROVE CksumInv'
  BY <1>0, <1>5, CksumRxBurst
<1>6. ASSUME NEW q \in Queues, Rewrite(q) PROVE CksumInv'
  BY <1>0, <1>6, CksumRewrite
<1>7. ASSUME NEW q \in Queues, Checksum(q) PROVE CksumInv'
  BY <1>0, <1>7, CksumChecksum
<1>8. ASSUME NEW q \in Queues, TxBurst(q) PROVE CksumInv'
  BY <1>0, <1>8, CksumTxBurst
<1>9. CASE UNCHANGED vars
  BY <1>0, <1>9 DEF vars, portVars, workerVars, CksumInv, ChecksumsOf, Finished,
                    WireChecksums
<1> QED
  BY <1>1, <1>2, <1>3, <1>4, <1>5, <1>6, <1>7, <1>8, <1>9 DEF Next, Nic, Serve

\* Whatever the mode and however the queues interleave, every packet that
\* echo_server.c or echo_server_checksum_exp.c puts on the wire has valid
\* checksums, or in mode "none" zero ones.
THEOREM ChecksumsOnTheWire == Spec => []WireChecksums
<1>1. Init => CksumInv
  <2>1. Init => \A q \in Queues : ChecksumsOf(q)
    BY DEF Init, PortInit, WorkerInit, ChecksumsOf, Range
  <2>2. Init => WireChecksums
    BY DEF Init, PortInit, WireChecksums
  <2> QED
    BY <2>1, <2>2, InvInit DEF CksumInv
<1>2. CksumInv => WireChecksums
  BY DEF CksumInv
<1> QED
  BY <1>1, <1>2, CksumNext, PTL DEF Spec

------------------------------------------------------------------------------
(* The unbuffered server implements EchoService: each step of the server   *)
(* maps to an Accept, to an Answer, or to no step of the service.          *)
(* Fairness is left to the model checker.                                  *)
(*                                                                         *)
(* The map rests on the ownership of the mbufs: what a worker or the NIC   *)
(* writes into an mbuf must not show in what any other queue has pending   *)
(* or has answered.                                                        *)

\* A batch that is being worked on has a packet in it.
BatchHasPackets ==
  \A q \in Queues :
    pc[q] \in {"rewrite", "checksum", "tx"} => rx_bufs[q] # <<>>

MapInv == Inv /\ BatchHasPackets

\* What the service sees of an mbuf that waits in a ring, and of one that is in
\* rx_bufs and may have been rewritten.
Seen == [m \in Mbufs |-> HeaderOf(pkt[m])]
Asked(q) ==
  [m \in Mbufs |-> IF Swapped(q) THEN Service!Echo(HeaderOf(pkt[m]))
                    ELSE HeaderOf(pkt[m])]
SeenOnWire == [p \in Packet |-> HeaderOf(p)]

Content == Packet \union {NoPacket}
Shown == {HeaderOf(p) : p \in Content}
           \union {Service!Echo(HeaderOf(p)) : p \in Content}

\* The types of the three views.
LEMMA Views ==
  TypeOK => /\ Seen \in [Mbufs -> Shown]
            /\ \A q \in Queues : Asked(q) \in [Mbufs -> Shown]
            /\ SeenOnWire \in [Packet -> Shown]
<1> SUFFICES ASSUME TypeOK
             PROVE  /\ Seen \in [Mbufs -> Shown]
                    /\ \A q \in Queues : Asked(q) \in [Mbufs -> Shown]
                    /\ SeenOnWire \in [Packet -> Shown]
  OBVIOUS
<1>1. pkt \in [Mbufs -> Content]
  BY DEF TypeOK, PortTypeOK, Content
<1>2. \A p \in Content :
        HeaderOf(p) \in Shown /\ Service!Echo(HeaderOf(p)) \in Shown
  BY DEF Shown
<1>3. Packet \subseteq Content
  BY DEF Content
<1> QED
  BY <1>1, <1>2, <1>3 DEF Seen, Asked, SeenOnWire

\* The same in the next state.
LEMMA ViewsNext ==
  TypeOK' => /\ Seen' \in [Mbufs -> Shown]
             /\ \A q \in Queues : Asked(q)' \in [Mbufs -> Shown]
<1>1. (TypeOK => /\ Seen \in [Mbufs -> Shown]
                 /\ \A q \in Queues : Asked(q) \in [Mbufs -> Shown]
                 /\ SeenOnWire \in [Packet -> Shown])'
  BY Views, PTL
<1> QED
  BY <1>1 DEF Shown, Content, Packet, CksumState, HeaderOf, Service!Echo

\* The pending packets and the answers of a queue, by way of the views.
LEMMA MapByViews ==
  TypeOK =>
    \A q \in Queues :
      /\ Pending(q) = Image(Asked(q), rx_bufs[q]) \o Image(Seen, rx_ring[q])
      /\ Replied(q) = Image(SeenOnWire, wire[q]) \o Image(Seen, tx_ring[q])
<1> SUFFICES ASSUME TypeOK, NEW q \in Queues
             PROVE  /\ Pending(q) = Image(Asked(q), rx_bufs[q])
                                     \o Image(Seen, rx_ring[q])
                    /\ Replied(q) = Image(SeenOnWire, wire[q])
                                     \o Image(Seen, tx_ring[q])
  OBVIOUS
<1>1. /\ \A i \in 1..Len(rx_bufs[q]) : rx_bufs[q][i] \in Mbufs
      /\ \A i \in 1..Len(rx_ring[q]) : rx_ring[q][i] \in Mbufs
      /\ \A i \in 1..Len(tx_ring[q]) : tx_ring[q][i] \in Mbufs
      /\ \A i \in 1..Len(wire[q]) : wire[q][i] \in Packet
  BY WorkerParts, ElementOfSeq
<1>2. [i \in 1..Len(rx_bufs[q]) |-> AsRequest(q, i)] = Image(Asked(q), rx_bufs[q])
  <2>1. ASSUME NEW i \in 1..Len(rx_bufs[q])
        PROVE  AsRequest(q, i) = Asked(q)[rx_bufs[q][i]]
    BY <1>1 DEF AsRequest, Asked, HeaderOf, Service!Echo
  <2> QED
    BY <2>1 DEF Image
<1>3. Headers(rx_ring[q]) = Image(Seen, rx_ring[q])
  BY <1>1 DEF Headers, Seen, Image
<1>4. Headers(tx_ring[q]) = Image(Seen, tx_ring[q])
  BY <1>1 DEF Headers, Seen, Image
<1>5. [i \in 1..Len(wire[q]) |-> HeaderOf(wire[q][i])] = Image(SeenOnWire, wire[q])
  BY <1>1 DEF SeenOnWire, Image
<1> QED
  BY <1>2, <1>3, <1>4, <1>5 DEF Pending, Replied

\* The same in the next state.
LEMMA MapByViewsNext ==
  TypeOK' =>
    \A q \in Queues :
      /\ Pending(q)' = Image(Asked(q)', rx_bufs'[q]) \o Image(Seen', rx_ring'[q])
      /\ Replied(q)' = Image(SeenOnWire, wire'[q]) \o Image(Seen', tx_ring'[q])
<1>1. (TypeOK =>
         \A q \in Queues :
           /\ Pending(q) = Image(Asked(q), rx_bufs[q]) \o Image(Seen, rx_ring[q])
           /\ Replied(q) = Image(SeenOnWire, wire[q]) \o Image(Seen, tx_ring[q]))'
  BY MapByViews, PTL
<1> QED
  BY <1>1 DEF SeenOnWire

\* A queue looks the same if nothing it holds has moved or changed.
LEMMA SameView ==
  ASSUME TypeOK, TypeOK', NEW r \in Queues,
         rx_bufs'[r] = rx_bufs[r], rx_ring'[r] = rx_ring[r],
         tx_ring'[r] = tx_ring[r], wire'[r] = wire[r],
         Swapped(r)' <=> Swapped(r),
         \A m \in Range(Held[r]) : pkt'[m] = pkt[m], MbufOwnership
  PROVE  Pending(r)' = Pending(r) /\ Replied(r)' = Replied(r)
<1>1. /\ tx_ring[r] \in Seq(Mbufs) /\ rx_bufs[r] \in Seq(Mbufs)
      /\ rx_ring[r] \in Seq(Mbufs) /\ Range(Held[r]) \subseteq Mbufs
      /\ Range(Held[r]) = Range(tx_ring[r]) \union Range(rx_bufs[r])
                            \union Range(rx_ring[r])
  BY HeldByParts
<1>2. \A m \in Range(Held[r]) : Seen'[m] = Seen[m] /\ Asked(r)'[m] = Asked(r)[m]
  BY <1>1 DEF Seen, Asked
<1>3. Image(Asked(r)', rx_bufs[r]) = Image(Asked(r), rx_bufs[r])
  BY <1>1, <1>2, ImageDepends
<1>4. Image(Seen', rx_ring[r]) = Image(Seen, rx_ring[r])
  BY <1>1, <1>2, ImageDepends
<1>5. Image(Seen', tx_ring[r]) = Image(Seen, tx_ring[r])
  BY <1>1, <1>2, ImageDepends
<1> QED
  BY <1>3, <1>4, <1>5, MapByViews, MapByViewsNext

\* The drops of a worker, and that a report does not change them.
LEMMA CountedDrops ==
  TypeOK => \A q \in Queues :
              Counted(q).tx_drops = printed[q].tx_drops + stats[q].tx_drops
BY WorkerParts, PlusCounters DEF Counted

\* The same in the next state.
LEMMA CountedDropsNext ==
  TypeOK' => \A q \in Queues :
               Counted(q)'.tx_drops = printed'[q].tx_drops + stats'[q].tx_drops
<1>1. (TypeOK => \A q \in Queues :
         Counted(q).tx_drops = printed[q].tx_drops + stats[q].tx_drops)'
  BY CountedDrops, PTL
<1> QED
  BY <1>1

\* A report moves drops from the interval to the total and changes no sum.
LEMMA ReportKeepsDrops ==
  ASSUME TypeOK, TypeOK', NEW q \in Queues, MaybeReport(q)
  PROVE  \A r \in Queues : Counted(r)'.tx_drops = Counted(r).tx_drops
<1>1. CASE UNCHANGED <<stats, printed>>
  BY <1>1 DEF Counted
<1>2. CASE Report(q)
  <2> SUFFICES ASSUME NEW r \in Queues
               PROVE  printed'[r].tx_drops + stats'[r].tx_drops
                        = printed[r].tx_drops + stats[r].tx_drops
    BY CountedDrops, CountedDropsNext
  <2>1. CASE r # q
    BY <1>2, <2>1, WorkerParts DEF Report
  <2>2. CASE r = q
    <3>1. printed'[q] = Plus(printed[q], stats[q]) /\ stats'[q] = ZeroCounters
      BY <1>2, WorkerParts DEF Report
    <3>2. Plus(printed[q], stats[q]).tx_drops = printed[q].tx_drops + stats[q].tx_drops
      BY WorkerParts, PlusCounters
    <3>3. ZeroCounters.tx_drops = 0
      BY DEF ZeroCounters
    <3>4. printed[q].tx_drops \in Nat /\ stats[q].tx_drops \in Nat
      BY WorkerParts DEF Counters
    <3> QED
      BY <2>2, <3>1, <3>2, <3>3, <3>4
  <2> QED
    BY <2>1, <2>2
<1> QED
  BY <1>1, <1>2 DEF MaybeReport

\* A step that no queue shows is no step of the service.
LEMMA Stutters ==
  ASSUME requests' = requests,
         \A r \in Queues : /\ Pending(r)' = Pending(r) /\ Replied(r)' = Replied(r)
                           /\ Counted(r)'.tx_drops = Counted(r).tx_drops
  PROVE  UNCHANGED Service!serviceVars
<1>1. [q \in Queues |-> Pending(q)]' = [q \in Queues |-> Pending(q)]
  OBVIOUS
<1>2. [q \in Queues |-> Replied(q)]' = [q \in Queues |-> Replied(q)]
  OBVIOUS
<1>3. [q \in Queues |-> Counted(q).tx_drops]' =
        [q \in Queues |-> Counted(q).tx_drops]
  OBVIOUS
<1> QED
  BY <1>1, <1>2, <1>3 DEF Service!serviceVars

\* A queue that does not move looks the same if only free mbufs and those of
\* queue q are written.
LEMMA OthersLookTheSame ==
  ASSUME TypeOK, TypeOK', MbufOwnership, NEW q \in Queues,
         NEW r \in Queues \ {q},
         rx_bufs'[r] = rx_bufs[r], rx_ring'[r] = rx_ring[r],
         tx_ring'[r] = tx_ring[r], wire'[r] = wire[r], pc'[r] = pc[r],
         \A m \in Mbufs \ (pool \union Range(Held[q])) : pkt'[m] = pkt[m]
  PROVE  Pending(r)' = Pending(r) /\ Replied(r)' = Replied(r)
<1>1. /\ Range(Held[r]) \subseteq Mbufs \ pool
      /\ Range(Held[r]) \intersect Range(Held[q]) = {}
  BY HeldByParts DEF MbufOwnership, OwnedOnce
<1>2. \A m \in Range(Held[r]) : pkt'[m] = pkt[m]
  BY <1>1
<1>3. Swapped(r)' <=> Swapped(r)
  BY DEF Swapped
<1> QED
  BY <1>2, <1>3, SameView

------------------------------------------------------------------------------
(* One lemma per action.                                                   *)

\* A packet that the NIC stores is accepted.
LEMMA MapDeliver ==
  ASSUME MapInv, Inv', NEW h \in Traffic, Deliver(h), UNCHANGED workerVars
  PROVE  Service!Accept(h)
<1> DEFINE q == Rss[h]
           r == Service!Request(Len(requests) + 1, h)
           p == [id |-> Len(requests) + 1, src |-> h.src, dst |-> h.dst,
                 cksum |-> "good"]
<1>1. PICK m \in pool :
        /\ rx_ring' = [rx_ring EXCEPT ![q] = Append(@, m)]
        /\ pkt' = [pkt EXCEPT ![m] = p]
  BY Zenon DEF Deliver
<1>2. /\ requests' = Append(requests, h) /\ Len(requests) < MaxRequests
      /\ UNCHANGED <<tx_ring, wire>>
      /\ UNCHANGED <<checksum_mode, pc, rx_bufs, stats, printed>>
  BY DEF Deliver, workerVars
<1>3. TypeOK /\ MbufOwnership /\ TypeOK'
  BY DEF MapInv, Inv
<1>4. q \in Queues /\ m \in Mbufs
  BY <1>3, PortAssumption DEF TypeOK, PortTypeOK
<1>5. HeaderOf(p) = r
  BY DEF HeaderOf, Service!Request
<1> HIDE DEF q, p, r
<1>6. /\ rx_ring'[q] = Append(rx_ring[q], m)
      /\ \A s \in Queues \ {q} : rx_ring'[s] = rx_ring[s]
      /\ pkt'[m] = p /\ \A n \in Mbufs \ {m} : pkt'[n] = pkt[n]
  BY <1>1, <1>3, <1>4 DEF TypeOK, PortTypeOK
<1>7. ASSUME NEW s \in Queues \ {q}
      PROVE  Pending(s)' = Pending(s) /\ Replied(s)' = Replied(s)
  BY <1>2, <1>3, <1>4, <1>6, <1>7, OthersLookTheSame
<1>8. Replied(q)' = Replied(q) /\ Pending(q)' = Append(Pending(q), r)
  <2>1. /\ tx_ring[q] \in Seq(Mbufs) /\ rx_bufs[q] \in Seq(Mbufs)
        /\ rx_ring[q] \in Seq(Mbufs)
        /\ m \notin Range(tx_ring[q]) /\ m \notin Range(rx_bufs[q])
        /\ m \notin Range(rx_ring[q])
        /\ Range(tx_ring[q]) \subseteq Mbufs /\ Range(rx_bufs[q]) \subseteq Mbufs
        /\ Range(rx_ring[q]) \subseteq Mbufs
    BY <1>3, <1>4, HeldByParts
  <2>2. \A n \in Mbufs \ {m} : Seen'[n] = Seen[n] /\ Asked(q)'[n] = Asked(q)[n]
    BY <1>2, <1>6 DEF Seen, Asked, Swapped
  <2>3. Seen'[m] = r
    BY <1>4, <1>5, <1>6 DEF Seen
  <2>4. Image(Seen', tx_ring[q]) = Image(Seen, tx_ring[q])
    BY <2>1, <2>2, ImageDepends
  <2>5. Image(Asked(q)', rx_bufs[q]) = Image(Asked(q), rx_bufs[q])
    BY <2>1, <2>2, ImageDepends
  <2>6. Image(Seen', rx_ring[q]) = Image(Seen, rx_ring[q])
    BY <2>1, <2>2, ImageDepends
  <2> DEFINE batch == Image(Asked(q), rx_bufs[q])
             ring == Image(Seen, rx_ring[q])
  <2>7. batch \in Seq(Shown) /\ ring \in Seq(Shown) /\ r \in Shown
    <3>1. batch \in Seq(Shown)
      BY <1>3, <1>4, <2>1, Views, ImageInto
    <3>2. ring \in Seq(Shown)
      BY <1>3, <2>1, Views, ImageInto
    <3>3. r \in Shown
      BY <1>3, <1>4, <2>3, ViewsNext
    <3> QED
      BY <3>1, <3>2, <3>3
  <2>8. Image(Seen', rx_ring'[q]) = ring \o <<r>>
    <3>1. Seen' \in [Mbufs -> Shown]
      BY <1>3, ViewsNext
    <3>2. Image(Seen', Append(rx_ring[q], m))
            = Image(Seen', rx_ring[q]) \o <<Seen'[m]>>
      <4>1. rx_ring[q] \in Seq(Mbufs)
        BY <2>1
      <4> QED
        BY <1>4, <3>1, <4>1, ImageAppend
    <3> QED
      BY <1>6, <2>3, <2>6, <3>2
  <2>9. Pending(q)' = batch \o (ring \o <<r>>)
    BY <1>2, <1>3, <1>4, <2>5, <2>8, MapByViewsNext
  <2>10. Pending(q) = batch \o ring
    BY <1>3, <1>4, MapByViews
  <2>11. Replied(q)' = Replied(q)
    BY <1>2, <1>3, <1>4, <2>4, MapByViews, MapByViewsNext
  <2> HIDE DEF batch, ring
  <2>12. batch \o (ring \o <<r>>) = Append(batch \o ring, r)
    BY <2>7, AppendRight
  <2> QED
    BY <2>9, <2>10, <2>11, <2>12
<1>9. [s \in Queues |-> Pending(s)]' =
        [[s \in Queues |-> Pending(s)] EXCEPT ![q] = Append(@, r)]
  BY <1>4, <1>7, <1>8
<1>10. [s \in Queues |-> Replied(s)]' = [s \in Queues |-> Replied(s)]
  BY <1>7, <1>8
<1>11. [s \in Queues |-> Counted(s).tx_drops]' =
         [s \in Queues |-> Counted(s).tx_drops]
  BY <1>2 DEF Counted
<1> QED
  BY <1>2, <1>9, <1>10, <1>11 DEF Service!Accept, q, r

\* A poll that returns nothing, and the end of an iteration, at most print.
LEMMA MapEmptyPoll ==
  ASSUME MapInv, Inv', NEW q \in Queues, EmptyPoll(q)
  PROVE  UNCHANGED Service!serviceVars
<1>1. /\ TypeOK /\ TypeOK' /\ MbufOwnership /\ MaybeReport(q)
      /\ UNCHANGED <<pool, pkt, rx_ring, tx_ring, requests, wire, pc, rx_bufs>>
  BY DEF MapInv, Inv, EmptyPoll, portVars
<1>2. ASSUME NEW r \in Queues
      PROVE  Pending(r)' = Pending(r) /\ Replied(r)' = Replied(r)
  BY <1>1, SameView DEF Swapped
<1>3. \A r \in Queues : Counted(r)'.tx_drops = Counted(r).tx_drops
  BY <1>1, ReportKeepsDrops
<1> QED
  BY <1>1, <1>2, <1>3, Stutters

\* The end of an iteration moves no packet.
LEMMA MapLoopEnd ==
  ASSUME MapInv, Inv', NEW q \in Queues, LoopEnd(q)
  PROVE  UNCHANGED Service!serviceVars
<1>1. /\ TypeOK /\ TypeOK' /\ MbufOwnership /\ MaybeReport(q)
      /\ UNCHANGED <<pool, pkt, rx_ring, tx_ring, requests, wire, rx_bufs>>
      /\ pc[q] = "loop_end" /\ pc' = [pc EXCEPT ![q] = "poll"]
  BY DEF MapInv, Inv, LoopEnd, Goto, portVars
<1>2. ASSUME NEW r \in Queues
      PROVE  Pending(r)' = Pending(r) /\ Replied(r)' = Replied(r)
  <2>1. Swapped(r)' <=> Swapped(r)
    BY <1>1 DEF Swapped, TypeOK
  <2> QED
    BY <1>1, <2>1, SameView
<1>3. \A r \in Queues : Counted(r)'.tx_drops = Counted(r).tx_drops
  BY <1>1, ReportKeepsDrops
<1> QED
  BY <1>1, <1>2, <1>3, Stutters

\* A poll moves packets within what is pending.
LEMMA MapRxBurst ==
  ASSUME MapInv, Inv', NEW q \in Queues, RxBurst(q)
  PROVE  UNCHANGED Service!serviceVars
<1>1. /\ TypeOK /\ TypeOK' /\ MbufOwnership /\ NoBatch
      /\ UNCHANGED <<pool, pkt, tx_ring, requests, wire, printed>>
      /\ pc[q] = "poll" /\ pc' = [pc EXCEPT ![q] = "rewrite"]
  BY DEF MapInv, Inv, RxBurst, Goto
<1>2. PICK nb_rx \in RxBursts(q, BURST_SIZE) :
        /\ rx_bufs' = [rx_bufs EXCEPT ![q] = SubSeq(rx_ring[q], 1, nb_rx)]
        /\ rx_ring' = [rx_ring EXCEPT ![q] = SubSeq(@, nb_rx + 1, Len(@))]
        /\ stats' = [stats EXCEPT ![q].rx_packets = @ + nb_rx]
  BY Zenon DEF RxBurst
<1> DEFINE ring == rx_ring[q]
           front == SubSeq(ring, 1, nb_rx)
           back == SubSeq(ring, nb_rx + 1, Len(ring))
<1>3. /\ ring \in Seq(Mbufs) /\ rx_bufs[q] = <<>>
      /\ nb_rx \in 0..Len(ring)
  <2>1. ring \in Seq(Mbufs) /\ Len(rx_ring[q]) \in Nat
    BY <1>1, WorkerParts
  <2>2. nb_rx \in 0..Len(rx_ring[q])
    BY <1>2, <2>1 DEF RxBursts
  <2> QED
    BY <1>1, <2>1, <2>2 DEF NoBatch
<1>4. /\ rx_bufs'[q] = front /\ rx_ring'[q] = back
      /\ \A r \in Queues \ {q} : rx_bufs'[r] = rx_bufs[r] /\ rx_ring'[r] = rx_ring[r]
  BY <1>1, <1>2 DEF TypeOK, PortTypeOK, WorkerTypeOK
<1>5. ASSUME NEW r \in Queues \ {q}
      PROVE  Pending(r)' = Pending(r) /\ Replied(r)' = Replied(r)
  BY <1>1, <1>4, OthersLookTheSame DEF TypeOK
<1>6. Replied(q)' = Replied(q) /\ Pending(q)' = Pending(q)
  <2>1. Seen' = Seen /\ Asked(q)' = Seen /\ Asked(q) = Seen
    BY <1>1 DEF Seen, Asked, Swapped, TypeOK
  <2> HIDE DEF ring
  <2>2. front \in Seq(Mbufs) /\ back \in Seq(Mbufs) /\ front \o back = ring
    BY <1>3, CutInTwo
  <2> HIDE DEF front, back
  <2>3. Image(Seen, front \o back) = Image(Seen, front) \o Image(Seen, back)
    <3>1. front \in Seq(Mbufs) /\ back \in Seq(Mbufs)
      BY <2>2
    <3> QED
      BY <3>1, ImageConcat
  <2>4. Pending(q)' = Image(Seen, front) \o Image(Seen, back)
    BY <1>1, <1>4, <2>1, MapByViewsNext
  <2>5. Pending(q) = <<>> \o Image(Seen, ring)
    BY <1>1, <1>3, <2>1, MapByViews, ImageEmpty DEF ring
  <2>6. <<>> \o Image(Seen, ring) = Image(Seen, ring)
    <3>1. Image(Seen, ring) \in Seq(Shown)
      BY <1>1, <1>3, Views, ImageInto
    <3> QED
      BY <3>1, ConcatEmptySeq
  <2>7. Replied(q)' = Replied(q)
    BY <1>1, <2>1, MapByViews, MapByViewsNext
  <2> QED
    BY <2>2, <2>3, <2>4, <2>5, <2>6, <2>7, Zenon
<1>7. \A r \in Queues : Counted(r)'.tx_drops = Counted(r).tx_drops
  <2>1. \A r \in Queues : stats'[r].tx_drops = stats[r].tx_drops
    BY <1>1, <1>2, WorkerParts DEF Counters
  <2> QED
    BY <1>1, <2>1, CountedDrops, CountedDropsNext
<1> QED
  BY <1>1, <1>5, <1>6, <1>7, Stutters

\* A stage that edits a batch changes neither what the packets stand for nor
\* any other packet.
LEMMA MapEdit ==
  ASSUME TypeOK, TypeOK', MbufOwnership, NEW q \in Queues,
         UNCHANGED <<rx_ring, tx_ring, requests, wire, rx_bufs, stats, printed>>,
         \A r \in Queues \ {q} : pc'[r] = pc[r],
         \A m \in Mbufs \ Range(rx_bufs[q]) : pkt'[m] = pkt[m],
         \A m \in Range(rx_bufs[q]) : Asked(q)'[m] = Asked(q)[m]
  PROVE  UNCHANGED Service!serviceVars
<1>1. /\ tx_ring[q] \in Seq(Mbufs) /\ rx_bufs[q] \in Seq(Mbufs)
      /\ rx_ring[q] \in Seq(Mbufs)
      /\ Range(tx_ring[q]) \subseteq Mbufs \ Range(rx_bufs[q])
      /\ Range(rx_ring[q]) \subseteq Mbufs \ Range(rx_bufs[q])
      /\ Range(rx_bufs[q]) \subseteq Range(Held[q])
  BY HeldByParts
<1>2. ASSUME NEW r \in Queues \ {q}
      PROVE  Pending(r)' = Pending(r) /\ Replied(r)' = Replied(r)
  <2>1. \A m \in Mbufs \ (pool \union Range(Held[q])) : pkt'[m] = pkt[m]
    BY <1>1
  <2> QED
    BY <2>1, OthersLookTheSame
<1>3. \A m \in Mbufs \ Range(rx_bufs[q]) : Seen'[m] = Seen[m]
  BY DEF Seen
<1>4. Image(Seen', tx_ring[q]) = Image(Seen, tx_ring[q])
  BY <1>1, <1>3, ImageDepends
<1>5. Image(Seen', rx_ring[q]) = Image(Seen, rx_ring[q])
  BY <1>1, <1>3, ImageDepends
<1>6. Image(Asked(q)', rx_bufs[q]) = Image(Asked(q), rx_bufs[q])
  BY <1>1, ImageDepends
<1>7. Pending(q)' = Pending(q) /\ Replied(q)' = Replied(q)
  BY <1>4, <1>5, <1>6, MapByViews, MapByViewsNext
<1>8. \A r \in Queues : Counted(r)'.tx_drops = Counted(r).tx_drops
  BY DEF Counted
<1> QED
  BY <1>2, <1>7, <1>8, Stutters

\* The exchange of the endpoints is undone by Asked, which knows from the stage
\* of the worker that it has happened.
LEMMA MapRewrite ==
  ASSUME MapInv, Inv', NEW q \in Queues, Rewrite(q)
  PROVE  UNCHANGED Service!serviceVars
<1>1. /\ TypeOK /\ TypeOK' /\ MbufOwnership /\ HeldCarry
      /\ UNCHANGED <<rx_ring, tx_ring, requests, wire, rx_bufs, stats, printed>>
      /\ pc[q] = "rewrite" /\ pc' = [pc EXCEPT ![q] = "checksum"]
      /\ pkt' = [m \in Mbufs |-> IF m \in Range(rx_bufs[q])
                                THEN SwapEndpoints(pkt[m]) ELSE pkt[m]]
  BY DEF MapInv, Inv, Rewrite, Goto, EditBatch
<1>2. \A r \in Queues \ {q} : pc'[r] = pc[r]
  BY <1>1 DEF TypeOK
<1>3. ~Swapped(q) /\ Swapped(q)'
  BY <1>1 DEF Swapped, TypeOK
<1>4. ASSUME NEW m \in Range(rx_bufs[q]) PROVE Asked(q)'[m] = Asked(q)[m]
  <2>1. m \in Mbufs /\ pkt[m] \in Packet
    BY <1>1, HeldByParts DEF HeldCarry
  <2>2. pkt'[m] = SwapEndpoints(pkt[m])
    BY <1>1, <2>1
  <2>3. Asked(q)'[m] = Service!Echo(HeaderOf(SwapEndpoints(pkt[m])))
    BY <1>3, <2>1, <2>2 DEF Asked
  <2>4. Asked(q)[m] = HeaderOf(pkt[m])
    BY <1>3, <2>1 DEF Asked
  <2>5. Service!Echo(HeaderOf(SwapEndpoints(pkt[m]))) = HeaderOf(pkt[m])
    BY <2>1 DEF Service!Echo, HeaderOf, SwapEndpoints, Packet
  <2> QED
    BY <2>3, <2>4, <2>5
<1> QED
  BY <1>1, <1>2, <1>4, MapEdit

\* The checksum stage changes nothing the service sees.
LEMMA MapChecksum ==
  ASSUME MapInv, Inv', NEW q \in Queues, Checksum(q)
  PROVE  UNCHANGED Service!serviceVars
<1>1. /\ TypeOK /\ TypeOK' /\ MbufOwnership /\ HeldCarry
      /\ UNCHANGED <<rx_ring, tx_ring, requests, wire, rx_bufs, stats, printed>>
      /\ pc[q] = "checksum" /\ pc' = [pc EXCEPT ![q] = "tx"]
      /\ pkt' = [m \in Mbufs |-> IF m \in Range(rx_bufs[q])
                                THEN FixChecksum(checksum_mode, pkt[m]) ELSE pkt[m]]
  BY DEF MapInv, Inv, Checksum, Goto, EditBatch
<1>2. \A r \in Queues \ {q} : pc'[r] = pc[r]
  BY <1>1 DEF TypeOK
<1>3. Swapped(q) /\ Swapped(q)'
  BY <1>1 DEF Swapped, TypeOK
<1>4. ASSUME NEW m \in Range(rx_bufs[q]) PROVE Asked(q)'[m] = Asked(q)[m]
  <2>1. m \in Mbufs /\ pkt[m] \in Packet
    BY <1>1, HeldByParts DEF HeldCarry
  <2>2. pkt'[m] = FixChecksum(checksum_mode, pkt[m])
    BY <1>1, <2>1
  <2>3. HeaderOf(FixChecksum(checksum_mode, pkt[m])) = HeaderOf(pkt[m])
    <3>1. checksum_mode \in {"software", "offload", "preserve", "none"}
      BY <1>1, WorkerAssumption DEF TypeOK, WorkerTypeOK
    <3>2. \A c : HeaderOf([pkt[m] EXCEPT !.cksum = c]) = HeaderOf(pkt[m])
      BY <2>1 DEF HeaderOf, Packet
    <3> QED
      BY <3>1, <3>2 DEF FixChecksum
  <2> QED
    BY <1>3, <2>1, <2>2, <2>3 DEF Asked
<1> QED
  BY <1>1, <1>2, <1>4, MapEdit

\* What the NIC sends leaves the TX ring for the wire, and its headers are those
\* it had in the ring.
LEMMA MapTransmit ==
  ASSUME MapInv, Inv', NEW q \in Queues, Transmit(q), UNCHANGED workerVars
  PROVE  UNCHANGED Service!serviceVars
<1> DEFINE ring == tx_ring[q]
           m == Head(ring)
           rest == Tail(ring)
           p == OnWire(pkt[m])
<1>1. /\ TypeOK /\ TypeOK' /\ MbufOwnership /\ HeldCarry
      /\ UNCHANGED <<rx_ring, requests, pc, rx_bufs, stats, printed>>
  BY DEF MapInv, Inv, Transmit, workerVars
<1>2. /\ ring # <<>>
      /\ tx_ring' = [tx_ring EXCEPT ![q] = rest]
      /\ wire' = [wire EXCEPT ![q] = Append(@, p)]
      /\ pkt' = [n \in Mbufs |-> IF n \in Range(<<m>>) THEN NoPacket ELSE pkt[n]]
  BY Zenon DEF Transmit, FreeAll
<1>3. /\ ring \in Seq(Mbufs) /\ rx_bufs[q] \in Seq(Mbufs)
      /\ rx_ring[q] \in Seq(Mbufs) /\ wire[q] \in Seq(Packet)
      /\ IsInjective(Held[q])
      /\ Held[q] = ring \o rx_bufs[q] \o rx_ring[q]
  BY <1>1, HeldByParts, WorkerParts
<1>4. /\ m \in Mbufs /\ rest \in Seq(Mbufs) /\ Range(<<m>>) = {m}
  BY <1>2, <1>3, HeadAndTail
<1>5. /\ m \in Range(Held[q])
      /\ m \notin Range(rest) /\ m \notin Range(rx_bufs[q])
      /\ m \notin Range(rx_ring[q])
      /\ Range(rest) \subseteq Mbufs /\ Range(rx_bufs[q]) \subseteq Mbufs
      /\ Range(rx_ring[q]) \subseteq Mbufs
  <2>1. /\ Range(ring \o rx_bufs[q] \o rx_ring[q])
             = Range(rest \o rx_bufs[q] \o rx_ring[q]) \union {m}
        /\ m \notin Range(rest \o rx_bufs[q] \o rx_ring[q])
    BY <1>2, <1>3, LeaveLeft
  <2>2. Range(rest \o rx_bufs[q] \o rx_ring[q])
          = Range(rest) \union Range(rx_bufs[q]) \union Range(rx_ring[q])
    <3>1. /\ rest \in Seq(Mbufs) /\ rx_bufs[q] \in Seq(Mbufs)
          /\ rx_ring[q] \in Seq(Mbufs)
      BY <1>3, <1>4
    <3> HIDE DEF rest
    <3> QED
      BY <3>1, ThreeParts
  <2>3. Range(rest) \subseteq Mbufs
    BY <1>4, RangeOfSeq
  <2> QED
    BY <1>1, <1>3, <2>1, <2>2, <2>3, HeldByParts
<1>6. p \in Packet /\ HeaderOf(p) = HeaderOf(pkt[m])
  <2>1. pkt[m] \in Packet
    BY <1>1, <1>4, <1>5, HeldByParts DEF HeldCarry
  <2> QED
    BY <2>1 DEF OnWire, Packet, CksumState, HeaderOf
<1> HIDE DEF ring, m, rest, p
<1>7. /\ tx_ring'[q] = rest /\ wire'[q] = Append(wire[q], p)
      /\ \A r \in Queues \ {q} : tx_ring'[r] = tx_ring[r] /\ wire'[r] = wire[r]
      /\ \A n \in Mbufs \ {m} : pkt'[n] = pkt[n]
  BY <1>1, <1>2, <1>4 DEF TypeOK, PortTypeOK
<1>8. ASSUME NEW r \in Queues \ {q}
      PROVE  Pending(r)' = Pending(r) /\ Replied(r)' = Replied(r)
  BY <1>1, <1>5, <1>7, OthersLookTheSame
<1>9. \A n \in Mbufs \ {m} : Seen'[n] = Seen[n] /\ Asked(q)'[n] = Asked(q)[n]
  BY <1>1, <1>7 DEF Seen, Asked, Swapped
<1>10. Pending(q)' = Pending(q)
  <2>1. Image(Seen', rx_ring[q]) = Image(Seen, rx_ring[q])
    BY <1>3, <1>5, <1>9, ImageDepends
  <2>2. Image(Asked(q)', rx_bufs[q]) = Image(Asked(q), rx_bufs[q])
    BY <1>3, <1>5, <1>9, ImageDepends
  <2> QED
    BY <1>1, <2>1, <2>2, MapByViews, MapByViewsNext
<1>11. Replied(q)' = Replied(q)
  <2> DEFINE sent == Image(SeenOnWire, wire[q])
             left == Image(Seen, rest)
             h == HeaderOf(p)
  <2>1. Image(SeenOnWire, Append(wire[q], p)) = sent \o <<h>>
    <3>1. SeenOnWire[p] = h
      BY <1>6 DEF SeenOnWire
    <3>2. Image(SeenOnWire, Append(wire[q], p))
            = Image(SeenOnWire, wire[q]) \o <<SeenOnWire[p]>>
      BY <1>3, <1>6, ImageAppend
    <3> QED
      BY <3>1, <3>2
  <2>2. Image(Seen', rest) = left
    BY <1>4, <1>5, <1>9, ImageDepends
  <2>3. Image(Seen, ring) = <<h>> \o left
    <3>1. Seen[m] = h
      BY <1>4, <1>6 DEF Seen
    <3>2. Image(Seen, ring) = <<Seen[Head(ring)]>> \o Image(Seen, Tail(ring))
      BY <1>2, <1>3, ImageHead
    <3> QED
      BY <3>1, <3>2 DEF m, rest
  <2>4. Replied(q)' = (sent \o <<h>>) \o left
    BY <1>1, <1>7, <2>1, <2>2, MapByViewsNext
  <2>5. Replied(q) = sent \o (<<h>> \o left)
    BY <1>1, <2>3, MapByViews DEF ring
  <2>6. sent \in Seq(Shown) /\ left \in Seq(Shown) /\ h \in Shown
    <3>1. sent \in Seq(Shown)
      BY <1>1, <1>3, Views, ImageInto
    <3>2. left \in Seq(Shown)
      BY <1>1, <1>4, Views, ImageInto
    <3>3. h \in Shown
      BY <1>6 DEF Shown, Content
    <3> QED
      BY <3>1, <3>2, <3>3
  <2> HIDE DEF sent, left, h
  <2>7. (sent \o <<h>>) \o left = sent \o (<<h>> \o left)
    <3>1. <<h>> \in Seq(Shown)
      BY <2>6
    <3> QED
      BY <2>6, <3>1, ConcatAssociative, SMTT(30)
  <2> QED
    BY <2>4, <2>5, <2>7, Zenon
<1>12. \A r \in Queues : Counted(r)'.tx_drops = Counted(r).tx_drops
  BY <1>1 DEF Counted
<1> QED
  BY <1>1, <1>8, <1>10, <1>11, <1>12, Stutters

\* A batch that is handed to the NIC is answered up to the packet that found no
\* descriptor, and dropped from there on.
LEMMA MapTxBurst ==
  ASSUME MapInv, Inv', NEW q \in Queues, TxBurst(q)
  PROVE  Service!Answer(q)
<1> DEFINE bufs == rx_bufs[q]
           n == Len(bufs)
<1>1. /\ TypeOK /\ TypeOK' /\ MbufOwnership /\ HeldCarry /\ bufs # <<>>
      /\ UNCHANGED printed /\ Swapped(q) /\ ~Swapped(q)'
      /\ pc[q] = "tx" /\ pc' = [pc EXCEPT ![q] = "loop_end"]
      /\ rx_bufs' = [rx_bufs EXCEPT ![q] = <<>>]
  BY DEF MapInv, Inv, TxBurst, Goto, BatchHasPackets, Swapped, TypeOK
<1>2. PICK k \in TxBursts(q, bufs) : SendOrFree(q, bufs, k) /\ CountTx(q, n, k)
  BY DEF TxBurst
<1> DEFINE front == SubSeq(bufs, 1, k)
           back == SubSeq(bufs, k + 1, Len(bufs))
<1>3. /\ tx_ring' = [tx_ring EXCEPT ![q] = @ \o front]
      /\ pkt' = [m \in Mbufs |-> IF m \in Range(back) THEN NoPacket ELSE pkt[m]]
      /\ UNCHANGED <<rx_ring, requests, wire>>
      /\ stats' = [stats EXCEPT ![q].tx_packets = @ + k,
                                ![q].tx_drops = @ + (n - k)]
  BY <1>2 DEF SendOrFree, FreeAll, CountTx
<1>4. /\ bufs \in Seq(Mbufs) /\ tx_ring[q] \in Seq(Mbufs)
      /\ rx_ring[q] \in Seq(Mbufs) /\ wire[q] \in Seq(Packet)
      /\ Len(bufs) \in Nat
  BY <1>1, WorkerParts
<1>5. k \in 0..n /\ n \in Nat /\ n >= 1
  BY <1>1, <1>2, <1>4, EmptySeq DEF TxBursts
<1>6. /\ front \in Seq(Mbufs) /\ Len(front) = k /\ back \in Seq(Mbufs)
      /\ front \o back = bufs
      /\ \A i \in 1..k : front[i] = bufs[i]
  <2>1. /\ front \in Seq(Mbufs) /\ Len(front) = k /\ back \in Seq(Mbufs)
        /\ front \o back = bufs
    BY <1>4, <1>5, CutInTwo
  <2>2. \A i \in 1..k : front[i] = bufs[i]
    BY <1>4, <1>5
  <2> QED
    BY <2>1, <2>2
<1>7. /\ Range(bufs) = Range(front) \union Range(back)
      /\ Range(front) \intersect Range(back) = {}
      /\ Range(back) \subseteq Range(Held[q])
      /\ Range(tx_ring[q]) \intersect Range(back) = {}
      /\ Range(rx_ring[q]) \intersect Range(back) = {}
      /\ Range(front) \subseteq Mbufs /\ Range(tx_ring[q]) \subseteq Mbufs
      /\ Range(rx_ring[q]) \subseteq Mbufs
  <2>1. Range(bufs) = Range(front) \union Range(back)
    <3> HIDE DEF front, back, bufs
    <3>1. front \in Seq(Mbufs) /\ back \in Seq(Mbufs) /\ bufs = front \o back
      BY <1>6
    <3> QED
      BY <3>1, RangeConcatenation
  <2>2. Range(front) \intersect Range(back) = {}
    <3>1. IsInjective(bufs)
      BY <1>1, HeldByParts
    <3> HIDE DEF front, back, bufs
    <3>2. front \in Seq(Mbufs) /\ back \in Seq(Mbufs) /\ IsInjective(front \o back)
      BY <1>6, <3>1
    <3> QED
      BY <3>2, ConcatInjective
  <2>3. /\ Range(bufs) \subseteq Range(Held[q]) /\ Range(Held[q]) \subseteq Mbufs
        /\ Range(tx_ring[q]) \subseteq Mbufs /\ Range(rx_ring[q]) \subseteq Mbufs
        /\ Range(tx_ring[q]) \intersect Range(bufs) = {}
        /\ Range(rx_ring[q]) \intersect Range(bufs) = {}
    BY <1>1, HeldByParts
  <2> QED
    BY <2>1, <2>2, <2>3
<1> HIDE DEF front, back
<1>8. /\ tx_ring'[q] = tx_ring[q] \o front /\ rx_bufs'[q] = <<>>
      /\ \A r \in Queues \ {q} : /\ tx_ring'[r] = tx_ring[r]
                                /\ rx_bufs'[r] = rx_bufs[r] /\ pc'[r] = pc[r]
      /\ \A m \in Mbufs \ Range(back) : pkt'[m] = pkt[m]
  BY <1>1, <1>3 DEF TypeOK, PortTypeOK, WorkerTypeOK
<1>9. ASSUME NEW r \in Queues \ {q}
      PROVE  Pending(r)' = Pending(r) /\ Replied(r)' = Replied(r)
  <2>1. \A m \in Mbufs \ (pool \union Range(Held[q])) : pkt'[m] = pkt[m]
    BY <1>7, <1>8
  <2> QED
    BY <1>1, <1>3, <1>8, <2>1, OthersLookTheSame
<1>10. \A m \in Mbufs \ Range(back) : Seen'[m] = Seen[m]
  BY <1>8 DEF Seen
<1> DEFINE batch == Image(Asked(q), bufs)
           ring == Image(Seen, rx_ring[q])
           gone == Image(Seen, front)
<1>11. /\ batch \in Seq(Shown) /\ ring \in Seq(Shown) /\ gone \in Seq(Shown)
       /\ Len(batch) = n
  <2>1. batch \in Seq(Shown)
    BY <1>1, <1>4, Views, ImageInto
  <2>2. ring \in Seq(Shown)
    BY <1>1, <1>4, Views, ImageInto
  <2>3. gone \in Seq(Shown)
    BY <1>1, <1>6, Views, ImageInto
  <2>4. Len(batch) = n
    BY <1>4, ImageSeq, ZenonT(30)
  <2> QED
    BY <2>1, <2>2, <2>3, <2>4
<1>12. Pending(q) = batch \o ring
  BY <1>1, MapByViews
<1>13. Pending(q)' = SubSeq(Pending(q), n + 1, Len(Pending(q)))
  <2>1. Image(Seen', rx_ring[q]) = ring
    BY <1>4, <1>7, <1>10, ImageDepends
  <2>2. Pending(q)' = <<>> \o ring
    <3>1. Pending(q)' = Image(Asked(q)', rx_bufs'[q]) \o Image(Seen', rx_ring'[q])
      BY <1>1, MapByViewsNext
    <3>2. Image(Asked(q)', <<>>) = <<>>
      BY ImageEmpty
    <3> HIDE DEF ring
    <3> QED
      BY <1>3, <1>8, <2>1, <3>1, <3>2, Zenon
  <2> HIDE DEF batch, ring, n
  <2>3. <<>> \o ring = ring
    BY <1>11, ConcatEmptySeq
  <2>4. SubSeq(batch \o ring, Len(batch) + 1, Len(batch \o ring)) = ring
    BY <1>11, CutLeft
  <2>5. SubSeq(batch \o ring, n + 1, Len(batch \o ring)) = ring
    BY <1>11, <2>4, Zenon
  <2> QED
    BY <1>12, <2>2, <2>3, <2>5, Zenon
<1>14. gone = [i \in 1..k |-> Service!Echo(Pending(q)[i])]
  <2>1. ASSUME NEW i \in 1..k PROVE Seen[front[i]] = Service!Echo(Pending(q)[i])
    <3> DEFINE m == bufs[i]
    <3>1. i \in 1..n /\ i \in 1..Len(bufs) /\ m \in Mbufs /\ front[i] = m
      BY <1>4, <1>5, <1>6, ElementOfSeq
    <3>2. Pending(q)[i] = batch[i]
      <4>1. i \in 1..Len(batch) + Len(ring) /\ i <= Len(batch)
        <5>1. Len(ring) \in Nat /\ Len(batch) = n
          BY <1>11, LenProperties
        <5> HIDE DEF ring, batch, n
        <5> QED
          BY <1>5, <3>1, <5>1
      <4> HIDE DEF batch, ring
      <4>2. (batch \o ring)[i] = batch[i]
        BY <1>11, <4>1, ConcatProperties
      <4> QED
        BY <1>12, <4>2
    <3>3. batch[i] = Asked(q)[m]
      BY <3>1 DEF Image
    <3>4. Asked(q)[m] = Service!Echo(HeaderOf(pkt[m])) /\ Seen[m] = HeaderOf(pkt[m])
      BY <1>1, <3>1 DEF Asked, Seen
    <3>5. Service!Echo(Service!Echo(HeaderOf(pkt[m]))) = HeaderOf(pkt[m])
      BY DEF Service!Echo, HeaderOf
    <3> HIDE DEF batch, m
    <3> QED
      BY <3>1, <3>2, <3>3, <3>4, <3>5
  <2> QED
    BY <1>6, <2>1 DEF Image
<1>15. Replied(q)' = Replied(q) \o gone
  <2> DEFINE sent == Image(SeenOnWire, wire[q])
             waiting == Image(Seen, tx_ring[q])
  <2>1. Image(Seen', tx_ring[q]) = waiting
    BY <1>4, <1>7, <1>10, ImageDepends
  <2>2. Image(Seen', front) = gone
    BY <1>6, <1>7, <1>10, ImageDepends
  <2>3. Image(Seen', tx_ring[q] \o front)
          = Image(Seen', tx_ring[q]) \o Image(Seen', front)
    <3>1. tx_ring[q] \in Seq(Mbufs) /\ front \in Seq(Mbufs)
      BY <1>4, <1>6
    <3> QED
      BY <3>1, ImageConcat
  <2>4. Replied(q)' = sent \o (waiting \o gone)
    BY <1>1, <1>3, <1>8, <2>1, <2>2, <2>3, MapByViewsNext
  <2>5. Replied(q) = sent \o waiting
    BY <1>1, MapByViews
  <2>6. sent \in Seq(Shown) /\ waiting \in Seq(Shown)
    <3>1. sent \in Seq(Shown)
      BY <1>1, <1>4, Views, ImageInto
    <3>2. waiting \in Seq(Shown)
      BY <1>1, <1>4, Views, ImageInto
    <3> QED
      BY <3>1, <3>2
  <2> HIDE DEF sent, waiting, gone
  <2>7. (sent \o waiting) \o gone = sent \o (waiting \o gone)
    BY <1>11, <2>6, ConcatAssociative, SMTT(30)
  <2> QED
    BY <2>4, <2>5, <2>7, Zenon
<1>16. n \in 1..Len(Pending(q))
  <2>1. Len(ring) \in Nat /\ Len(batch) = n
    BY <1>11, LenProperties
  <2> HIDE DEF batch, ring, n
  <2>2. Len(Pending(q)) = n + Len(ring)
    BY <1>11, <1>12, ConcatProperties
  <2> QED
    BY <1>5, <2>1, <2>2
<1>17. /\ \A r \in Queues \ {q} : Counted(r)'.tx_drops = Counted(r).tx_drops
       /\ Counted(q)'.tx_drops = Counted(q).tx_drops + (n - k)
  <2>1. ASSUME NEW r \in Queues \ {q} PROVE stats'[r] = stats[r]
    BY <1>1, <1>3, WorkerParts
  <2>2. stats'[q].tx_drops = stats[q].tx_drops + (n - k)
    <3>1. stats[q] \in Counters /\ stats \in [Queues -> Counters]
      BY <1>1, WorkerParts
    <3>2. stats'[q] = [stats[q] EXCEPT !.tx_packets = @ + k, !.tx_drops = @ + (n - k)]
      BY <1>3, <3>1
    <3> DEFINE d == n - k
    <3>3. k \in Nat /\ d \in Nat
      BY <1>5
    <3>4. stats'[q] = [stats[q] EXCEPT !.tx_packets = @ + k, !.tx_drops = @ + d]
      BY <3>2
    <3> HIDE DEF d
    <3>5. [stats[q] EXCEPT !.tx_packets = @ + k, !.tx_drops = @ + d].tx_drops
            = stats[q].tx_drops + d
      BY <3>1, <3>3, TxCountersGrow, Zenon
    <3> QED
      BY <3>4, <3>5 DEF d
  <2>3. printed[q].tx_drops \in Nat /\ stats[q].tx_drops \in Nat /\ n - k \in Nat
    <3>1. printed[q] \in Counters /\ stats[q] \in Counters
      BY <1>1, WorkerParts
    <3>2. printed[q].tx_drops \in Nat /\ stats[q].tx_drops \in Nat
      BY <3>1 DEF Counters
    <3>3. n - k \in Nat
      <4> HIDE DEF n
      <4> QED
        BY <1>5
    <3> QED
      BY <3>2, <3>3
  <2>4. Counted(q)'.tx_drops = printed[q].tx_drops + (stats[q].tx_drops + (n - k))
    BY <1>1, <2>2, CountedDropsNext
  <2>5. Counted(q).tx_drops = printed[q].tx_drops + stats[q].tx_drops
    BY <1>1, CountedDrops
  <2>6. \A a, b, c \in Nat : a + (b + c) = (a + b) + c
    OBVIOUS
  <2>7. Counted(q)'.tx_drops = Counted(q).tx_drops + (n - k)
    <3> HIDE DEF n
    <3> QED
      BY <2>3, <2>4, <2>5, <2>6
  <2> QED
    BY <1>1, <2>1, <2>7, CountedDrops, CountedDropsNext
<1> HIDE DEF n, gone
<1>18. [r \in Queues |-> Pending(r)]' =
         [[r \in Queues |-> Pending(r)] EXCEPT ![q] = SubSeq(@, n + 1, Len(@))]
  BY <1>9, <1>13
<1>19. [r \in Queues |-> Replied(r)]' =
         [[r \in Queues |-> Replied(r)] EXCEPT
            ![q] = @ \o [i \in 1..k |->
                          Service!Echo([r \in Queues |-> Pending(r)][q][i])]]
  <2>1. [r \in Queues |-> Replied(r)]' =
          [[r \in Queues |-> Replied(r)] EXCEPT ![q] = Replied(q) \o gone]
    BY <1>9, <1>15
  <2>2. [r \in Queues |-> Pending(r)][q] = Pending(q)
    OBVIOUS
  <2>3. [r \in Queues |-> Replied(r)][q] = Replied(q)
    OBVIOUS
  <2> QED
    BY <1>14, <2>1, <2>2, <2>3, Zenon
<1>20. [r \in Queues |-> Counted(r).tx_drops]' =
         [[r \in Queues |-> Counted(r).tx_drops] EXCEPT ![q] = @ + (n - k)]
  BY <1>17
<1>21. n \in 1..Len([r \in Queues |-> Pending(r)][q])
  BY <1>16
<1> QED
  BY <1>3, <1>5, <1>18, <1>19, <1>20, <1>21, Zenon DEF Service!Answer

------------------------------------------------------------------------------
(* All together.                                                           *)

\* A batch is never empty, for a poll that returns nothing starts none.
LEMMA MapInvNext == MapInv /\ [Next]_vars => MapInv'
<1> SUFFICES ASSUME MapInv, [Next]_vars PROVE MapInv'
  OBVIOUS
<1>1. Inv' /\ TypeOK
  BY InvNext DEF MapInv, Inv
<1>2. ASSUME NEW q \in Queues, RxBurst(q) PROVE BatchHasPackets'
  <2>1. PICK nb_rx \in RxBursts(q, BURST_SIZE) :
          rx_bufs' = [rx_bufs EXCEPT ![q] = SubSeq(rx_ring[q], 1, nb_rx)]
    BY <1>2, Zenon DEF RxBurst
  <2>2. rx_ring[q] \in Seq(Mbufs) /\ Len(rx_ring[q]) \in Nat
    BY <1>1, WorkerParts
  <2>3. nb_rx \in 1..Len(rx_ring[q]) /\ nb_rx \in 0..Len(rx_ring[q])
    BY <2>1, <2>2 DEF RxBursts
  <2>4. Len(SubSeq(rx_ring[q], 1, nb_rx)) = nb_rx
    BY <2>2, <2>3, CutInTwo
  <2>5. rx_bufs'[q] # <<>>
    <3>1. rx_bufs'[q] = SubSeq(rx_ring[q], 1, nb_rx)
      BY <1>1, <2>1 DEF TypeOK, WorkerTypeOK
    <3>2. Len(rx_bufs'[q]) = nb_rx /\ nb_rx # 0
      BY <2>3, <2>4, <3>1
    <3>3. Len(<<>>) = 0
      OBVIOUS
    <3> QED
      BY <3>2, <3>3, Zenon
  <2>6. \A r \in Queues \ {q} : rx_bufs'[r] = rx_bufs[r] /\ pc'[r] = pc[r]
    BY <1>1, <1>2, <2>1 DEF RxBurst, Goto, TypeOK, WorkerTypeOK
  <2> QED
    BY <2>5, <2>6 DEF MapInv, BatchHasPackets
<1>3. ASSUME NEW q \in Queues, Rewrite(q) PROVE BatchHasPackets'
  BY <1>1, <1>3 DEF Rewrite, Goto, MapInv, BatchHasPackets, TypeOK
<1>4. ASSUME NEW q \in Queues, Checksum(q) PROVE BatchHasPackets'
  BY <1>1, <1>4 DEF Checksum, Goto, MapInv, BatchHasPackets, TypeOK
<1>5. ASSUME NEW q \in Queues, TxBurst(q) PROVE BatchHasPackets'
  BY <1>1, <1>5 DEF TxBurst, Goto, MapInv, BatchHasPackets, TypeOK, WorkerTypeOK
<1>6. ASSUME NEW q \in Queues, LoopEnd(q) PROVE BatchHasPackets'
  BY <1>1, <1>6 DEF LoopEnd, Goto, MapInv, BatchHasPackets, TypeOK
<1>7. ASSUME UNCHANGED <<pc, rx_bufs>> PROVE BatchHasPackets'
  BY <1>7 DEF MapInv, BatchHasPackets
<1>8. BatchHasPackets'
  BY <1>2, <1>3, <1>4, <1>5, <1>6, <1>7
  DEF Next, Nic, Serve, EmptyPoll, vars, workerVars
<1> QED
  BY <1>1, <1>8 DEF MapInv

\* So the invariant of the map holds in every reachable state.
LEMMA MapInvariance == Spec => []MapInv
<1>1. Init => MapInv
  <2>1. Init => BatchHasPackets
    BY DEF Init, WorkerInit, BatchHasPackets
  <2> QED
    BY <2>1, InvInit DEF MapInv
<1>2. MapInv /\ [Next]_vars => MapInv'
  BY MapInvNext
<1> QED
  BY <1>1, <1>2, PTL DEF Spec

\* Nothing is pending and nothing answered at the start.
LEMMA MapInit == Init => Service!Init
<1> SUFFICES ASSUME Init PROVE Service!Init
  OBVIOUS
<1>1. TypeOK
  BY InvInit DEF Inv
<1>2. ASSUME NEW q \in Queues
      PROVE  Pending(q) = <<>> /\ Replied(q) = <<>> /\ Counted(q).tx_drops = 0
  <2>1. /\ rx_bufs[q] = <<>> /\ rx_ring[q] = <<>> /\ tx_ring[q] = <<>>
        /\ wire[q] = <<>> /\ stats[q] = ZeroCounters /\ printed[q] = ZeroCounters
    BY DEF Init, PortInit, WorkerInit
  <2>2. Pending(q) = <<>> \o <<>> /\ Replied(q) = <<>> \o <<>>
    BY <1>1, <2>1, MapByViews, ImageEmpty
  <2>3. <<>> \o <<>> = <<>>
    OBVIOUS
  <2>4. Counted(q).tx_drops = 0
    BY <1>1, <2>1, CountedDrops DEF ZeroCounters
  <2> QED
    BY <2>2, <2>3, <2>4
<1>3. requests = <<>>
  BY DEF Init, PortInit
<1> QED
  BY <1>2, <1>3 DEF Service!Init

\* Every step of the server is a step of the service or none.
LEMMA MapNext ==
  MapInv /\ MapInv' /\ [Next]_vars => [Service!Next]_Service!serviceVars
<1> SUFFICES ASSUME MapInv, MapInv', [Next]_vars
             PROVE  [Service!Next]_Service!serviceVars
  OBVIOUS
<1>0. Inv'
  BY DEF MapInv
<1>1. ASSUME NEW h \in Traffic, Deliver(h), UNCHANGED workerVars
      PROVE  Service!Next
  BY <1>0, <1>1, MapDeliver DEF Service!Next
<1>2. ASSUME NEW q \in Queues, Transmit(q), UNCHANGED workerVars
      PROVE  UNCHANGED Service!serviceVars
  BY <1>0, <1>2, MapTransmit
<1>3. ASSUME NEW q \in Queues, EmptyPoll(q) PROVE UNCHANGED Service!serviceVars
  BY <1>0, <1>3, MapEmptyPoll
<1>4. ASSUME NEW q \in Queues, RxBurst(q) PROVE UNCHANGED Service!serviceVars
  BY <1>0, <1>4, MapRxBurst
<1>5. ASSUME NEW q \in Queues, Rewrite(q) PROVE UNCHANGED Service!serviceVars
  BY <1>0, <1>5, MapRewrite
<1>6. ASSUME NEW q \in Queues, Checksum(q) PROVE UNCHANGED Service!serviceVars
  BY <1>0, <1>6, MapChecksum
<1>7. ASSUME NEW q \in Queues, TxBurst(q) PROVE Service!Next
  BY <1>0, <1>7, MapTxBurst DEF Service!Next
<1>8. ASSUME NEW q \in Queues, LoopEnd(q) PROVE UNCHANGED Service!serviceVars
  BY <1>0, <1>8, MapLoopEnd
<1>9. CASE UNCHANGED vars
  <2>1. requests' = requests
    BY <1>9 DEF vars, portVars
  <2>2. ASSUME NEW q \in Queues
        PROVE  /\ Pending(q)' = Pending(q) /\ Replied(q)' = Replied(q)
               /\ Counted(q)' = Counted(q)
    BY <1>9 DEF vars, portVars, workerVars, Pending, Replied, Counted, Headers,
                AsRequest, Swapped
  <2> QED
    BY <2>1, <2>2, Stutters
<1> QED
  BY <1>1, <1>2, <1>3, <1>4, <1>5, <1>6, <1>7, <1>8, <1>9 DEF Next, Nic, Serve

\* The unbuffered servers answer as EchoService says: every answer is the echo of
\* a packet of its queue, given once and in order, and what is not answered was
\* counted as dropped in the group it would have left with.
THEOREM ImplementsService == Spec => Service!Spec
<1>1. Init => Service!Init
  BY MapInit
<1>2. MapInv /\ MapInv' /\ [Next]_vars => [Service!Next]_Service!serviceVars
  BY MapNext
<1> QED
  BY <1>1, <1>2, MapInvariance, PTL DEF Spec, Service!Spec

------------------------------------------------------------------------------
(* What is proved of the service holds of the server.                      *)

Promise == INSTANCE EchoServiceProofs WITH
  accepted <- requests,
  pending <- [q \in Queues |-> Pending(q)],
  replied <- [q \in Queues |-> Replied(q)],
  dropped <- [q \in Queues |-> Counted(q).tx_drops]

\* The port's RSS mapping is one the service allows.
LEMMA KeepsThePromise == Spec => Promise!Spec
<1>1. Service!Init => Promise!Init
  BY DEF Service!Init, Promise!Init
<1>2. [Service!Next]_Service!serviceVars => [Promise!Next]_Promise!serviceVars
  BY DEF Service!Next, Promise!Next, Service!serviceVars, Promise!serviceVars,
         Service!Accept, Promise!Accept, Service!Answer, Promise!Answer,
         Service!Request, Promise!Request, Service!Echo, Promise!Echo
<1>3. Service!Spec => Promise!Spec
  BY <1>1, <1>2, PTL DEF Service!Spec, Promise!Spec
<1> QED
  BY <1>3, ImplementsService, PTL

\* The answers of echo_server.c leave each queue in the order in which their
\* requests came in, each once, on the queue of its request, with the endpoints
\* exchanged.
THEOREM ServerAnswersInOrder == Spec => []Promise!InOrder
<1>1. Promise!ServiceAssumption
  BY PortAssumption DEF Promise!ServiceAssumption
<1>2. Promise!Spec => []Promise!InOrder
  BY <1>1, Promise!AnswersInOrder
<1> QED
  BY <1>2, KeepsThePromise, PTL

\* No packet that entered a queue of echo_server.c is lost without being counted:
\* it was answered, is counted in tx_drops, or is still in the server.
THEOREM ServerLosesNothing == Spec => []Promise!Conserved
<1>1. Promise!ServiceAssumption
  BY PortAssumption DEF Promise!ServiceAssumption
<1>2. Promise!Spec => []Promise!Conserved
  BY <1>1, Promise!NothingDisappears
<1> QED
  BY <1>2, KeepsThePromise, PTL
==============================================================================
