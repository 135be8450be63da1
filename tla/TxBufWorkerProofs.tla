-------------------------- MODULE TxBufWorkerProofs --------------------------
(***************************************************************************)
(* What TxBufWorker satisfies for every number of queues, mbufs and        *)
(* packets and every ring, burst and buffer size: its types, that no mbuf  *)
(* is ever leaked or doubled on the way through the buffer, that the       *)
(* counters account for every packet, how far the [profile] lines may lag  *)
(* behind, that the checksums of what is sent are as the mode promises,    *)
(* and that the server, parking or not, is an EchoService.                 *)
(*                                                                         *)
(* Beside what EchoWorkerProofs needs, the proofs need to know where the   *)
(* buffer stands: it is never left full, and its callback has counted at   *)
(* least what it had counted when the TX stage began.                      *)
(***************************************************************************)
EXTENDS TxBufWorker, OwnershipLemmas, DataLemmas

\* Whoever holds an mbuf finds a packet in it.
HeldCarry == \A m \in Mbufs \ pool : pkt[m] \in Packet

\* There is a batch in rx_bufs only from the poll to the end of the TX stage.
NoBatch ==
  \A q \in Queues :
    pc[q] \in {"poll", "flush", "report", "loop_end"} => rx_bufs[q] = <<>>

\* The packet that fills the buffer empties it, and its counter only grows.
BufferInv ==
  \A q \in Queues :
    /\ Len(tx_buffer[q]) < TX_BUFFER_SIZE
    /\ pc[q] = "tx" => drops_before[q] <= tx_buffer_drops[q]

Inv == TypeOK /\ MbufOwnership /\ HeldCarry /\ NoBatch /\ BufferInv

\* What a worker holds, typed part by part.
LEMMA PartsTyped ==
  ASSUME TypeOK, NEW q \in Queues
  PROVE  /\ tx_ring[q] \in Seq(Mbufs) /\ tx_buffer[q] \in Seq(Mbufs)
         /\ rx_bufs[q] \in Seq(Mbufs) /\ rx_ring[q] \in Seq(Mbufs)
         /\ tx_ring[q] \o tx_buffer[q] \in Seq(Mbufs)
         /\ rx_bufs[q] \o rx_ring[q] \in Seq(Mbufs)
<1>1. /\ tx_ring[q] \in Seq(Mbufs) /\ tx_buffer[q] \in Seq(Mbufs)
      /\ rx_bufs[q] \in Seq(Mbufs) /\ rx_ring[q] \in Seq(Mbufs)
  BY DEF TypeOK, PortTypeOK, WorkerTypeOK
<1>2. /\ tx_ring[q] \o tx_buffer[q] \in Seq(Mbufs)
      /\ rx_bufs[q] \o rx_ring[q] \in Seq(Mbufs)
  BY <1>1, ConcatProperties
<1> QED
  BY <1>1, <1>2

\* The four parts of what a worker holds, as three in two ways: the right ends
\* of the last two change at a poll, the left ones when packets are sent.
HeldInThree ==
  \A q \in Queues :
    /\ Held[q] = (tx_ring[q] \o tx_buffer[q]) \o rx_bufs[q] \o rx_ring[q]
    /\ Held[q] = tx_ring[q] \o tx_buffer[q] \o (rx_bufs[q] \o rx_ring[q])

\* The four places of a queue's mbufs, taken as three.
LEMMA Regroup == TypeOK => HeldInThree
<1> SUFFICES ASSUME TypeOK, NEW q \in Queues
             PROVE  /\ Held[q] = (tx_ring[q] \o tx_buffer[q]) \o rx_bufs[q]
                                   \o rx_ring[q]
                    /\ Held[q] = tx_ring[q] \o tx_buffer[q]
                                   \o (rx_bufs[q] \o rx_ring[q])
  BY DEF HeldInThree
<1> DEFINE left == tx_ring[q] \o tx_buffer[q]
           bufs == rx_bufs[q]
           ring == rx_ring[q]
<1>1. left \in Seq(Mbufs) /\ bufs \in Seq(Mbufs) /\ ring \in Seq(Mbufs)
  BY PartsTyped
<1>2. Held[q] = left \o bufs \o ring
  BY DEF Held
<1> HIDE DEF left, bufs, ring
<1>3. left \o bufs \o ring = left \o (bufs \o ring)
  BY <1>1, ConcatAssociative, SMTT(30)
<1> QED
  BY <1>2, <1>3 DEF left, bufs, ring

\* Nothing that a worker holds is free, and it holds nothing twice.
LEMMA HeldNotFree ==
  ASSUME TypeOK, MbufOwnership, NEW q \in Queues
  PROVE  /\ IsInjective(Held[q])
         /\ Range(Held[q]) \subseteq Mbufs \ pool
         /\ Range(rx_bufs[q]) \subseteq Mbufs \ pool
<1>1. IsInjective(Held[q]) /\ Range(Held[q]) \intersect pool = {}
  BY DEF MbufOwnership, OwnedOnce
<1> DEFINE left == tx_ring[q] \o tx_buffer[q]
           bufs == rx_bufs[q]
           ring == rx_ring[q]
<1>2. left \in Seq(Mbufs) /\ bufs \in Seq(Mbufs) /\ ring \in Seq(Mbufs)
  BY PartsTyped
<1>3. Held[q] = left \o bufs \o ring
  BY Regroup DEF HeldInThree
<1> HIDE DEF left, bufs, ring
<1>4. Range(Held[q]) = Range(left) \union Range(bufs) \union Range(ring)
  BY <1>2, <1>3, ThreeParts
<1>5. /\ Range(left) \subseteq Mbufs /\ Range(bufs) \subseteq Mbufs
      /\ Range(ring) \subseteq Mbufs
  BY <1>2, RangeOfSeq
<1> QED
  BY <1>1, <1>4, <1>5 DEF bufs

\* Where the mbufs of a queue are.
LEMMA WhereHeld ==
  ASSUME TypeOK, NEW q \in Queues
  PROVE  /\ Range(Held[q]) = Range(tx_ring[q]) \union Range(tx_buffer[q])
                               \union Range(rx_bufs[q]) \union Range(rx_ring[q])
         /\ Range(Held[q]) \subseteq Mbufs
<1> DEFINE left == tx_ring[q] \o tx_buffer[q]
           bufs == rx_bufs[q]
           ring == rx_ring[q]
<1>1. left \in Seq(Mbufs) /\ bufs \in Seq(Mbufs) /\ ring \in Seq(Mbufs)
  BY PartsTyped
<1>2. Held[q] = left \o bufs \o ring
  BY DEF Held
<1>3. Range(left) = Range(tx_ring[q]) \union Range(tx_buffer[q])
  <2>1. tx_ring[q] \in Seq(Mbufs) /\ tx_buffer[q] \in Seq(Mbufs)
    BY PartsTyped
  <2> QED
    BY <2>1, RangeConcatenation
<1>4. /\ Range(left) \subseteq Mbufs /\ Range(bufs) \subseteq Mbufs
      /\ Range(ring) \subseteq Mbufs
  BY <1>1, RangeOfSeq
<1> HIDE DEF left, bufs, ring
<1>5. Range(Held[q]) = Range(left) \union Range(bufs) \union Range(ring)
  BY <1>1, <1>2, ThreeParts
<1> QED
  BY <1>3, <1>4, <1>5 DEF bufs, ring

\* No mbuf of a queue is in two of its four places.
LEMMA OwnApart ==
  ASSUME TypeOK, MbufOwnership, NEW q \in Queues
  PROVE  /\ Range(tx_ring[q]) \intersect Range(tx_buffer[q]) = {}
         /\ Range(tx_ring[q]) \intersect Range(rx_bufs[q]) = {}
         /\ Range(tx_ring[q]) \intersect Range(rx_ring[q]) = {}
         /\ Range(tx_buffer[q]) \intersect Range(rx_bufs[q]) = {}
         /\ Range(tx_buffer[q]) \intersect Range(rx_ring[q]) = {}
         /\ Range(rx_bufs[q]) \intersect Range(rx_ring[q]) = {}
         /\ Range(tx_ring[q]) \subseteq Mbufs \ pool
         /\ Range(tx_buffer[q]) \subseteq Mbufs \ pool
         /\ Range(rx_bufs[q]) \subseteq Mbufs \ pool
         /\ Range(rx_ring[q]) \subseteq Mbufs \ pool
         /\ IsInjective(tx_ring[q]) /\ IsInjective(tx_buffer[q])
         /\ IsInjective(rx_bufs[q])
<1> DEFINE out == tx_ring[q]
           buf == tx_buffer[q]
           left == out \o buf
           bufs == rx_bufs[q]
           ring == rx_ring[q]
<1>1. left \in Seq(Mbufs) /\ bufs \in Seq(Mbufs) /\ ring \in Seq(Mbufs)
  BY PartsTyped
<1>2. out \in Seq(Mbufs) /\ buf \in Seq(Mbufs)
  BY PartsTyped
<1>3. Held[q] = left \o bufs \o ring /\ IsInjective(Held[q])
  BY Regroup, HeldNotFree DEF HeldInThree
<1>4. Range(Held[q]) \subseteq Mbufs \ pool
  BY HeldNotFree
<1>5. /\ Range(Held[q]) = Range(out) \union Range(buf) \union Range(bufs)
                           \union Range(ring)
      /\ Range(left) = Range(out) \union Range(buf)
  <2>1. Range(left) = Range(out) \union Range(buf)
    BY <1>2, RangeConcatenation
  <2> QED
    BY <2>1, WhereHeld
<1>6. /\ IsInjective(left) /\ IsInjective(bufs)
      /\ Range(left) \intersect Range(bufs) = {}
      /\ Range(left) \intersect Range(ring) = {}
      /\ Range(bufs) \intersect Range(ring) = {}
  <2> HIDE DEF left, bufs, ring
  <2>1. IsInjective(left \o bufs \o ring)
    BY <1>3
  <2> QED
    BY <1>1, <2>1, ThreeParts
<1>7. IsInjective(out) /\ IsInjective(buf) /\ Range(out) \intersect Range(buf) = {}
  <2> HIDE DEF out, buf
  <2>1. IsInjective(out \o buf)
    BY <1>6
  <2> QED
    BY <1>2, <2>1, ConcatInjective
<1> HIDE DEF out, buf, left, bufs, ring
<1>8. /\ Range(out) \intersect Range(buf) = {}
      /\ Range(out) \intersect Range(bufs) = {}
      /\ Range(out) \intersect Range(ring) = {}
      /\ Range(buf) \intersect Range(bufs) = {}
      /\ Range(buf) \intersect Range(ring) = {}
      /\ Range(bufs) \intersect Range(ring) = {}
  BY <1>5, <1>6, <1>7
<1>9. /\ Range(out) \subseteq Mbufs \ pool /\ Range(buf) \subseteq Mbufs \ pool
      /\ Range(bufs) \subseteq Mbufs \ pool /\ Range(ring) \subseteq Mbufs \ pool
  BY <1>4, <1>5
<1> QED
  BY <1>6, <1>7, <1>8, <1>9 DEF out, buf, bufs, ring

\* At the start all mbufs are in the pool.
LEMMA InvInit == Init => Inv
<1> SUFFICES ASSUME Init PROVE Inv
  OBVIOUS
<1>1. /\ <<>> \in Seq(Mbufs) /\ <<>> \in Seq(Traffic) /\ <<>> \in Seq(Packet)
      /\ Range(<<>>) = {} /\ IsInjective(<<>>)
      /\ <<>> \o <<>> \o <<>> \o <<>> = <<>>
  BY DEF Range, IsInjective
<1>2. TypeOK
  BY <1>1 DEF Init, PortInit, WorkerInit, TypeOK, PortTypeOK, WorkerTypeOK,
              ZeroCounters, Counters
<1>3. \A q \in Queues : Held[q] = <<>>
  BY <1>1 DEF Init, PortInit, WorkerInit, Held
<1>4. MbufOwnership
  BY <1>1, <1>3 DEF MbufOwnership, OwnedOnce, Init, PortInit
<1>5. HeldCarry /\ NoBatch
  BY DEF Init, PortInit, WorkerInit, HeldCarry, NoBatch
<1>6. BufferInv
  BY TxBufferAssumption DEF Init, WorkerInit, BufferInv
<1> QED
  BY <1>2, <1>4, <1>5, <1>6 DEF Inv

------------------------------------------------------------------------------
(* The NIC.                                                                *)

\* A packet that arrives takes an mbuf from the pool to the right end of what
\* the worker of its queue holds.
LEMMA InvDeliver ==
  ASSUME Inv, NEW h \in Traffic, Deliver(h), UNCHANGED <<workerVars, bufferVars>>
  PROVE  Inv'
<1> DEFINE q == Rss[h]
           p == [id |-> Len(requests) + 1, src |-> h.src, dst |-> h.dst,
                 cksum |-> "good"]
<1>1. PICK m \in pool :
        /\ pool' = pool \ {m}
        /\ rx_ring' = [rx_ring EXCEPT ![q] = Append(@, m)]
        /\ pkt' = [pkt EXCEPT ![m] = p]
  BY Zenon DEF Deliver
<1>2. /\ requests' = Append(requests, h) /\ Len(requests) < MaxRequests
      /\ UNCHANGED <<tx_ring, wire>> /\ UNCHANGED <<workerVars, bufferVars>>
  BY DEF Deliver
<1>3. TypeOK /\ MbufOwnership /\ HeldCarry /\ NoBatch /\ BufferInv
  BY DEF Inv
<1>4. q \in Queues /\ m \in Mbufs /\ h \in Header
  BY <1>3, PortAssumption DEF TypeOK, PortTypeOK
<1>5. p \in Packet
  <2>1. Len(requests) \in Nat
    BY <1>3, LenProperties DEF TypeOK, PortTypeOK
  <2> QED
    BY <1>2, <1>4, <2>1, PortAssumption DEF Packet, Header, CksumState
<1> HIDE DEF q, p
<1>6. /\ rx_ring'[q] = Append(rx_ring[q], m)
      /\ \A r \in Queues \ {q} : rx_ring'[r] = rx_ring[r]
      /\ rx_ring' \in [Queues -> Seq(Mbufs)]
  <2>1. rx_ring \in [Queues -> Seq(Mbufs)]
    BY <1>3 DEF TypeOK, PortTypeOK
  <2>2. Append(rx_ring[q], m) \in Seq(Mbufs)
    BY <1>4, <2>1, AppendProperties
  <2> QED
    BY <1>1, <1>4, <2>1, <2>2
<1>7. /\ pkt'[m] = p
      /\ \A n \in Mbufs \ {m} : pkt'[n] = pkt[n]
      /\ pkt' \in [Mbufs -> Packet \union {NoPacket}]
  BY <1>1, <1>3, <1>4, <1>5 DEF TypeOK, PortTypeOK
<1>8. TypeOK'
  <2>1. requests' \in Seq(Traffic)
    BY <1>2, <1>3, AppendProperties DEF TypeOK, PortTypeOK
  <2> QED
    BY <1>1, <1>2, <1>3, <1>6, <1>7, <2>1
    DEF TypeOK, PortTypeOK, WorkerTypeOK, workerVars, bufferVars
<1>9. MbufOwnership'
  <2> DEFINE left == tx_ring[q] \o tx_buffer[q]
             bufs == rx_bufs[q]
             ring == rx_ring[q]
  <2>1. /\ left \in Seq(Mbufs) /\ bufs \in Seq(Mbufs) /\ ring \in Seq(Mbufs)
        /\ Held[q] = left \o bufs \o ring
    BY <1>3, <1>4, PartsTyped, Regroup DEF HeldInThree
  <2>2. Held'[q] = left \o bufs \o Append(ring, m)
    BY <1>2, <1>4, <1>6 DEF Held, workerVars, bufferVars
  <2>3. /\ IsInjective(Held[q]) /\ Range(Held[q]) \intersect pool = {}
    BY <1>3, <1>4, HeldNotFree
  <2>4. m \notin Range(Held[q])
    BY <2>3
  <2> HIDE DEF left, bufs, ring
  <2>5. /\ Range(Held'[q]) = Range(Held[q]) \union {m}
        /\ IsInjective(Held'[q])
    BY <1>4, <2>1, <2>2, <2>3, <2>4, EnterRight
  <2>6. \A r \in Queues \ {q} : Held'[r] = Held[r]
    BY <1>2, <1>6 DEF Held, workerVars, bufferVars
  <2>7. /\ Range(Held'[q]) \union pool' = Range(Held[q]) \union pool
        /\ Range(Held'[q]) \intersect pool' = {}
    BY <1>1, <2>3, <2>5
  <2>8. OwnedOnce(Held', pool')
    BY <1>3, <1>4, <2>5, <2>6, <2>7, OneWorkerMoves DEF MbufOwnership
  <2> QED
    BY <2>8 DEF MbufOwnership
<1>10. HeldCarry' /\ NoBatch' /\ BufferInv'
  BY <1>1, <1>2, <1>3, <1>5, <1>7
  DEF HeldCarry, NoBatch, BufferInv, workerVars, bufferVars
<1> QED
  BY <1>8, <1>9, <1>10 DEF Inv

\* The NIC takes the oldest mbuf of a TX ring back to the pool.
LEMMA InvTransmit ==
  ASSUME Inv, NEW q \in Queues, Transmit(q), UNCHANGED <<workerVars, bufferVars>>
  PROVE  Inv'
<1> DEFINE m == Head(tx_ring[q])
<1>1. /\ tx_ring[q] # <<>>
      /\ tx_ring' = [tx_ring EXCEPT ![q] = Tail(@)]
      /\ wire' = [wire EXCEPT ![q] = Append(@, OnWire(pkt[m]))]
      /\ pool' = pool \union Range(<<m>>)
      /\ pkt' = [n \in Mbufs |-> IF n \in Range(<<m>>) THEN NoPacket ELSE pkt[n]]
      /\ UNCHANGED <<rx_ring, requests>> /\ UNCHANGED <<workerVars, bufferVars>>
  BY Zenon DEF Transmit, FreeAll
<1>2. TypeOK /\ MbufOwnership /\ HeldCarry /\ NoBatch /\ BufferInv
  BY DEF Inv
<1> DEFINE buf == tx_buffer[q]
           right == rx_bufs[q] \o rx_ring[q]
<1>3. /\ tx_ring[q] \in Seq(Mbufs) /\ buf \in Seq(Mbufs) /\ right \in Seq(Mbufs)
      /\ Held[q] = tx_ring[q] \o buf \o right
      /\ IsInjective(Held[q]) /\ Range(Held[q]) \subseteq Mbufs \ pool
  BY <1>2, PartsTyped, Regroup, HeldNotFree DEF HeldInThree
<1>4. m \in Mbufs /\ Tail(tx_ring[q]) \in Seq(Mbufs) /\ Range(<<m>>) = {m}
  BY <1>1, <1>3, HeadAndTail
<1> HIDE DEF m
<1>5. /\ tx_ring'[q] = Tail(tx_ring[q])
      /\ \A r \in Queues \ {q} : tx_ring'[r] = tx_ring[r]
      /\ tx_ring' \in [Queues -> Seq(Mbufs)]
  BY <1>1, <1>2, <1>4 DEF TypeOK, PortTypeOK
<1>6. wire' \in [Queues -> Seq(Packet)]
  <2>1. pkt[m] \in Packet
    <3>1. m \in Range(Held[q])
      <4> HIDE DEF buf, right
      <4> QED
        BY <1>1, <1>3, LeaveLeft DEF m
    <3> QED
      BY <1>2, <1>3, <3>1 DEF HeldCarry
  <2>2. OnWire(pkt[m]) \in Packet
    BY <2>1 DEF OnWire, Packet, CksumState
  <2> QED
    BY <1>1, <1>2, <2>2, AppendProperties DEF TypeOK, PortTypeOK
<1>7. TypeOK'
  <2>1. pkt' \in [Mbufs -> Packet \union {NoPacket}] /\ pool' \subseteq Mbufs
    BY <1>1, <1>2, <1>4 DEF TypeOK, PortTypeOK
  <2> QED
    BY <1>1, <1>2, <1>5, <1>6, <2>1
    DEF TypeOK, PortTypeOK, WorkerTypeOK, workerVars, bufferVars
<1>8. Held'[q] = Tail(tx_ring[q]) \o buf \o right
  <2>1. /\ tx_buffer' = tx_buffer /\ rx_bufs' = rx_bufs /\ rx_ring' = rx_ring
    BY <1>1 DEF workerVars, bufferVars
  <2>2. TypeOK' => HeldInThree'
    BY Regroup, PTL
  <2> QED
    BY <1>5, <1>7, <2>1, <2>2 DEF HeldInThree
<1>9. /\ Range(Held[q]) = Range(Held'[q]) \union {m}
      /\ m \notin Range(Held'[q])
      /\ IsInjective(Held'[q])
  <2> HIDE DEF buf, right
  <2> QED
    BY <1>1, <1>3, <1>8, LeaveLeft DEF m
<1>10. MbufOwnership'
  <2>1. \A r \in Queues \ {q} : Held'[r] = Held[r]
    BY <1>1, <1>5 DEF Held, workerVars, bufferVars
  <2>2. /\ Range(Held'[q]) \union pool' = Range(Held[q]) \union pool
        /\ Range(Held'[q]) \intersect pool' = {}
    BY <1>1, <1>3, <1>4, <1>9
  <2>3. OwnedOnce(Held', pool')
    BY <1>2, <1>9, <2>1, <2>2, OneWorkerMoves DEF MbufOwnership
  <2> QED
    BY <2>3 DEF MbufOwnership
<1>11. HeldCarry' /\ NoBatch' /\ BufferInv'
  BY <1>1, <1>2, <1>4 DEF HeldCarry, NoBatch, BufferInv, workerVars, bufferVars
<1> QED
  BY <1>7, <1>10, <1>11 DEF Inv

------------------------------------------------------------------------------
(* The buffer.                                                             *)

\* Packets bufs go to the NIC as far as it takes them, and back to the pool
\* from there on; rest is what then remains of the batch.
LEMMA SendMoves ==
  ASSUME Inv, NEW q \in Queues, NEW bufs \in Seq(Mbufs), NEW rest \in Seq(Mbufs),
         Held[q] = tx_ring[q] \o bufs \o (rest \o rx_ring[q]),
         NEW sent \in TxBursts(q, bufs), SendBuffer(q, bufs, sent),
         rx_bufs' = [rx_bufs EXCEPT ![q] = rest]
  PROVE  /\ sent \in 0..Len(bufs) /\ Len(bufs) \in Nat
         /\ PortTypeOK' /\ rx_bufs' \in [Queues -> Seq(Mbufs)]
         /\ tx_buffer' \in [Queues -> Seq(Mbufs)]
         /\ tx_buffer_drops' \in [Queues -> Nat]
         /\ MbufOwnership' /\ HeldCarry'
<1> DEFINE front == SubSeq(bufs, 1, sent)
           back == SubSeq(bufs, sent + 1, Len(bufs))
           right == rest \o rx_ring[q]
<1>1. /\ tx_ring' = [tx_ring EXCEPT ![q] = @ \o front]
      /\ pool' = pool \union Range(back)
      /\ pkt' = [m \in Mbufs |-> IF m \in Range(back) THEN NoPacket ELSE pkt[m]]
      /\ UNCHANGED <<rx_ring, requests, wire>>
      /\ tx_buffer' = [tx_buffer EXCEPT ![q] = <<>>]
      /\ tx_buffer_drops' = [tx_buffer_drops EXCEPT ![q] = @ + (Len(bufs) - sent)]
  BY Zenon DEF SendBuffer, SendOrFree, FreeAll
<1>2. TypeOK /\ MbufOwnership /\ HeldCarry
  BY DEF Inv
<1>3. sent \in 0..Len(bufs) /\ Len(bufs) \in Nat /\ Len(bufs) - sent \in Nat
  <2>1. sent \in 0..Len(bufs) /\ Len(bufs) \in Nat
    BY LenProperties DEF TxBursts
  <2> QED
    BY <2>1
<1>4. tx_ring[q] \in Seq(Mbufs) /\ rx_ring[q] \in Seq(Mbufs)
  BY <1>2, PartsTyped
<1>5. right \in Seq(Mbufs)
  BY <1>4, ConcatProperties
<1>6. IsInjective(Held[q]) /\ Range(Held[q]) \subseteq Mbufs \ pool
  BY <1>2, HeldNotFree
<1>7. Held[q] = tx_ring[q] \o bufs \o right
  OBVIOUS
<1>8. /\ tx_ring[q] \o front \in Seq(Mbufs)
      /\ Range(Held[q])
           = Range((tx_ring[q] \o front) \o <<>> \o right) \union Range(back)
      /\ Range((tx_ring[q] \o front) \o <<>> \o right) \intersect Range(back) = {}
      /\ IsInjective((tx_ring[q] \o front) \o <<>> \o right)
  <2> HIDE DEF right
  <2> QED
    BY <1>3, <1>4, <1>5, <1>6, <1>7, LeaveMiddle
<1> DEFINE left == tx_ring[q] \o front
<1>9. left \in Seq(Mbufs)
  BY <1>8
<1>10. (left \o <<>>) \o rest \o rx_ring[q] = left \o <<>> \o right
  <2>1. left \o <<>> = left
    BY <1>9, ConcatEmptySeq
  <2> DEFINE ring == rx_ring[q]
  <2>2. left \in Seq(Mbufs) /\ rest \in Seq(Mbufs) /\ ring \in Seq(Mbufs)
    BY <1>4, <1>9
  <2> HIDE DEF left, ring
  <2>3. left \o rest \o ring = left \o (rest \o ring)
    BY <2>2, ConcatAssociative, SMTT(30)
  <2> QED
    BY <2>1, <2>3 DEF ring
<1> HIDE DEF front, back, right
<1>11. /\ tx_ring'[q] = left /\ rx_bufs'[q] = rest /\ tx_buffer'[q] = <<>>
       /\ \A r \in Queues \ {q} : /\ tx_ring'[r] = tx_ring[r]
                                 /\ tx_buffer'[r] = tx_buffer[r]
                                 /\ rx_bufs'[r] = rx_bufs[r]
       /\ tx_ring' \in [Queues -> Seq(Mbufs)]
       /\ rx_bufs' \in [Queues -> Seq(Mbufs)]
       /\ tx_buffer' \in [Queues -> Seq(Mbufs)]
  <2>1. /\ tx_ring \in [Queues -> Seq(Mbufs)] /\ rx_bufs \in [Queues -> Seq(Mbufs)]
        /\ tx_buffer \in [Queues -> Seq(Mbufs)] /\ <<>> \in Seq(Mbufs)
    BY <1>2 DEF TypeOK, PortTypeOK, WorkerTypeOK
  <2> QED
    BY <1>1, <1>9, <2>1
<1>12. Held'[q] = left \o <<>> \o right
  BY <1>1, <1>10, <1>11 DEF Held
<1>13. MbufOwnership'
  <2>1. \A r \in Queues \ {q} : Held'[r] = Held[r]
    BY <1>1, <1>11 DEF Held
  <2>2. /\ IsInjective(Held'[q])
        /\ Range(Held'[q]) \union pool' = Range(Held[q]) \union pool
        /\ Range(Held'[q]) \intersect pool' = {}
    BY <1>1, <1>6, <1>8, <1>12
  <2>3. OwnedOnce(Held', pool')
    BY <1>2, <2>1, <2>2, OneWorkerMoves DEF MbufOwnership
  <2> QED
    BY <2>3 DEF MbufOwnership
<1>14. pool' \subseteq Mbufs /\ pkt' \in [Mbufs -> Packet \union {NoPacket}]
  BY <1>1, <1>2, <1>6, <1>8 DEF TypeOK, PortTypeOK
<1>15. PortTypeOK'
  BY <1>1, <1>2, <1>11, <1>14 DEF TypeOK, PortTypeOK
<1>16. tx_buffer_drops' \in [Queues -> Nat]
  <2>1. tx_buffer_drops \in [Queues -> Nat]
    BY <1>2 DEF TypeOK
  <2> QED
    BY <1>1, <1>3, <2>1
<1>17. HeldCarry'
  BY <1>1, <1>2 DEF HeldCarry
<1> QED
  BY <1>3, <1>11, <1>13, <1>15, <1>16, <1>17

\* A flush, with no batch under way.
LEMMA InvFlush ==
  ASSUME Inv, NEW q \in Queues, FlushTxBuffer(q), rx_bufs[q] = <<>>,
         NEW to \in {"report", "loop_end"}, pc' = [pc EXCEPT ![q] = to],
         UNCHANGED <<checksum_mode, rx_bufs, printed, nb_tx, drops_before>>
  PROVE  Inv'
<1> DEFINE buf == tx_buffer[q]
           rest == rx_bufs[q]
<1>1. PICK sent \in TxBursts(q, buf) :
        /\ SendBuffer(q, buf, sent)
        /\ stats' = [stats EXCEPT ![q].tx_packets = @ + sent,
                                  ![q].tx_drops = @ + (Len(buf) - sent)]
  BY Zenon DEF FlushTxBuffer
<1>2. TypeOK /\ NoBatch /\ BufferInv
  BY DEF Inv
<1>3. /\ buf \in Seq(Mbufs) /\ rest \in Seq(Mbufs)
      /\ Held[q] = tx_ring[q] \o buf \o (rest \o rx_ring[q])
      /\ rx_bufs' = [rx_bufs EXCEPT ![q] = rest]
  BY <1>2, PartsTyped, Regroup DEF HeldInThree, TypeOK, WorkerTypeOK
<1>4. /\ tx_buffer' = [tx_buffer EXCEPT ![q] = <<>>]
      /\ tx_buffer_drops' = [tx_buffer_drops EXCEPT ![q] = @ + (Len(buf) - sent)]
  BY <1>1 DEF SendBuffer
<1> HIDE DEF buf, rest
<1>5. /\ sent \in 0..Len(buf) /\ Len(buf) \in Nat
      /\ PortTypeOK' /\ rx_bufs' \in [Queues -> Seq(Mbufs)]
      /\ tx_buffer' \in [Queues -> Seq(Mbufs)]
      /\ tx_buffer_drops' \in [Queues -> Nat]
      /\ MbufOwnership' /\ HeldCarry'
  BY <1>1, <1>3, SendMoves
<1>6. sent \in Nat /\ Len(buf) - sent \in Nat
  BY <1>5
<1>7. stats' \in [Queues -> Counters]
  <2>1. stats \in [Queues -> Counters]
    BY <1>2 DEF TypeOK, WorkerTypeOK
  <2>2. [stats[q] EXCEPT !.tx_packets = @ + sent,
                         !.tx_drops = @ + (Len(buf) - sent)] \in Counters
    BY <1>6, <2>1, TxCountersGrow, Zenon
  <2> QED
    BY <1>1, <2>1, <2>2
<1>8. TypeOK'
  BY <1>2, <1>5, <1>7 DEF TypeOK, WorkerTypeOK
<1>9. NoBatch' /\ BufferInv'
  <2>1. NoBatch'
    BY <1>2 DEF NoBatch, TypeOK
  <2>2. \A r \in Queues : Len(tx_buffer'[r]) < TX_BUFFER_SIZE
    BY <1>2, <1>4, TxBufferAssumption DEF BufferInv, TypeOK
  <2>3. \A r \in Queues : pc'[r] = "tx" => drops_before'[r] <= tx_buffer_drops'[r]
    BY <1>2, <1>4 DEF BufferInv, TypeOK
  <2> QED
    BY <2>1, <2>2, <2>3 DEF BufferInv
<1> QED
  BY <1>5, <1>8, <1>9 DEF Inv

\* The next packet of the batch goes into the buffer, and the one that fills it
\* sends them all.
LEMMA InvTxBuffer ==
  ASSUME Inv, NEW q \in Queues, TxBuffer(q)
  PROVE  Inv'
<1> DEFINE old == tx_buffer[q]
           h == Head(rx_bufs[q])
           bufs == Append(old, h)
           rest == Tail(rx_bufs[q])
<1>1. /\ pc[q] = "tx" /\ rx_bufs[q] # <<>>
      /\ rx_bufs' = [rx_bufs EXCEPT ![q] = rest]
      /\ UNCHANGED <<checksum_mode, pc, stats, printed, drops_before>>
  BY DEF TxBuffer
<1>2. TypeOK /\ MbufOwnership /\ HeldCarry /\ NoBatch /\ BufferInv
  BY DEF Inv
<1>3. /\ tx_ring[q] \in Seq(Mbufs) /\ old \in Seq(Mbufs) /\ rx_ring[q] \in Seq(Mbufs)
      /\ rx_bufs[q] \in Seq(Mbufs)
      /\ Held[q] = tx_ring[q] \o old \o (rx_bufs[q] \o rx_ring[q])
  BY <1>2, PartsTyped, Regroup DEF HeldInThree
<1>4. /\ rest \in Seq(Mbufs) /\ h \in Mbufs /\ <<h>> \in Seq(Mbufs)
      /\ <<h>> \o rest = rx_bufs[q]
  BY <1>1, <1>3, HeadAndTail
<1> HIDE DEF h, rest
<1>5. bufs \in Seq(Mbufs) /\ bufs = old \o <<h>> /\ Len(bufs) = Len(old) + 1
  BY <1>3, <1>4, AppendProperties, AppendIsConcat
<1>6. Held[q] = tx_ring[q] \o bufs \o (rest \o rx_ring[q])
  <2> DEFINE one == <<h>>
             ring == rx_ring[q]
             s == tx_ring[q]
  <2>0. /\ s \in Seq(Mbufs) /\ old \in Seq(Mbufs) /\ one \in Seq(Mbufs)
        /\ rest \in Seq(Mbufs) /\ ring \in Seq(Mbufs)
    BY <1>3, <1>4
  <2>1. /\ Held[q] = s \o old \o ((one \o rest) \o ring)
        /\ bufs = old \o one
    BY <1>3, <1>4, <1>5
  <2> HIDE DEF one, ring, s, old, bufs
  <2> DEFINE left == s \o old
             right == rest \o ring
  <2>2. (one \o rest) \o ring = one \o right
    <3>1. one \in Seq(Mbufs) /\ rest \in Seq(Mbufs) /\ ring \in Seq(Mbufs)
      BY <2>0
    <3> QED
      BY <3>1, ConcatAssociative, SMTT(30)
  <2>3. s \o (old \o one) = left \o one
    <3>1. s \in Seq(Mbufs) /\ old \in Seq(Mbufs) /\ one \in Seq(Mbufs)
      BY <2>0
    <3> QED
      BY <3>1, ConcatAssociative, SMTT(30)
  <2>4. left \in Seq(Mbufs) /\ right \in Seq(Mbufs)
    BY <2>0, ConcatProperties
  <2>5. Held[q] = left \o (one \o right)
    BY <2>1, <2>2
  <2>6. s \o bufs \o right = (left \o one) \o right
    BY <2>1, <2>3
  <2> HIDE DEF left, right
  <2>7. left \o (one \o right) = (left \o one) \o right
    <3>1. left \in Seq(Mbufs) /\ one \in Seq(Mbufs) /\ right \in Seq(Mbufs)
      BY <2>0, <2>4
    <3> QED
      BY <3>1, ConcatAssociative, SMTT(30)
  <2>8. Held[q] = s \o bufs \o right
    BY <2>5, <2>6, <2>7, Zenon
  <2> QED
    BY <2>8 DEF ring, s, right
<1>7. rx_bufs' \in [Queues -> Seq(Mbufs)]
  BY <1>1, <1>2, <1>4 DEF TypeOK, WorkerTypeOK
<1>8. NoBatch'
  BY <1>1, <1>2 DEF NoBatch, TypeOK
<1>9. CASE /\ Len(bufs) < TX_BUFFER_SIZE
           /\ tx_buffer' = [tx_buffer EXCEPT ![q] = bufs]
           /\ UNCHANGED <<portVars, tx_buffer_drops, nb_tx>>
  <2> HIDE DEF bufs
  <2>1. /\ tx_buffer'[q] = bufs /\ rx_bufs'[q] = rest
        /\ \A r \in Queues \ {q} : /\ tx_buffer'[r] = tx_buffer[r]
                                  /\ rx_bufs'[r] = rx_bufs[r]
        /\ tx_buffer' \in [Queues -> Seq(Mbufs)]
    BY <1>1, <1>2, <1>5, <1>9 DEF TypeOK, WorkerTypeOK
  <2>2. TypeOK'
    BY <1>1, <1>2, <1>7, <1>9, <2>1
    DEF TypeOK, PortTypeOK, WorkerTypeOK, portVars
  <2>3. Held' = Held
    <3>1. HeldInThree'
      BY <2>2, Regroup, PTL
    <3>2. Held'[q] = Held[q]
      BY <1>6, <1>9, <2>1, <3>1 DEF HeldInThree, portVars
    <3>3. \A r \in Queues \ {q} : Held'[r] = Held[r]
      BY <1>9, <2>1 DEF Held, portVars
    <3> QED
      BY <3>2, <3>3 DEF Held
  <2>4. MbufOwnership' /\ HeldCarry'
    BY <1>2, <1>9, <2>3 DEF MbufOwnership, OwnedOnce, HeldCarry, portVars
  <2>5. BufferInv'
    BY <1>1, <1>2, <1>9, <2>1 DEF BufferInv, TypeOK
  <2> QED
    BY <1>8, <2>2, <2>4, <2>5 DEF Inv
<1>10. ASSUME NEW sent \in TxBursts(q, bufs), SendBuffer(q, bufs, sent),
              nb_tx' = [nb_tx EXCEPT ![q] = @ + sent]
       PROVE  Inv'
  <2>1. /\ tx_buffer' = [tx_buffer EXCEPT ![q] = <<>>]
        /\ tx_buffer_drops' = [tx_buffer_drops EXCEPT ![q] = @ + (Len(bufs) - sent)]
    BY <1>10 DEF SendBuffer
  <2> HIDE DEF bufs
  <2>2. /\ sent \in 0..Len(bufs) /\ Len(bufs) \in Nat
        /\ PortTypeOK'
        /\ tx_buffer' \in [Queues -> Seq(Mbufs)]
        /\ tx_buffer_drops' \in [Queues -> Nat]
        /\ MbufOwnership' /\ HeldCarry'
    BY <1>1, <1>4, <1>5, <1>6, <1>10, SendMoves
  <2>3. nb_tx' \in [Queues -> Nat]
    BY <1>2, <1>10, <2>2 DEF TypeOK
  <2>4. TypeOK'
    BY <1>1, <1>2, <1>7, <2>2, <2>3 DEF TypeOK, WorkerTypeOK
  <2>5. BufferInv'
    <3>1. \A r \in Queues : Len(tx_buffer'[r]) < TX_BUFFER_SIZE
      BY <1>2, <2>1, TxBufferAssumption DEF BufferInv, TypeOK
    <3>2. \A r \in Queues \ {q} : tx_buffer_drops'[r] = tx_buffer_drops[r]
      BY <1>2, <2>1 DEF TypeOK
    <3>3. tx_buffer_drops[q] <= tx_buffer_drops'[q]
      <4>1. /\ tx_buffer_drops'[q] = tx_buffer_drops[q] + (Len(bufs) - sent)
            /\ tx_buffer_drops[q] \in Nat
        BY <1>2, <2>1 DEF TypeOK
      <4> QED
        BY <2>2, <4>1
    <3>4. drops_before[q] <= tx_buffer_drops[q]
      BY <1>1, <1>2 DEF BufferInv
    <3>5. /\ drops_before[q] \in Nat /\ tx_buffer_drops[q] \in Nat
          /\ tx_buffer_drops'[q] \in Nat
      BY <1>2, <2>2 DEF TypeOK
    <3>6. drops_before[q] <= tx_buffer_drops'[q]
      BY <3>3, <3>4, <3>5
    <3> QED
      BY <1>1, <1>2, <3>1, <3>2, <3>6 DEF BufferInv
  <2> QED
    BY <1>8, <2>2, <2>4, <2>5 DEF Inv
<1> QED
  BY <1>9, <1>10, Zenon DEF TxBuffer, h

------------------------------------------------------------------------------
(* The other stages.                                                       *)

\* A poll moves mbufs from the left of the RX ring to the right of rx_bufs,
\* which was empty.
LEMMA InvRxBurst ==
  ASSUME Inv, NEW q \in Queues, RxBurst(q), UNCHANGED bufferVars
  PROVE  Inv'
<1>1. /\ pc[q] = "poll" /\ pc' = [pc EXCEPT ![q] = "rewrite"]
      /\ UNCHANGED <<pool, pkt, tx_ring, requests, wire, checksum_mode, printed>>
      /\ UNCHANGED bufferVars
  BY DEF RxBurst, Goto
<1>2. PICK nb_rx \in RxBursts(q, BURST_SIZE) :
        /\ rx_bufs' = [rx_bufs EXCEPT ![q] = SubSeq(rx_ring[q], 1, nb_rx)]
        /\ rx_ring' = [rx_ring EXCEPT ![q] = SubSeq(@, nb_rx + 1, Len(@))]
        /\ stats' = [stats EXCEPT ![q].rx_packets = @ + nb_rx]
  BY Zenon DEF RxBurst
<1>3. TypeOK /\ MbufOwnership /\ HeldCarry /\ NoBatch /\ BufferInv
  BY DEF Inv
<1> DEFINE left == tx_ring[q] \o tx_buffer[q]
           ring == rx_ring[q]
           front == SubSeq(ring, 1, nb_rx)
           back == SubSeq(ring, nb_rx + 1, Len(ring))
<1>4. left \in Seq(Mbufs) /\ ring \in Seq(Mbufs)
  BY <1>3, PartsTyped
<1>5. Held[q] = left \o <<>> \o ring
  <2>1. rx_bufs[q] = <<>>
    BY <1>1, <1>3 DEF NoBatch
  <2> QED
    BY <1>3, <2>1, Regroup DEF HeldInThree
<1>6. nb_rx \in Nat /\ nb_rx \in 0..Len(ring)
  BY <1>2, <1>4, LenProperties DEF RxBursts
<1>7. /\ front \in Seq(Mbufs) /\ back \in Seq(Mbufs)
      /\ left \o front \o back = left \o <<>> \o ring
  <2> HIDE DEF left, ring
  <2> QED
    BY <1>4, <1>6, EnterMiddle
<1>8. /\ rx_bufs' = [rx_bufs EXCEPT ![q] = front]
      /\ rx_ring' = [rx_ring EXCEPT ![q] = back]
  BY <1>2
<1> HIDE DEF front, back
<1>9. stats' \in [Queues -> Counters]
  <2>1. stats \in [Queues -> Counters]
    BY <1>3 DEF TypeOK, WorkerTypeOK
  <2>2. [stats[q] EXCEPT !.rx_packets = @ + nb_rx] \in Counters
    BY <1>6, <2>1, RxCounterGrows
  <2> QED
    BY <1>2, <2>1, <2>2
<1>10. TypeOK'
  BY <1>1, <1>3, <1>7, <1>8, <1>9
  DEF TypeOK, PortTypeOK, WorkerTypeOK, bufferVars
<1>11. Held' = Held
  <2>1. Held'[q] = left \o front \o back
    BY <1>1, <1>3, <1>8 DEF Held, TypeOK, PortTypeOK, WorkerTypeOK, bufferVars
  <2>2. Held'[q] = Held[q]
    BY <1>5, <1>7, <2>1
  <2>3. \A r \in Queues \ {q} : Held'[r] = Held[r]
    BY <1>1, <1>3, <1>8 DEF Held, TypeOK, PortTypeOK, WorkerTypeOK, bufferVars
  <2> QED
    BY <2>2, <2>3 DEF Held
<1>12. MbufOwnership'
  BY <1>1, <1>3, <1>11 DEF MbufOwnership, OwnedOnce
<1>13. HeldCarry' /\ NoBatch' /\ BufferInv'
  BY <1>1, <1>3, <1>8 DEF HeldCarry, NoBatch, BufferInv, TypeOK, bufferVars
<1> QED
  BY <1>10, <1>12, <1>13 DEF Inv

\* The stages that edit a batch find a packet in each of its mbufs, and move
\* none of them.
LEMMA EditMoves ==
  ASSUME Inv, NEW q \in Queues, NEW edited \in [Packet -> Packet],
         pkt' = [m \in Mbufs |->
                   IF m \in Range(rx_bufs[q]) THEN edited[pkt[m]] ELSE pkt[m]],
         UNCHANGED <<pool, rx_ring, tx_ring, requests, wire>>,
         UNCHANGED <<checksum_mode, rx_bufs, stats, printed, tx_buffer>>
  PROVE  PortTypeOK' /\ WorkerTypeOK' /\ MbufOwnership' /\ HeldCarry'
<1>1. TypeOK /\ MbufOwnership /\ HeldCarry
  BY DEF Inv
<1>2. \A m \in Range(rx_bufs[q]) : m \in Mbufs \ pool /\ pkt[m] \in Packet
  <2>1. Range(rx_bufs[q]) \subseteq Mbufs \ pool
    BY <1>1, HeldNotFree
  <2> QED
    BY <1>1, <2>1 DEF HeldCarry
<1>3. /\ pkt' \in [Mbufs -> Packet \union {NoPacket}]
      /\ \A m \in Mbufs \ pool : pkt'[m] \in Packet
  BY <1>1, <1>2 DEF TypeOK, PortTypeOK, HeldCarry
<1>4. PortTypeOK' /\ WorkerTypeOK'
  BY <1>1, <1>3 DEF TypeOK, PortTypeOK, WorkerTypeOK
<1>5. MbufOwnership'
  BY <1>1 DEF MbufOwnership, OwnedOnce, Held
<1> QED
  BY <1>3, <1>4, <1>5 DEF HeldCarry

\* The exchange of the endpoints writes into mbufs of the batch only.
LEMMA InvRewrite ==
  ASSUME Inv, NEW q \in Queues, Rewrite(q), UNCHANGED bufferVars
  PROVE  Inv'
<1> DEFINE edited == [p \in Packet |-> SwapEndpoints(p)]
<1>1. edited \in [Packet -> Packet]
  BY DEF SwapEndpoints, Packet
<1>2. \A m \in Range(rx_bufs[q]) : SwapEndpoints(pkt[m]) = edited[pkt[m]]
  <2>1. Range(rx_bufs[q]) \subseteq Mbufs \ pool
    BY HeldNotFree DEF Inv
  <2> QED
    BY <2>1 DEF Inv, HeldCarry
<1> HIDE DEF edited
<1>3. pkt' = [m \in Mbufs |->
                IF m \in Range(rx_bufs[q]) THEN edited[pkt[m]] ELSE pkt[m]]
  BY <1>2 DEF Rewrite, EditBatch
<1>4. /\ pc' = [pc EXCEPT ![q] = "checksum"]
      /\ UNCHANGED <<pool, rx_ring, tx_ring, requests, wire>>
      /\ UNCHANGED <<checksum_mode, rx_bufs, stats, printed>>
      /\ UNCHANGED <<tx_buffer, tx_buffer_drops, nb_tx, drops_before>>
  BY DEF Rewrite, Goto, bufferVars
<1>5. PortTypeOK' /\ WorkerTypeOK' /\ MbufOwnership' /\ HeldCarry'
  BY <1>1, <1>3, <1>4, EditMoves
<1>6. TypeOK' /\ NoBatch' /\ BufferInv'
  BY <1>4, <1>5 DEF Inv, TypeOK, NoBatch, BufferInv
<1> QED
  BY <1>5, <1>6 DEF Inv

\* So does the checksum stage, which also sets the locals of the TX stage.
LEMMA InvChecksum ==
  ASSUME Inv, NEW q \in Queues, ChecksumThenTx(q)
  PROVE  Inv'
<1> DEFINE edited == [p \in Packet |-> FixChecksum(checksum_mode, p)]
<1>1. edited \in [Packet -> Packet]
  <2>1. checksum_mode \in {"software", "offload", "preserve", "none"}
    BY WorkerAssumption DEF Inv, TypeOK, WorkerTypeOK
  <2>2. \A p \in Packet, c \in CksumState : [p EXCEPT !.cksum = c] \in Packet
    BY DEF Packet
  <2> QED
    BY <2>1, <2>2 DEF FixChecksum, CksumState
<1>2. \A m \in Range(rx_bufs[q]) :
        FixChecksum(checksum_mode, pkt[m]) = edited[pkt[m]]
  <2>1. Range(rx_bufs[q]) \subseteq Mbufs \ pool
    BY HeldNotFree DEF Inv
  <2> QED
    BY <2>1 DEF Inv, HeldCarry
<1> HIDE DEF edited
<1>3. pkt' = [m \in Mbufs |->
                IF m \in Range(rx_bufs[q]) THEN edited[pkt[m]] ELSE pkt[m]]
  BY <1>2 DEF ChecksumThenTx, Checksum, EditBatch
<1>4. /\ pc' = [pc EXCEPT ![q] = "tx"]
      /\ UNCHANGED <<pool, rx_ring, tx_ring, requests, wire>>
      /\ UNCHANGED <<checksum_mode, rx_bufs, stats, printed>>
      /\ UNCHANGED <<tx_buffer, tx_buffer_drops>>
      /\ nb_tx' = [nb_tx EXCEPT ![q] = 0]
      /\ drops_before' = [drops_before EXCEPT ![q] = tx_buffer_drops[q]]
  BY DEF ChecksumThenTx, Checksum, Goto
<1>5. PortTypeOK' /\ WorkerTypeOK' /\ MbufOwnership' /\ HeldCarry'
  BY <1>1, <1>3, <1>4, EditMoves
<1>6. TypeOK' /\ NoBatch'
  BY <1>4, <1>5 DEF Inv, TypeOK, NoBatch
<1>7. BufferInv'
  BY <1>4 DEF Inv, TypeOK, BufferInv
<1> QED
  BY <1>5, <1>6, <1>7 DEF Inv

\* The drops of the stage are those since it began.
LEMMA InvTxEnd ==
  ASSUME Inv, NEW q \in Queues, TxEnd(q)
  PROVE  Inv'
<1> DEFINE drops == tx_buffer_drops[q] - drops_before[q]
<1>1. /\ pc[q] = "tx" /\ rx_bufs[q] = <<>>
      /\ stats' = [stats EXCEPT ![q].tx_packets = @ + nb_tx[q],
                                ![q].tx_drops = @ + drops]
      /\ UNCHANGED <<portVars, checksum_mode, rx_bufs, printed, bufferVars>>
  BY DEF TxEnd
<1>2. PICK to \in {"flush", "loop_end"} : pc' = [pc EXCEPT ![q] = to]
  BY DEF TxEnd
<1>3. TypeOK /\ MbufOwnership /\ HeldCarry /\ NoBatch /\ BufferInv
  BY DEF Inv
<1>4. nb_tx[q] \in Nat /\ drops \in Nat
  BY <1>1, <1>3 DEF TypeOK, BufferInv
<1>5. stats' \in [Queues -> Counters]
  <2>1. stats \in [Queues -> Counters]
    BY <1>3 DEF TypeOK, WorkerTypeOK
  <2> HIDE DEF drops
  <2>2. [stats[q] EXCEPT !.tx_packets = @ + nb_tx[q],
                         !.tx_drops = @ + drops] \in Counters
    BY <1>4, <2>1, TxCountersGrow, Zenon
  <2> QED
    BY <1>1, <2>1, <2>2
<1>6. TypeOK'
  BY <1>1, <1>2, <1>3, <1>5
  DEF TypeOK, PortTypeOK, WorkerTypeOK, portVars, bufferVars
<1>7. MbufOwnership' /\ HeldCarry'
  BY <1>1, <1>3
  DEF MbufOwnership, OwnedOnce, Held, HeldCarry, portVars, bufferVars
<1>8. NoBatch' /\ BufferInv'
  BY <1>1, <1>2, <1>3 DEF NoBatch, BufferInv, TypeOK, bufferVars
<1> QED
  BY <1>6, <1>7, <1>8 DEF Inv

\* A report, due or not, ends an iteration and moves no mbuf.
LEMMA InvReport ==
  ASSUME Inv, NEW q \in Queues, MaybeReport(q), rx_bufs[q] = <<>>,
         pc' = [pc EXCEPT ![q] = "poll"],
         UNCHANGED <<portVars, checksum_mode, rx_bufs, bufferVars>>
  PROVE  Inv'
<1>1. TypeOK /\ MbufOwnership /\ HeldCarry /\ NoBatch /\ BufferInv
  BY DEF Inv
<1>2. stats' \in [Queues -> Counters] /\ printed' \in [Queues -> Counters]
  <2>1. stats \in [Queues -> Counters] /\ printed \in [Queues -> Counters]
    BY <1>1 DEF TypeOK, WorkerTypeOK
  <2>2. Plus(printed[q], stats[q]) \in Counters /\ ZeroCounters \in Counters
    BY <2>1, PlusCounters DEF ZeroCounters, Counters
  <2> QED
    BY <2>1, <2>2 DEF MaybeReport, Report
<1>3. TypeOK'
  BY <1>1, <1>2 DEF TypeOK, PortTypeOK, WorkerTypeOK, portVars, bufferVars
<1>4. MbufOwnership' /\ HeldCarry'
  BY <1>1 DEF MbufOwnership, OwnedOnce, Held, HeldCarry, portVars, bufferVars
<1>5. NoBatch' /\ BufferInv'
  BY <1>1 DEF NoBatch, BufferInv, TypeOK, bufferVars
<1> QED
  BY <1>3, <1>4, <1>5 DEF Inv

\* Every step keeps the invariant,
LEMMA InvNext == Inv /\ [Next]_vars => Inv'
<1> SUFFICES ASSUME Inv, [Next]_vars PROVE Inv'
  OBVIOUS
<1>0. NoBatch
  BY DEF Inv
<1>1. ASSUME NEW h \in Traffic, Deliver(h), UNCHANGED <<workerVars, bufferVars>>
      PROVE  Inv'
  BY <1>1, InvDeliver
<1>2. ASSUME NEW q \in Queues, Transmit(q), UNCHANGED <<workerVars, bufferVars>>
      PROVE  Inv'
  BY <1>2, InvTransmit
<1>3. ASSUME NEW q \in Queues, EmptyPoll(q) PROVE Inv'
  <2>1. rx_bufs[q] = <<>>
    BY <1>0, <1>3 DEF EmptyPoll, Goto, NoBatch
  <2> QED
    BY <1>3, <2>1, InvFlush DEF EmptyPoll, Goto
<1>4. ASSUME NEW q \in Queues, RxBurst(q), UNCHANGED bufferVars PROVE Inv'
  BY <1>4, InvRxBurst
<1>5. ASSUME NEW q \in Queues, Rewrite(q), UNCHANGED bufferVars PROVE Inv'
  BY <1>5, InvRewrite
<1>6. ASSUME NEW q \in Queues, ChecksumThenTx(q) PROVE Inv'
  BY <1>6, InvChecksum
<1>7. ASSUME NEW q \in Queues, TxBuffer(q) PROVE Inv'
  BY <1>7, InvTxBuffer
<1>8. ASSUME NEW q \in Queues, TxEnd(q) PROVE Inv'
  BY <1>8, InvTxEnd
<1>9. ASSUME NEW q \in Queues, FlushBeforeReport(q) PROVE Inv'
  <2>1. rx_bufs[q] = <<>>
    BY <1>0, <1>9 DEF FlushBeforeReport, Goto, NoBatch
  <2> QED
    BY <1>9, <2>1, InvFlush DEF FlushBeforeReport, Goto
<1>10. ASSUME NEW q \in Queues, DueReport(q) PROVE Inv'
  <2>1. rx_bufs[q] = <<>>
    BY <1>0, <1>10 DEF DueReport, Goto, NoBatch
  <2> QED
    BY <1>10, <2>1, InvReport DEF DueReport, Goto, MaybeReport
<1>11. ASSUME NEW q \in Queues, LoopEnd(q), UNCHANGED bufferVars PROVE Inv'
  <2>1. rx_bufs[q] = <<>>
    BY <1>0, <1>11 DEF LoopEnd, Goto, NoBatch
  <2> QED
    BY <1>11, <2>1, InvReport DEF LoopEnd, Goto
<1>12. CASE UNCHANGED vars
  <2>1. TypeOK' /\ HeldCarry' /\ NoBatch' /\ BufferInv'
    BY <1>12 DEF vars, portVars, workerVars, bufferVars, Inv, TypeOK, PortTypeOK,
                 WorkerTypeOK, HeldCarry, NoBatch, BufferInv
  <2>2. MbufOwnership'
    BY <1>12 DEF vars, portVars, workerVars, bufferVars, Inv, MbufOwnership,
                 OwnedOnce, Held
  <2> QED
    BY <2>1, <2>2 DEF Inv
<1> QED
  BY <1>1, <1>2, <1>3, <1>4, <1>5, <1>6, <1>7, <1>8, <1>9, <1>10, <1>11, <1>12
  DEF Next, Nic, Worker

\* and so it always holds.
LEMMA Invariance == Spec => []Inv
<1>1. Init => Inv
  BY InvInit
<1>2. Inv /\ [Next]_vars => Inv'
  BY InvNext
<1> QED
  BY <1>1, <1>2, PTL DEF Spec

\* The variables of the buffered servers keep their types: in particular, the
\* drops of a TX stage, a difference of two readings, are never negative.
THEOREM Typing == Spec => []TypeOK
<1>1. Inv => TypeOK
  BY DEF Inv
<1> QED
  BY <1>1, Invariance, PTL

\* The loops of the txbuf servers never leak an mbuf or free it twice, and no
\* two workers ever hold the same one, however long a packet is parked.
THEOREM Ownership == Spec => []MbufOwnership
<1>1. Inv => MbufOwnership
  BY DEF Inv
<1> QED
  BY <1>1, Invariance, PTL

------------------------------------------------------------------------------
(* The counters.  A TX stage counts in its locals, nb_tx and drops_before, *)
(* and a flush counts in the interval directly; in both cases what has     *)
(* left the buffer is counted at once.                                     *)

\* The counters of one worker: p those of the past intervals, s those of the
\* running one, t and d what the TX stage under way has sent and dropped, with
\* so many packets parked, in the batch, sent and freed.
Books(p, s, t, d, parked, batch, sent, freed) ==
  /\ Plus(p, s).rx_packets
       = (Plus(p, s).tx_packets + t) + (Plus(p, s).tx_drops + d) + parked + batch
  /\ Plus(p, s).tx_packets + t = sent
  /\ Plus(p, s).tx_drops + d = freed

StageSent(q) == IF pc[q] = "tx" THEN nb_tx[q] ELSE 0
StageDropped(q) ==
  IF pc[q] = "tx" THEN tx_buffer_drops[q] - drops_before[q] ELSE 0

\* What CountersBalance and ReportGap say of one worker.
InBooks(q) ==
  Books(printed[q], stats[q], StageSent(q), StageDropped(q),
        Len(tx_buffer[q]), Len(rx_bufs[q]), Len(wire[q]) + Len(tx_ring[q]),
        tx_buffer_drops[q])

SmallGap(p) == /\ p.tx_packets + p.tx_drops <= p.rx_packets
               /\ p.rx_packets < p.tx_packets + p.tx_drops + TX_BUFFER_SIZE

AllInBooks == \A q \in Queues : InBooks(q) /\ SmallGap(printed[q])

CountInv == Inv /\ AllInBooks

\* The books of the workers say what the two properties say.
LEMMA BooksAreBalance == CountersBalance /\ ReportGap <=> AllInBooks
<1>1. \A q \in Queues :
        InBooks(q) <=>
          /\ Counted(q).rx_packets =
               Sent(q) + Dropped(q) + Len(tx_buffer[q]) + Len(rx_bufs[q])
          /\ Sent(q) = Len(wire[q]) + Len(tx_ring[q])
          /\ Dropped(q) = tx_buffer_drops[q]
  BY Zenon DEF InBooks, Books, Sent, Dropped, Counted, StageSent, StageDropped
<1>2. CountersBalance <=> \A q \in Queues : InBooks(q)
  BY <1>1, Zenon DEF CountersBalance
<1>3. ReportGap <=> \A q \in Queues : SmallGap(printed[q])
  BY DEF ReportGap, SmallGap
<1> QED
  BY <1>2, <1>3, Zenon DEF AllInBooks

\* A step of a worker keeps its books if all that is sent or freed more than
\* before is counted as such, and comes out of the buffer or the batch.
LEMMA BooksMove ==
  ASSUME NEW p \in Counters, NEW s \in Counters,
         NEW p2 \in Counters, NEW s2 \in Counters,
         NEW t \in Nat, NEW d \in Nat, NEW t2 \in Nat, NEW d2 \in Nat,
         NEW parked \in Nat, NEW batch \in Nat,
         NEW parked2 \in Nat, NEW batch2 \in Nat,
         NEW sent \in Nat, NEW freed \in Nat,
         NEW sent2 \in Nat, NEW freed2 \in Nat,
         Books(p, s, t, d, parked, batch, sent, freed),
         p2.tx_packets + s2.tx_packets + t2 - sent2
           = p.tx_packets + s.tx_packets + t - sent,
         p2.tx_drops + s2.tx_drops + d2 - freed2
           = p.tx_drops + s.tx_drops + d - freed,
         (p2.rx_packets + s2.rx_packets) - (parked2 + batch2 + sent2 + freed2)
           = (p.rx_packets + s.rx_packets) - (parked + batch + sent + freed)
  PROVE  Books(p2, s2, t2, d2, parked2, batch2, sent2, freed2)
<1> DEFINE R == p.rx_packets + s.rx_packets   R2 == p2.rx_packets + s2.rx_packets
           T == p.tx_packets + s.tx_packets   T2 == p2.tx_packets + s2.tx_packets
           D == p.tx_drops + s.tx_drops       D2 == p2.tx_drops + s2.tx_drops
<1>1. /\ Plus(p, s).rx_packets = R /\ Plus(p2, s2).rx_packets = R2
      /\ Plus(p, s).tx_packets = T /\ Plus(p2, s2).tx_packets = T2
      /\ Plus(p, s).tx_drops = D /\ Plus(p2, s2).tx_drops = D2
  BY PlusCounters
<1>2. /\ R \in Nat /\ R2 \in Nat /\ T \in Nat /\ T2 \in Nat
      /\ D \in Nat /\ D2 \in Nat
  BY DEF Counters
<1>3. /\ R = (T + t) + (D + d) + parked + batch
      /\ T + t = sent /\ D + d = freed
  BY <1>1, Zenon DEF Books
<1>4. /\ T2 + t2 - sent2 = T + t - sent
      /\ D2 + d2 - freed2 = D + d - freed
      /\ R2 - (parked2 + batch2 + sent2 + freed2)
           = R - (parked + batch + sent + freed)
  OBVIOUS
<1> HIDE DEF R, R2, T, T2, D, D2
<1>5. /\ R2 = (T2 + t2) + (D2 + d2) + parked2 + batch2
      /\ T2 + t2 = sent2 /\ D2 + d2 = freed2
  BY <1>2, <1>3, <1>4
<1> QED
  BY <1>1, <1>5, Zenon DEF Books

\* A worker's part of the state, typed.
LEMMA WorkerParts ==
  ASSUME TypeOK, NEW q \in Queues
  PROVE  /\ stats \in [Queues -> Counters] /\ printed \in [Queues -> Counters]
         /\ rx_bufs \in [Queues -> Seq(Mbufs)] /\ tx_ring \in [Queues -> Seq(Mbufs)]
         /\ tx_buffer \in [Queues -> Seq(Mbufs)] /\ wire \in [Queues -> Seq(Packet)]
         /\ tx_buffer_drops \in [Queues -> Nat] /\ nb_tx \in [Queues -> Nat]
         /\ drops_before \in [Queues -> Nat]
         /\ stats[q] \in Counters /\ printed[q] \in Counters
         /\ wire[q] \in Seq(Packet)
         /\ Len(tx_buffer[q]) \in Nat /\ Len(rx_bufs[q]) \in Nat
         /\ Len(rx_ring[q]) \in Nat
         /\ Len(wire[q]) \in Nat /\ Len(tx_ring[q]) \in Nat
         /\ Len(wire[q]) + Len(tx_ring[q]) \in Nat
         /\ tx_buffer_drops[q] \in Nat /\ nb_tx[q] \in Nat
         /\ drops_before[q] \in Nat
<1>1. /\ stats \in [Queues -> Counters] /\ printed \in [Queues -> Counters]
      /\ rx_bufs \in [Queues -> Seq(Mbufs)] /\ tx_ring \in [Queues -> Seq(Mbufs)]
      /\ tx_buffer \in [Queues -> Seq(Mbufs)] /\ wire \in [Queues -> Seq(Packet)]
      /\ rx_ring \in [Queues -> Seq(Mbufs)]
      /\ tx_buffer_drops \in [Queues -> Nat] /\ nb_tx \in [Queues -> Nat]
      /\ drops_before \in [Queues -> Nat]
  BY DEF TypeOK, PortTypeOK, WorkerTypeOK
<1>2. /\ Len(tx_buffer[q]) \in Nat /\ Len(rx_bufs[q]) \in Nat
      /\ Len(rx_ring[q]) \in Nat
      /\ Len(wire[q]) \in Nat /\ Len(tx_ring[q]) \in Nat
  BY <1>1, LenProperties
<1>3. Len(wire[q]) + Len(tx_ring[q]) \in Nat
  <2> DEFINE out == Len(wire[q])
             ring == Len(tx_ring[q])
  <2>1. out \in Nat /\ ring \in Nat
    BY <1>2
  <2> HIDE DEF out, ring
  <2>2. out + ring \in Nat
    BY <2>1
  <2> QED
    BY <2>2 DEF out, ring
<1> QED
  BY <1>1, <1>2, <1>3

\* What a TX stage has sent and dropped so far.
LEMMA StageTyped ==
  ASSUME TypeOK, BufferInv, NEW q \in Queues
  PROVE  StageSent(q) \in Nat /\ StageDropped(q) \in Nat
<1>1. nb_tx[q] \in Nat /\ tx_buffer_drops[q] \in Nat /\ drops_before[q] \in Nat
  BY WorkerParts
<1>2. pc[q] = "tx" => drops_before[q] <= tx_buffer_drops[q]
  BY DEF BufferInv
<1> QED
  BY <1>1, <1>2 DEF StageSent, StageDropped

\* All that a step of worker q leaves alone.
SameBooks(r) ==
  /\ stats'[r] = stats[r] /\ printed'[r] = printed[r] /\ pc'[r] = pc[r]
  /\ rx_bufs'[r] = rx_bufs[r] /\ tx_ring'[r] = tx_ring[r] /\ wire'[r] = wire[r]
  /\ tx_buffer'[r] = tx_buffer[r] /\ tx_buffer_drops'[r] = tx_buffer_drops[r]
  /\ nb_tx'[r] = nb_tx[r] /\ drops_before'[r] = drops_before[r]

\* A step of worker q leaves the books of the others as they were.
LEMMA OthersInBooks ==
  ASSUME AllInBooks, NEW q \in Queues,
         InBooks(q)', SmallGap(printed[q])',
         \A r \in Queues \ {q} : SameBooks(r)
  PROVE  AllInBooks'
<1>1. ASSUME NEW r \in Queues \ {q}
      PROVE  InBooks(r)' /\ SmallGap(printed[r])'
  <2>1. InBooks(r) /\ SmallGap(printed[r]) /\ SameBooks(r)
    BY DEF AllInBooks
  <2> QED
    BY <2>1 DEF SameBooks, InBooks, StageSent, StageDropped
<1>2. \A r \in Queues : InBooks(r)' /\ SmallGap(printed[r])'
  BY <1>1
<1> QED
  BY <1>2 DEF AllInBooks

\* Nothing is counted at the start.
LEMMA CountInit == Init => CountInv
<1> SUFFICES ASSUME Init PROVE CountInv
  OBVIOUS
<1>1. Inv
  BY InvInit
<1>2. ASSUME NEW q \in Queues PROVE InBooks(q) /\ SmallGap(printed[q])
  <2>1. /\ stats[q] = ZeroCounters /\ printed[q] = ZeroCounters
        /\ StageSent(q) = 0 /\ StageDropped(q) = 0
        /\ Len(tx_buffer[q]) = 0 /\ Len(rx_bufs[q]) = 0
        /\ Len(wire[q]) + Len(tx_ring[q]) = 0 /\ tx_buffer_drops[q] = 0
    BY DEF Init, PortInit, WorkerInit, StageSent, StageDropped
  <2>2. /\ ZeroCounters \in Counters /\ ZeroCounters.rx_packets = 0
        /\ ZeroCounters.tx_packets = 0 /\ ZeroCounters.tx_drops = 0
    BY DEF ZeroCounters, Counters
  <2>3. Books(ZeroCounters, ZeroCounters, 0, 0, 0, 0, 0, 0)
    <3>1. /\ Plus(ZeroCounters, ZeroCounters).rx_packets = 0
          /\ Plus(ZeroCounters, ZeroCounters).tx_packets = 0
          /\ Plus(ZeroCounters, ZeroCounters).tx_drops = 0
      BY <2>2, PlusCounters
    <3> QED
      BY <3>1 DEF Books
  <2>4. InBooks(q)
    BY <2>1, <2>3 DEF InBooks
  <2> QED
    BY <2>1, <2>2, <2>4, TxBufferAssumption DEF SmallGap
<1> QED
  BY <1>1, <1>2 DEF CountInv, AllInBooks

\* The NIC counts nothing: a packet it sends leaves the TX ring for the wire.
LEMMA BooksTransmit ==
  ASSUME CountInv, NEW q \in Queues, Transmit(q),
         UNCHANGED <<workerVars, bufferVars>>
  PROVE  AllInBooks'
<1> DEFINE ring == tx_ring[q]
           out == wire[q]
           rest == Tail(ring)
           p == OnWire(pkt[Head(ring)])
<1>1. TypeOK /\ AllInBooks
  BY DEF CountInv, Inv
<1>2. /\ ring # <<>>
      /\ tx_ring' = [tx_ring EXCEPT ![q] = rest]
      /\ wire' = [wire EXCEPT ![q] = Append(out, p)]
  BY DEF Transmit
<1>3. ring \in Seq(Mbufs) /\ out \in Seq(Packet)
  BY <1>1, WorkerParts
<1>4. /\ \A r \in Queues \ {q} : tx_ring'[r] = tx_ring[r] /\ wire'[r] = wire[r]
      /\ tx_ring'[q] = rest /\ wire'[q] = Append(out, p)
  BY <1>1, <1>2, WorkerParts
<1>5. Len(Append(out, p)) + Len(rest) = Len(out) + Len(ring)
  <2>1. Len(ring) = 1 + Len(rest) /\ rest \in Seq(Mbufs)
    BY <1>2, <1>3, HeadAndTail, Zenon
  <2> HIDE DEF ring, out, rest, p
  <2>2. Len(Append(out, p)) = Len(out) + 1
    BY <1>3
  <2>3. Len(out) \in Nat /\ Len(rest) \in Nat
    BY <1>3, <2>1, LenProperties
  <2> QED
    BY <2>1, <2>2, <2>3
<1>6. /\ stats' = stats /\ printed' = printed /\ pc' = pc /\ rx_bufs' = rx_bufs
      /\ tx_buffer' = tx_buffer /\ tx_buffer_drops' = tx_buffer_drops
      /\ nb_tx' = nb_tx /\ drops_before' = drops_before
  BY DEF workerVars, bufferVars
<1>7. InBooks(q)' /\ SmallGap(printed[q])'
  <2>1. Len(wire'[q]) + Len(tx_ring'[q]) = Len(wire[q]) + Len(tx_ring[q])
    BY <1>4, <1>5
  <2>2. InBooks(q) /\ SmallGap(printed[q])
    BY <1>1 DEF AllInBooks
  <2> QED
    BY <1>6, <2>1, <2>2 DEF InBooks, StageSent, StageDropped
<1>8. \A r \in Queues \ {q} : SameBooks(r)
  BY <1>4, <1>6 DEF SameBooks
<1> QED
  BY <1>1, <1>7, <1>8, OthersInBooks

\* A batch is counted as received when it comes into rx_bufs.
LEMMA BooksRxBurst ==
  ASSUME CountInv, NEW q \in Queues, RxBurst(q), UNCHANGED bufferVars
  PROVE  AllInBooks'
<1> DEFINE s == stats[q]
           p == printed[q]
           parked == Len(tx_buffer[q])
           sent == Len(wire[q]) + Len(tx_ring[q])
           freed == tx_buffer_drops[q]
<1>1. TypeOK /\ NoBatch /\ AllInBooks
  BY DEF CountInv, Inv
<1>2. /\ pc[q] = "poll" /\ pc' = [pc EXCEPT ![q] = "rewrite"]
      /\ UNCHANGED <<tx_ring, wire, printed>>
      /\ UNCHANGED <<tx_buffer, tx_buffer_drops, nb_tx, drops_before>>
  BY DEF RxBurst, Goto, bufferVars
<1>3. PICK nb_rx \in RxBursts(q, BURST_SIZE) :
        /\ rx_bufs' = [rx_bufs EXCEPT ![q] = SubSeq(rx_ring[q], 1, nb_rx)]
        /\ stats' = [stats EXCEPT ![q].rx_packets = @ + nb_rx]
  BY Zenon DEF RxBurst
<1>4. nb_rx \in Nat /\ nb_rx \in 0..Len(rx_ring[q])
  BY <1>1, <1>3, WorkerParts DEF RxBursts
<1> DEFINE s2 == [s EXCEPT !.rx_packets = @ + nb_rx]
<1>5. /\ \A r \in Queues \ {q} : /\ rx_bufs'[r] = rx_bufs[r] /\ stats'[r] = stats[r]
                                /\ pc'[r] = pc[r]
      /\ rx_bufs'[q] = SubSeq(rx_ring[q], 1, nb_rx)
      /\ stats'[q] = s2 /\ pc'[q] = "rewrite"
  BY <1>1, <1>2, <1>3, WorkerParts DEF TypeOK
<1>6. Len(rx_bufs'[q]) = nb_rx
  BY <1>1, <1>4, <1>5, PartsTyped, CutInTwo
<1>7. Books(p, s, 0, 0, parked, 0, sent, freed) /\ SmallGap(p)
  <2>1. Len(rx_bufs[q]) = 0 /\ StageSent(q) = 0 /\ StageDropped(q) = 0
    BY <1>1, <1>2 DEF NoBatch, StageSent, StageDropped
  <2> QED
    BY <1>1, <2>1 DEF AllInBooks, InBooks
<1>8. /\ s \in Counters /\ p \in Counters /\ parked \in Nat /\ sent \in Nat
      /\ freed \in Nat
  BY <1>1, WorkerParts
<1>9. /\ printed'[q] = p /\ Len(wire'[q]) + Len(tx_ring'[q]) = sent
      /\ Len(tx_buffer'[q]) = parked /\ tx_buffer_drops'[q] = freed
      /\ StageSent(q)' = 0 /\ StageDropped(q)' = 0
  BY <1>2, <1>5 DEF StageSent, StageDropped
<1>10. /\ s2 \in Counters /\ s2.rx_packets = s.rx_packets + nb_rx
       /\ s2.tx_packets = s.tx_packets /\ s2.tx_drops = s.tx_drops
  BY <1>4, <1>8, RxCounterGrows
<1> HIDE DEF s, p, parked, sent, freed, s2
<1>11. /\ s.rx_packets \in Nat /\ s.tx_packets \in Nat /\ s.tx_drops \in Nat
       /\ p.rx_packets \in Nat /\ p.tx_packets \in Nat /\ p.tx_drops \in Nat
  BY <1>8 DEF Counters
<1>12. (p.rx_packets + s2.rx_packets) - (parked + nb_rx + sent + freed)
         = (p.rx_packets + s.rx_packets) - (parked + 0 + sent + freed)
  BY <1>4, <1>8, <1>10, <1>11
<1>13. /\ p.tx_packets + s2.tx_packets + 0 - sent
            = p.tx_packets + s.tx_packets + 0 - sent
       /\ p.tx_drops + s2.tx_drops + 0 - freed
            = p.tx_drops + s.tx_drops + 0 - freed
  BY <1>10
<1>14. Books(p, s2, 0, 0, parked, nb_rx, sent, freed)
  BY <1>4, <1>7, <1>8, <1>10, <1>12, <1>13, BooksMove
<1>15. InBooks(q)' /\ SmallGap(printed[q])'
  BY <1>5, <1>6, <1>7, <1>9, <1>14 DEF InBooks
<1>16. \A r \in Queues \ {q} : SameBooks(r)
  BY <1>2, <1>5 DEF SameBooks
<1> QED
  BY <1>1, <1>15, <1>16, OthersInBooks

\* What a send adds to the counts: n packets are in the TX ring, and the
\* others have been freed.
LEMMA SendLengths ==
  ASSUME TypeOK, NEW q \in Queues, NEW bufs \in Seq(Mbufs),
         NEW n \in TxBursts(q, bufs), SendBuffer(q, bufs, n)
  PROVE  /\ n \in Nat /\ Len(bufs) \in Nat /\ Len(bufs) - n \in Nat
         /\ tx_buffer'[q] = <<>>
         /\ tx_buffer_drops'[q] = tx_buffer_drops[q] + (Len(bufs) - n)
         /\ Len(wire'[q]) + Len(tx_ring'[q]) = (Len(wire[q]) + Len(tx_ring[q])) + n
         /\ \A r \in Queues \ {q} : /\ tx_ring'[r] = tx_ring[r]
                                   /\ tx_buffer'[r] = tx_buffer[r]
                                   /\ tx_buffer_drops'[r] = tx_buffer_drops[r]
         /\ wire' = wire
<1> DEFINE front == SubSeq(bufs, 1, n)
           ring == tx_ring[q]
           out == Len(wire[q])
<1>1. n \in 0..Len(bufs) /\ Len(bufs) \in Nat
  BY LenProperties DEF TxBursts
<1>2. /\ tx_ring' = [tx_ring EXCEPT ![q] = ring \o front] /\ wire' = wire
      /\ tx_buffer' = [tx_buffer EXCEPT ![q] = <<>>]
      /\ tx_buffer_drops' = [tx_buffer_drops EXCEPT ![q] = @ + (Len(bufs) - n)]
  BY DEF SendBuffer, SendOrFree
<1>3. /\ tx_ring'[q] = ring \o front /\ tx_buffer'[q] = <<>>
      /\ tx_buffer_drops'[q] = tx_buffer_drops[q] + (Len(bufs) - n)
      /\ \A r \in Queues \ {q} : /\ tx_ring'[r] = tx_ring[r]
                                /\ tx_buffer'[r] = tx_buffer[r]
                                /\ tx_buffer_drops'[r] = tx_buffer_drops[r]
  BY <1>2, WorkerParts
<1>4. ring \in Seq(Mbufs) /\ Len(ring) \in Nat /\ out \in Nat
  BY PartsTyped, WorkerParts
<1>5. front \in Seq(Mbufs) /\ Len(front) = n
  BY <1>1, CutInTwo
<1>6. Len(ring \o front) = Len(ring) + n
  <2> HIDE DEF ring, front
  <2> QED
    BY <1>4, <1>5, ConcatProperties
<1>7. Len(wire'[q]) + Len(tx_ring'[q]) = (out + Len(ring)) + n
  <2>1. Len(wire'[q]) = out /\ Len(tx_ring'[q]) = Len(ring) + n
    BY <1>2, <1>3, <1>6
  <2> HIDE DEF ring, out
  <2> QED
    BY <1>1, <1>4, <2>1
<1>8. n \in Nat /\ Len(bufs) - n \in Nat
  BY <1>1
<1> QED
  BY <1>1, <1>2, <1>3, <1>7, <1>8

\* A flush counts in the interval what it sends and what it frees.
LEMMA BooksFlush ==
  ASSUME CountInv, NEW q \in Queues, FlushTxBuffer(q),
         pc[q] \in {"poll", "flush"}, rx_bufs[q] = <<>>,
         NEW to \in {"report", "loop_end"}, pc' = [pc EXCEPT ![q] = to],
         UNCHANGED <<checksum_mode, rx_bufs, printed, nb_tx, drops_before>>
  PROVE  AllInBooks'
<1> DEFINE s == stats[q]
           p == printed[q]
           buf == tx_buffer[q]
           parked == Len(buf)
           sent == Len(wire[q]) + Len(tx_ring[q])
           freed == tx_buffer_drops[q]
<1>1. TypeOK /\ AllInBooks
  BY DEF CountInv, Inv
<1>2. PICK n \in TxBursts(q, buf) :
        /\ SendBuffer(q, buf, n)
        /\ stats' = [stats EXCEPT ![q].tx_packets = @ + n,
                                  ![q].tx_drops = @ + (parked - n)]
  BY Zenon DEF FlushTxBuffer
<1>3. /\ s \in Counters /\ p \in Counters /\ buf \in Seq(Mbufs)
      /\ sent \in Nat /\ freed \in Nat
  BY <1>1, WorkerParts, PartsTyped
<1> DEFINE k == parked - n
           s2 == [s EXCEPT !.tx_packets = @ + n, !.tx_drops = @ + k]
<1>4. /\ stats'[q] = s2 /\ pc'[q] = to
      /\ \A r \in Queues \ {q} : stats'[r] = stats[r] /\ pc'[r] = pc[r]
  BY <1>1, <1>2, WorkerParts DEF TypeOK
<1>5. /\ n \in Nat /\ parked \in Nat /\ k \in Nat /\ parked = n + k
      /\ tx_buffer'[q] = <<>>
      /\ tx_buffer_drops'[q] = freed + k
      /\ Len(wire'[q]) + Len(tx_ring'[q]) = sent + n
      /\ \A r \in Queues \ {q} : /\ tx_ring'[r] = tx_ring[r]
                                /\ tx_buffer'[r] = tx_buffer[r]
                                /\ tx_buffer_drops'[r] = tx_buffer_drops[r]
      /\ wire' = wire
  <2>1. /\ n \in Nat /\ parked \in Nat /\ k \in Nat
        /\ tx_buffer'[q] = <<>>
        /\ tx_buffer_drops'[q] = freed + k
        /\ Len(wire'[q]) + Len(tx_ring'[q]) = sent + n
        /\ \A r \in Queues \ {q} : /\ tx_ring'[r] = tx_ring[r]
                                  /\ tx_buffer'[r] = tx_buffer[r]
                                  /\ tx_buffer_drops'[r] = tx_buffer_drops[r]
        /\ wire' = wire
    BY <1>1, <1>2, <1>3, SendLengths
  <2>2. parked = n + k
    BY <2>1
  <2> QED
    BY <2>1, <2>2
<1>6. Books(p, s, 0, 0, parked, 0, sent, freed) /\ SmallGap(p)
  <2>1. Len(rx_bufs[q]) = 0 /\ StageSent(q) = 0 /\ StageDropped(q) = 0
    BY DEF StageSent, StageDropped
  <2> QED
    BY <1>1, <2>1 DEF AllInBooks, InBooks
<1>7. /\ printed'[q] = p /\ Len(rx_bufs'[q]) = 0 /\ Len(tx_buffer'[q]) = 0
      /\ StageSent(q)' = 0 /\ StageDropped(q)' = 0
  BY <1>4, <1>5 DEF StageSent, StageDropped
<1>8. \A r \in Queues \ {q} : SameBooks(r)
  BY <1>4, <1>5 DEF SameBooks
<1> HIDE DEF s, p, parked, sent, freed, k
<1>9. /\ s2 \in Counters /\ s2.rx_packets = s.rx_packets
      /\ s2.tx_packets = s.tx_packets + n
      /\ s2.tx_drops = s.tx_drops + k
  <2>1. s \in Counters /\ n \in Nat /\ k \in Nat
    BY <1>3, <1>5
  <2> QED
    BY <2>1, TxCountersGrow, ZenonT(30)
<1> HIDE DEF s2
<1> DEFINE sent2 == sent + n
           freed2 == freed + k
<1>10. sent2 \in Nat /\ freed2 \in Nat
  BY <1>3, <1>5
<1>11. Books(p, s2, 0, 0, 0, 0, sent2, freed2)
  <2>1. /\ s.rx_packets \in Nat /\ s.tx_packets \in Nat /\ s.tx_drops \in Nat
        /\ p.rx_packets \in Nat /\ p.tx_packets \in Nat /\ p.tx_drops \in Nat
    BY <1>3 DEF Counters
  <2>2. (p.rx_packets + s2.rx_packets) - (0 + 0 + sent2 + freed2)
          = (p.rx_packets + s.rx_packets) - (parked + 0 + sent + freed)
    BY <1>3, <1>5, <1>9, <2>1
  <2>3. p.tx_packets + s2.tx_packets + 0 - sent2
          = p.tx_packets + s.tx_packets + 0 - sent
    BY <1>3, <1>5, <1>9, <2>1
  <2>4. p.tx_drops + s2.tx_drops + 0 - freed2
          = p.tx_drops + s.tx_drops + 0 - freed
    BY <1>3, <1>5, <1>9, <2>1
  <2> HIDE DEF sent2, freed2
  <2> QED
    BY <1>3, <1>5, <1>6, <1>9, <1>10, <2>2, <2>3, <2>4, BooksMove
<1>12. InBooks(q)' /\ SmallGap(printed[q])'
  BY <1>4, <1>5, <1>6, <1>7, <1>11 DEF InBooks
<1> QED
  BY <1>1, <1>8, <1>12, OthersInBooks

\* A TX stage begins with nothing sent and nothing dropped.
LEMMA BooksChecksum ==
  ASSUME CountInv, NEW q \in Queues, ChecksumThenTx(q)
  PROVE  AllInBooks'
<1>1. TypeOK /\ AllInBooks
  BY DEF CountInv, Inv
<1>2. /\ pc[q] = "checksum" /\ pc' = [pc EXCEPT ![q] = "tx"]
      /\ UNCHANGED <<stats, printed, rx_bufs, tx_ring, wire>>
      /\ UNCHANGED <<tx_buffer, tx_buffer_drops>>
      /\ nb_tx' = [nb_tx EXCEPT ![q] = 0]
      /\ drops_before' = [drops_before EXCEPT ![q] = tx_buffer_drops[q]]
  BY DEF ChecksumThenTx, Checksum, Goto
<1>3. /\ pc'[q] = "tx" /\ nb_tx'[q] = 0 /\ drops_before'[q] = tx_buffer_drops[q]
      /\ \A r \in Queues \ {q} : /\ pc'[r] = pc[r] /\ nb_tx'[r] = nb_tx[r]
                                /\ drops_before'[r] = drops_before[r]
  BY <1>1, <1>2, WorkerParts DEF TypeOK
<1>4. /\ StageSent(q) = 0 /\ StageSent(q)' = 0
      /\ StageDropped(q) = 0 /\ StageDropped(q)' = 0
  <2>1. StageSent(q) = 0 /\ StageSent(q)' = 0 /\ StageDropped(q) = 0
    BY <1>2, <1>3 DEF StageSent, StageDropped
  <2>2. /\ StageDropped(q)' = tx_buffer_drops[q] - tx_buffer_drops[q]
        /\ tx_buffer_drops[q] \in Nat
    BY <1>1, <1>2, <1>3, WorkerParts DEF StageDropped
  <2> QED
    BY <2>1, <2>2
<1>5. InBooks(q) /\ SmallGap(printed[q])
  BY <1>1 DEF AllInBooks
<1>6. InBooks(q)' /\ SmallGap(printed[q])'
  BY <1>2, <1>4, <1>5 DEF InBooks
<1>7. \A r \in Queues \ {q} : SameBooks(r)
  BY <1>2, <1>3 DEF SameBooks
<1> QED
  BY <1>1, <1>6, <1>7, OthersInBooks

\* A packet goes from the batch to the buffer; if the buffer is sent, nb_tx and
\* the callback's counter account for all that was in it.
LEMMA BooksTxBuffer ==
  ASSUME CountInv, NEW q \in Queues, TxBuffer(q)
  PROVE  AllInBooks'
<1> DEFINE s == stats[q]
           p == printed[q]
           t == StageSent(q)
           d == StageDropped(q)
           parked == Len(tx_buffer[q])
           batch == Len(rx_bufs[q])
           batch2 == Len(Tail(rx_bufs[q]))
           sent == Len(wire[q]) + Len(tx_ring[q])
           freed == tx_buffer_drops[q]
           bufs == Append(tx_buffer[q], Head(rx_bufs[q]))
<1>1. TypeOK /\ BufferInv /\ AllInBooks
  BY DEF CountInv, Inv
<1>2. /\ pc[q] = "tx" /\ rx_bufs[q] # <<>>
      /\ rx_bufs' = [rx_bufs EXCEPT ![q] = Tail(@)]
      /\ UNCHANGED <<pc, stats, printed, drops_before>>
  BY DEF TxBuffer
<1>3. /\ s \in Counters /\ p \in Counters /\ t \in Nat /\ d \in Nat
      /\ parked \in Nat /\ batch \in Nat /\ sent \in Nat /\ freed \in Nat
  BY <1>1, WorkerParts, StageTyped
<1>4. Books(p, s, t, d, parked, batch, sent, freed) /\ SmallGap(p)
  BY <1>1 DEF AllInBooks, InBooks
<1>5. /\ tx_buffer[q] \in Seq(Mbufs) /\ rx_bufs[q] \in Seq(Mbufs)
      /\ Head(rx_bufs[q]) \in Mbufs /\ Tail(rx_bufs[q]) \in Seq(Mbufs)
      /\ batch = 1 + batch2
  <2>1. tx_buffer[q] \in Seq(Mbufs) /\ rx_bufs[q] \in Seq(Mbufs)
    BY <1>1, PartsTyped
  <2> QED
    BY <1>2, <2>1, HeadAndTail
<1>6. bufs \in Seq(Mbufs) /\ Len(bufs) = parked + 1
  BY <1>5, AppendProperties
<1>7. batch2 \in Nat
  BY <1>5, LenProperties
<1>8. /\ rx_bufs'[q] = Tail(rx_bufs[q])
      /\ \A r \in Queues \ {q} : rx_bufs'[r] = rx_bufs[r]
  BY <1>1, <1>2, WorkerParts
<1>9. /\ t = nb_tx[q] /\ d = tx_buffer_drops[q] - drops_before[q]
      /\ StageSent(q)' = nb_tx'[q]
      /\ StageDropped(q)' = tx_buffer_drops'[q] - drops_before'[q]
  BY <1>2 DEF StageSent, StageDropped
<1>10. /\ s.rx_packets \in Nat /\ s.tx_packets \in Nat /\ s.tx_drops \in Nat
       /\ p.rx_packets \in Nat /\ p.tx_packets \in Nat /\ p.tx_drops \in Nat
  BY <1>3 DEF Counters
<1>11. CASE /\ tx_buffer' = [tx_buffer EXCEPT ![q] = bufs]
            /\ UNCHANGED <<portVars, tx_buffer_drops, nb_tx>>
  <2>1. /\ tx_buffer'[q] = bufs
        /\ \A r \in Queues \ {q} : tx_buffer'[r] = tx_buffer[r]
    BY <1>1, <1>11, WorkerParts
  <2>2. \A r \in Queues \ {q} : SameBooks(r)
    BY <1>2, <1>8, <1>11, <2>1 DEF SameBooks, portVars
  <2>3. /\ printed'[q] = p /\ stats'[q] = s
        /\ StageSent(q)' = t /\ StageDropped(q)' = d
        /\ Len(tx_buffer'[q]) = parked + 1 /\ Len(rx_bufs'[q]) = batch2
        /\ Len(wire'[q]) + Len(tx_ring'[q]) = sent /\ tx_buffer_drops'[q] = freed
    BY <1>2, <1>6, <1>8, <1>9, <1>11, <2>1 DEF portVars
  <2> HIDE DEF s, p, t, d, parked, batch, batch2, sent, freed, bufs
  <2> DEFINE parked2 == parked + 1
  <2>4. parked2 \in Nat
    BY <1>3
  <2>5. (p.rx_packets + s.rx_packets) - (parked2 + batch2 + sent + freed)
          = (p.rx_packets + s.rx_packets) - (parked + batch + sent + freed)
    BY <1>3, <1>5, <1>7, <1>10
  <2> HIDE DEF parked2
  <2>6. Books(p, s, t, d, parked2, batch2, sent, freed)
    BY <1>3, <1>4, <1>7, <2>4, <2>5, BooksMove
  <2>7. InBooks(q)' /\ SmallGap(printed[q])'
    BY <1>4, <2>3, <2>6 DEF InBooks, parked2
  <2> QED
    BY <1>1, <2>2, <2>7, OthersInBooks
<1>12. ASSUME NEW n \in TxBursts(q, bufs), SendBuffer(q, bufs, n),
              nb_tx' = [nb_tx EXCEPT ![q] = @ + n]
       PROVE  AllInBooks'
  <2> DEFINE k == Len(bufs) - n
             t2 == t + n
             d2 == d + k
             sent2 == sent + n
             freed2 == freed + k
  <2>1. /\ n \in Nat /\ Len(bufs) \in Nat /\ k \in Nat
        /\ tx_buffer'[q] = <<>>
        /\ tx_buffer_drops'[q] = freed2
        /\ Len(wire'[q]) + Len(tx_ring'[q]) = sent2
        /\ \A r \in Queues \ {q} : /\ tx_ring'[r] = tx_ring[r]
                                  /\ tx_buffer'[r] = tx_buffer[r]
                                  /\ tx_buffer_drops'[r] = tx_buffer_drops[r]
        /\ wire' = wire
    <3> HIDE DEF bufs
    <3> QED
      BY <1>1, <1>6, <1>12, SendLengths
  <2>2. n + k = parked + 1
    BY <1>6, <2>1
  <2>3. /\ nb_tx'[q] = nb_tx[q] + n
        /\ \A r \in Queues \ {q} : nb_tx'[r] = nb_tx[r]
    BY <1>1, <1>12, WorkerParts
  <2>4. StageSent(q)' = t2
    BY <1>9, <2>3
  <2>5. StageDropped(q)' = d2
    <3>1. /\ drops_before'[q] = drops_before[q]
          /\ drops_before[q] \in Nat /\ tx_buffer_drops[q] \in Nat
      BY <1>1, <1>2, WorkerParts
    <3>2. StageDropped(q)' = (tx_buffer_drops[q] + k) - drops_before[q]
      BY <1>9, <2>1, <3>1
    <3> HIDE DEF k
    <3> QED
      BY <1>9, <2>1, <3>1, <3>2
  <2>6. \A r \in Queues \ {q} : SameBooks(r)
    BY <1>2, <1>8, <2>1, <2>3 DEF SameBooks
  <2>7. /\ printed'[q] = p /\ stats'[q] = s
        /\ Len(tx_buffer'[q]) = 0 /\ Len(rx_bufs'[q]) = batch2
    BY <1>2, <1>8, <2>1
  <2> HIDE DEF s, p, t, d, parked, batch, batch2, sent, freed, bufs, k
  <2>8. t2 \in Nat /\ d2 \in Nat /\ sent2 \in Nat /\ freed2 \in Nat
    BY <1>3, <2>1
  <2>9. (p.rx_packets + s.rx_packets) - (0 + batch2 + sent2 + freed2)
          = (p.rx_packets + s.rx_packets) - (parked + batch + sent + freed)
    <3>1. batch2 + (n + k) = parked + batch
      BY <1>3, <1>5, <1>7, <2>2
    <3>2. 0 + batch2 + sent2 + freed2 = parked + batch + sent + freed
      BY <1>3, <1>7, <2>1, <3>1
    <3> QED
      BY <3>2
  <2>10. p.tx_packets + s.tx_packets + t2 - sent2
           = p.tx_packets + s.tx_packets + t - sent
    BY <1>3, <1>10, <2>1
  <2>11. p.tx_drops + s.tx_drops + d2 - freed2
           = p.tx_drops + s.tx_drops + d - freed
    BY <1>3, <1>10, <2>1
  <2> HIDE DEF t2, d2, sent2, freed2
  <2>12. Books(p, s, t2, d2, 0, batch2, sent2, freed2)
    BY <1>3, <1>4, <1>7, <2>8, <2>9, <2>10, <2>11, BooksMove
  <2>13. InBooks(q)' /\ SmallGap(printed[q])'
    BY <1>4, <2>1, <2>4, <2>5, <2>7, <2>12 DEF InBooks
  <2> QED
    BY <1>1, <2>6, <2>13, OthersInBooks
<1> QED
  BY <1>11, <1>12, Zenon DEF TxBuffer

\* The end of a TX stage moves its counts to the interval.
LEMMA BooksTxEnd ==
  ASSUME CountInv, NEW q \in Queues, TxEnd(q)
  PROVE  AllInBooks'
<1> DEFINE s == stats[q]
           p == printed[q]
           t == StageSent(q)
           d == StageDropped(q)
           parked == Len(tx_buffer[q])
           batch == Len(rx_bufs[q])
           sent == Len(wire[q]) + Len(tx_ring[q])
           freed == tx_buffer_drops[q]
           s2 == [s EXCEPT !.tx_packets = @ + t, !.tx_drops = @ + d]
<1>1. TypeOK /\ BufferInv /\ AllInBooks
  BY DEF CountInv, Inv
<1>2. /\ pc[q] = "tx" /\ stats' = [stats EXCEPT ![q] = s2]
      /\ UNCHANGED <<portVars, rx_bufs, printed, bufferVars>>
  BY DEF TxEnd, StageSent, StageDropped
<1>3. PICK to \in {"flush", "loop_end"} : pc' = [pc EXCEPT ![q] = to]
  BY DEF TxEnd
<1>4. /\ stats'[q] = s2 /\ pc'[q] = to
      /\ \A r \in Queues \ {q} : stats'[r] = stats[r] /\ pc'[r] = pc[r]
  BY <1>1, <1>2, <1>3, WorkerParts DEF TypeOK
<1>5. /\ s \in Counters /\ p \in Counters /\ t \in Nat /\ d \in Nat
      /\ parked \in Nat /\ batch \in Nat /\ sent \in Nat /\ freed \in Nat
  BY <1>1, WorkerParts, StageTyped
<1>6. Books(p, s, t, d, parked, batch, sent, freed) /\ SmallGap(p)
  BY <1>1 DEF AllInBooks, InBooks
<1>7. /\ StageSent(q)' = 0 /\ StageDropped(q)' = 0
      /\ printed'[q] = p /\ Len(tx_buffer'[q]) = parked
      /\ Len(rx_bufs'[q]) = batch
      /\ Len(wire'[q]) + Len(tx_ring'[q]) = sent /\ tx_buffer_drops'[q] = freed
  BY <1>2, <1>4 DEF StageSent, StageDropped, portVars, bufferVars
<1>8. \A r \in Queues \ {q} : SameBooks(r)
  BY <1>2, <1>4 DEF SameBooks, portVars, bufferVars
<1> HIDE DEF s, p, t, d, parked, batch, sent, freed
<1>9. /\ s2 \in Counters /\ s2.rx_packets = s.rx_packets
      /\ s2.tx_packets = s.tx_packets + t /\ s2.tx_drops = s.tx_drops + d
  <2>1. s \in Counters /\ t \in Nat /\ d \in Nat
    BY <1>5
  <2> QED
    BY <2>1, TxCountersGrow, ZenonT(30)
<1> HIDE DEF s2
<1>10. Books(p, s2, 0, 0, parked, batch, sent, freed)
  <2>1. /\ s.rx_packets \in Nat /\ s.tx_packets \in Nat /\ s.tx_drops \in Nat
        /\ p.rx_packets \in Nat /\ p.tx_packets \in Nat /\ p.tx_drops \in Nat
    BY <1>5 DEF Counters
  <2>2. (p.rx_packets + s2.rx_packets) - (parked + batch + sent + freed)
          = (p.rx_packets + s.rx_packets) - (parked + batch + sent + freed)
    BY <1>9
  <2>3. p.tx_packets + s2.tx_packets + 0 - sent
          = p.tx_packets + s.tx_packets + t - sent
    BY <1>5, <1>9, <2>1
  <2>4. p.tx_drops + s2.tx_drops + 0 - freed
          = p.tx_drops + s.tx_drops + d - freed
    BY <1>5, <1>9, <2>1
  <2> QED
    BY <1>5, <1>6, <1>9, <2>2, <2>3, <2>4, BooksMove
<1>11. InBooks(q)' /\ SmallGap(printed[q])'
  BY <1>4, <1>6, <1>7, <1>10 DEF InBooks
<1> QED
  BY <1>1, <1>8, <1>11, OthersInBooks

\* A report moves the counts of the interval to those printed.  It is made when
\* no batch is under way, so that only what is parked is missing from it.
LEMMA BooksReport ==
  ASSUME CountInv, NEW q \in Queues, MaybeReport(q), rx_bufs[q] = <<>>,
         pc[q] # "tx", pc' = [pc EXCEPT ![q] = "poll"],
         UNCHANGED <<portVars, checksum_mode, rx_bufs, bufferVars>>
  PROVE  AllInBooks'
<1> DEFINE s == stats[q]
           p == printed[q]
           parked == Len(tx_buffer[q])
           sent == Len(wire[q]) + Len(tx_ring[q])
           freed == tx_buffer_drops[q]
<1>1. TypeOK /\ BufferInv /\ AllInBooks
  BY DEF CountInv, Inv
<1>2. /\ tx_ring' = tx_ring /\ wire' = wire /\ tx_buffer' = tx_buffer
      /\ tx_buffer_drops' = tx_buffer_drops /\ nb_tx' = nb_tx
      /\ drops_before' = drops_before /\ rx_bufs' = rx_bufs
  BY DEF portVars, bufferVars
<1>3. pc'[q] = "poll" /\ \A r \in Queues \ {q} : pc'[r] = pc[r]
  BY <1>1 DEF TypeOK
<1>4. /\ StageSent(q) = 0 /\ StageSent(q)' = 0
      /\ StageDropped(q) = 0 /\ StageDropped(q)' = 0
      /\ Len(rx_bufs[q]) = 0
  BY <1>3 DEF StageSent, StageDropped
<1>5. Books(p, s, 0, 0, parked, 0, sent, freed) /\ SmallGap(p)
  BY <1>1, <1>4 DEF AllInBooks, InBooks
<1>6. CASE UNCHANGED <<stats, printed>>
  <2>1. InBooks(q)' /\ SmallGap(printed[q])'
    BY <1>2, <1>4, <1>5, <1>6 DEF InBooks
  <2>2. \A r \in Queues \ {q} : SameBooks(r)
    BY <1>2, <1>3, <1>6 DEF SameBooks
  <2> QED
    BY <1>1, <2>1, <2>2, OthersInBooks
<1>7. CASE Report(q)
  <2> DEFINE p2 == Plus(p, s)
             z == ZeroCounters
  <2>1. /\ printed'[q] = p2 /\ stats'[q] = z
        /\ \A r \in Queues \ {q} : printed'[r] = printed[r] /\ stats'[r] = stats[r]
    BY <1>1, <1>7, WorkerParts DEF Report
  <2>2. \A r \in Queues \ {q} : SameBooks(r)
    BY <1>2, <1>3, <2>1 DEF SameBooks
  <2>3. /\ s \in Counters /\ p \in Counters /\ parked \in Nat /\ sent \in Nat
        /\ freed \in Nat /\ parked < TX_BUFFER_SIZE /\ TX_BUFFER_SIZE \in Nat
    BY <1>1, WorkerParts, TxBufferAssumption DEF BufferInv
  <2>4. /\ Len(tx_buffer'[q]) = parked /\ Len(rx_bufs'[q]) = 0
        /\ Len(wire'[q]) + Len(tx_ring'[q]) = sent
        /\ tx_buffer_drops'[q] = freed
    BY <1>2, <1>4
  <2> HIDE DEF s, p, parked, sent, freed
  <2>5. /\ p2 \in Counters
        /\ p2.rx_packets = p.rx_packets + s.rx_packets
        /\ p2.tx_packets = p.tx_packets + s.tx_packets
        /\ p2.tx_drops = p.tx_drops + s.tx_drops
    BY <2>3, PlusCounters
  <2>6. /\ p2.rx_packets = (p2.tx_packets + 0) + (p2.tx_drops + 0) + parked + 0
        /\ p2.rx_packets \in Nat /\ p2.tx_packets \in Nat /\ p2.tx_drops \in Nat
    <3>1. p2.rx_packets \in Nat /\ p2.tx_packets \in Nat /\ p2.tx_drops \in Nat
      BY <2>5 DEF Counters
    <3> QED
      BY <1>5, <3>1 DEF Books
  <2>7. /\ z \in Counters
        /\ z.rx_packets = 0 /\ z.tx_packets = 0 /\ z.tx_drops = 0
    BY DEF ZeroCounters, Counters
  <2> HIDE DEF p2, z
  <2>8. Books(p2, z, 0, 0, parked, 0, sent, freed)
    <3>1. /\ Plus(p2, z).rx_packets = p2.rx_packets + z.rx_packets
          /\ Plus(p2, z).tx_packets = p2.tx_packets + z.tx_packets
          /\ Plus(p2, z).tx_drops = p2.tx_drops + z.tx_drops
      BY <2>5, <2>7, PlusCounters
    <3>2. /\ Plus(p2, z).rx_packets = p2.rx_packets
          /\ Plus(p2, z).tx_packets = p2.tx_packets
          /\ Plus(p2, z).tx_drops = p2.tx_drops
      BY <2>6, <2>7, <3>1
    <3> QED
      BY <1>5, <3>2 DEF Books, p2
  <2>9. SmallGap(p2)
    BY <2>3, <2>6 DEF SmallGap
  <2>10. InBooks(q)' /\ SmallGap(printed[q])'
    BY <1>4, <2>1, <2>4, <2>8, <2>9 DEF InBooks
  <2> QED
    BY <1>1, <2>2, <2>10, OthersInBooks
<1> QED
  BY <1>6, <1>7 DEF MaybeReport

\* Every step keeps the books,
LEMMA CountNext == CountInv /\ [Next]_vars => CountInv'
<1> SUFFICES ASSUME CountInv, [Next]_vars PROVE CountInv'
  OBVIOUS
<1>1. Inv'
  BY InvNext DEF CountInv
<1>2. AllInBooks /\ NoBatch
  BY DEF CountInv, Inv
<1>3. ASSUME UNCHANGED <<pc, rx_bufs, stats, printed, tx_ring, wire, bufferVars>>
      PROVE  AllInBooks'
  BY <1>2, <1>3 DEF AllInBooks, InBooks, StageSent, StageDropped, bufferVars
<1>4. ASSUME NEW h \in Traffic, Deliver(h), UNCHANGED <<workerVars, bufferVars>>
      PROVE  AllInBooks'
  BY <1>3, <1>4 DEF Deliver, workerVars
<1>5. ASSUME NEW q \in Queues, Transmit(q), UNCHANGED <<workerVars, bufferVars>>
      PROVE  AllInBooks'
  BY <1>5, BooksTransmit
<1>6. ASSUME NEW q \in Queues, EmptyPoll(q) PROVE AllInBooks'
  <2>1. pc[q] = "poll" /\ rx_bufs[q] = <<>>
    BY <1>2, <1>6 DEF EmptyPoll, Goto, NoBatch
  <2> QED
    BY <1>6, <2>1, BooksFlush DEF EmptyPoll, Goto
<1>7. ASSUME NEW q \in Queues, RxBurst(q), UNCHANGED bufferVars
      PROVE  AllInBooks'
  BY <1>7, BooksRxBurst
<1>8. ASSUME NEW q \in Queues, Rewrite(q), UNCHANGED bufferVars
      PROVE  AllInBooks'
  <2>1. pc[q] = "rewrite" /\ pc' = [pc EXCEPT ![q] = "checksum"]
    BY <1>8 DEF Rewrite, Goto
  <2>2. /\ rx_bufs' = rx_bufs /\ stats' = stats /\ printed' = printed
        /\ tx_ring' = tx_ring /\ wire' = wire /\ tx_buffer' = tx_buffer
        /\ tx_buffer_drops' = tx_buffer_drops /\ nb_tx' = nb_tx
        /\ drops_before' = drops_before
    BY <1>8 DEF Rewrite, bufferVars
  <2>3. pc'[q] = "checksum" /\ \A r \in Queues \ {q} : pc'[r] = pc[r]
    BY <2>1 DEF CountInv, Inv, TypeOK
  <2>4. /\ StageSent(q)' = StageSent(q) /\ StageDropped(q)' = StageDropped(q)
    BY <2>1, <2>3 DEF StageSent, StageDropped
  <2>5. InBooks(q)' /\ SmallGap(printed[q])'
    BY <1>2, <2>2, <2>4 DEF AllInBooks, InBooks
  <2>6. \A r \in Queues \ {q} : SameBooks(r)
    BY <2>2, <2>3 DEF SameBooks
  <2> QED
    BY <1>2, <2>5, <2>6, OthersInBooks
<1>9. ASSUME NEW q \in Queues, ChecksumThenTx(q) PROVE AllInBooks'
  BY <1>9, BooksChecksum
<1>10. ASSUME NEW q \in Queues, TxBuffer(q) PROVE AllInBooks'
  BY <1>10, BooksTxBuffer
<1>11. ASSUME NEW q \in Queues, TxEnd(q) PROVE AllInBooks'
  BY <1>11, BooksTxEnd
<1>12. ASSUME NEW q \in Queues, FlushBeforeReport(q) PROVE AllInBooks'
  <2>1. pc[q] = "flush" /\ rx_bufs[q] = <<>>
    BY <1>2, <1>12 DEF FlushBeforeReport, Goto, NoBatch
  <2> QED
    BY <1>12, <2>1, BooksFlush DEF FlushBeforeReport, Goto
<1>13. ASSUME NEW q \in Queues, DueReport(q) PROVE AllInBooks'
  <2>1. pc[q] # "tx" /\ rx_bufs[q] = <<>>
    BY <1>2, <1>13 DEF DueReport, Goto, NoBatch
  <2> QED
    BY <1>13, <2>1, BooksReport DEF DueReport, Goto, MaybeReport
<1>14. ASSUME NEW q \in Queues, LoopEnd(q), UNCHANGED bufferVars
       PROVE  AllInBooks'
  <2>1. pc[q] # "tx" /\ rx_bufs[q] = <<>>
    BY <1>2, <1>14 DEF LoopEnd, Goto, NoBatch
  <2> QED
    BY <1>14, <2>1, BooksReport DEF LoopEnd, Goto
<1>15. ASSUME UNCHANGED vars PROVE AllInBooks'
  BY <1>3, <1>15 DEF vars, portVars, workerVars
<1>16. AllInBooks'
  BY <1>4, <1>5, <1>6, <1>7, <1>8, <1>9, <1>10, <1>11, <1>12, <1>13, <1>14, <1>15
  DEF Next, Nic, Worker
<1> QED
  BY <1>1, <1>16 DEF CountInv

\* and so they are always right.
LEMMA Accounting == Spec => [](CountersBalance /\ ReportGap)
<1>1. Init => CountInv
  BY CountInit
<1>2. CountInv /\ [Next]_vars => CountInv'
  BY CountNext
<1>3. CountInv => CountersBalance /\ ReportGap
  BY BooksAreBalance DEF CountInv
<1> QED
  BY <1>1, <1>2, <1>3, PTL DEF Spec

\* The counters of a worker of the txbuf servers account for every packet
\* polled: it is sent, dropped, parked or still in rx_bufs; and every drop that
\* the callback has counted is in tx_drops once.
THEOREM CountersAddUp == Spec => []CountersBalance
BY Accounting, PTL

\* The [profile] lines of a worker lag behind by what is parked, which is less
\* than a full buffer, however many lines there are.
THEOREM ReportsLagLittle == Spec => []ReportGap
BY Accounting, PTL

------------------------------------------------------------------------------
(* The checksum fields.  A packet is good until the checksum stage and     *)
(* finished for its mode from there on, and stays so in the buffer for as  *)
(* long as it is parked, because nobody but its holder writes into its     *)
(* mbuf.                                                                   *)

ChecksumsOf(q) ==
  /\ \A m \in Range(rx_ring[q]) : pkt[m].cksum = "good"
  /\ \A m \in Range(rx_bufs[q]) :
       pkt[m].cksum = IF pc[q] = "tx" THEN Finished ELSE "good"
  /\ \A m \in Range(tx_buffer[q]) : pkt[m].cksum = Finished
  /\ \A m \in Range(tx_ring[q]) : pkt[m].cksum = Finished

CksumInv == Inv /\ (\A q \in Queues : ChecksumsOf(q)) /\ WireChecksums

\* WireChecksums, by the name that the lemmas give to the right state.
LEMMA WireByName ==
  WireChecksums <=> \A q \in Queues : \A i \in 1..Len(wire[q]) :
                      wire[q][i].cksum = OnTheWire
BY DEF WireChecksums, OnTheWire

\* A wire that does not change, in a mode that does not either.
LEMMA SameWire ==
  ASSUME WireChecksums, wire' = wire, checksum_mode' = checksum_mode
  PROVE  WireChecksums'
BY DEF WireChecksums

\* The packets of the other queues keep their fields when only free mbufs and
\* mbufs of queue q are written.
LEMMA OthersKeepChecksums ==
  ASSUME CksumInv, NEW q \in Queues, NEW r \in Queues \ {q},
         rx_bufs'[r] = rx_bufs[r], rx_ring'[r] = rx_ring[r],
         tx_ring'[r] = tx_ring[r], tx_buffer'[r] = tx_buffer[r],
         pc'[r] = pc[r], checksum_mode' = checksum_mode,
         \A m \in Mbufs \ (pool \union Range(Held[q])) : pkt'[m] = pkt[m]
  PROVE  ChecksumsOf(r)'
<1>1. /\ Range(Held[r]) \subseteq Mbufs \ pool
      /\ Range(Held[r]) = Range(tx_ring[r]) \union Range(tx_buffer[r])
                            \union Range(rx_bufs[r]) \union Range(rx_ring[r])
  BY HeldNotFree, WhereHeld DEF CksumInv, Inv
<1>2. Range(Held[r]) \intersect Range(Held[q]) = {}
  BY DEF CksumInv, Inv, MbufOwnership, OwnedOnce
<1>3. \A m \in Range(Held[r]) : pkt'[m] = pkt[m]
  BY <1>1, <1>2
<1> QED
  BY <1>1, <1>3 DEF CksumInv, ChecksumsOf, Finished

\* A new packet is good.
LEMMA CksumDeliver ==
  ASSUME CksumInv, Inv', NEW h \in Traffic, Deliver(h),
         UNCHANGED <<workerVars, bufferVars>>
  PROVE  CksumInv'
<1> DEFINE q == Rss[h]
           p == [id |-> Len(requests) + 1, src |-> h.src, dst |-> h.dst,
                 cksum |-> "good"]
<1>1. PICK m \in pool :
        /\ rx_ring' = [rx_ring EXCEPT ![q] = Append(@, m)]
        /\ pkt' = [pkt EXCEPT ![m] = p]
  BY Zenon DEF Deliver
<1>2. /\ UNCHANGED <<tx_ring, wire, tx_buffer>>
      /\ UNCHANGED <<checksum_mode, pc, rx_bufs>>
  BY DEF Deliver, workerVars, bufferVars
<1>3. TypeOK /\ MbufOwnership
  BY DEF CksumInv, Inv
<1>4. p.cksum = "good"
  OBVIOUS
<1>5. q \in Queues /\ m \in Mbufs
  BY <1>3, PortAssumption DEF TypeOK, PortTypeOK
<1> HIDE DEF q, p
<1>6. /\ rx_ring'[q] = Append(rx_ring[q], m)
      /\ \A r \in Queues \ {q} : rx_ring'[r] = rx_ring[r]
      /\ pkt'[m] = p /\ \A n \in Mbufs \ {m} : pkt'[n] = pkt[n]
  BY <1>1, <1>3, <1>5 DEF TypeOK, PortTypeOK
<1>7. ChecksumsOf(q)'
  <2>1. Range(rx_ring'[q]) = Range(rx_ring[q]) \union {m}
    <3>1. rx_ring[q] \in Seq(Mbufs)
      BY <1>3, <1>5, PartsTyped
    <3> QED
      BY <1>5, <1>6, <3>1, RangeAppend
  <2>2. /\ Range(tx_ring[q]) \subseteq Mbufs \ pool
        /\ Range(tx_buffer[q]) \subseteq Mbufs \ pool
        /\ Range(rx_bufs[q]) \subseteq Mbufs \ pool
        /\ Range(rx_ring[q]) \subseteq Mbufs \ pool
    BY <1>3, <1>5, OwnApart
  <2>3. ChecksumsOf(q)
    BY <1>5 DEF CksumInv
  <2> QED
    BY <1>1, <1>2, <1>4, <1>6, <2>1, <2>2, <2>3 DEF ChecksumsOf, Finished
<1>8. ASSUME NEW r \in Queues \ {q} PROVE ChecksumsOf(r)'
  BY <1>1, <1>2, <1>5, <1>6, OthersKeepChecksums
<1>9. WireChecksums'
  BY <1>2, SameWire DEF CksumInv
<1> QED
  BY <1>7, <1>8, <1>9 DEF CksumInv

\* What the NIC sends was finished.
LEMMA CksumTransmit ==
  ASSUME CksumInv, Inv', NEW q \in Queues, Transmit(q),
         UNCHANGED <<workerVars, bufferVars>>
  PROVE  CksumInv'
<1> DEFINE m == Head(tx_ring[q])
<1>1. /\ tx_ring[q] # <<>>
      /\ tx_ring' = [tx_ring EXCEPT ![q] = Tail(@)]
      /\ wire' = [wire EXCEPT ![q] = Append(@, OnWire(pkt[m]))]
      /\ pkt' = [n \in Mbufs |-> IF n \in Range(<<m>>) THEN NoPacket ELSE pkt[n]]
      /\ UNCHANGED <<rx_ring, tx_buffer, checksum_mode, pc, rx_bufs>>
  BY Zenon DEF Transmit, FreeAll, workerVars, bufferVars
<1>2. TypeOK /\ MbufOwnership /\ HeldCarry
  BY DEF CksumInv, Inv
<1>3. /\ tx_ring[q] \in Seq(Mbufs) /\ IsInjective(tx_ring[q])
      /\ Range(tx_ring[q]) \intersect Range(tx_buffer[q]) = {}
      /\ Range(tx_ring[q]) \intersect Range(rx_bufs[q]) = {}
      /\ Range(tx_ring[q]) \intersect Range(rx_ring[q]) = {}
      /\ Range(tx_ring[q]) \subseteq Mbufs \ pool
      /\ Range(tx_ring[q]) \subseteq Range(Held[q])
      /\ \A n \in Range(tx_buffer[q]) \union Range(rx_bufs[q])
                    \union Range(rx_ring[q]) : n \in Mbufs
  BY <1>2, PartsTyped, OwnApart, WhereHeld
<1>4. m \in Mbufs /\ Tail(tx_ring[q]) \in Seq(Mbufs) /\ Range(<<m>>) = {m}
  BY <1>1, <1>3, HeadAndTail
<1>5. /\ Range(tx_ring[q]) = {m} \union Range(Tail(tx_ring[q]))
      /\ m \notin Range(Tail(tx_ring[q]))
  BY <1>1, <1>3, RangeOfTail
<1>6. m \notin Range(tx_buffer[q]) \union Range(rx_bufs[q]) \union Range(rx_ring[q])
  BY <1>3, <1>5
<1> HIDE DEF m
<1>7. /\ tx_ring'[q] = Tail(tx_ring[q])
      /\ \A r \in Queues \ {q} : tx_ring'[r] = tx_ring[r]
      /\ \A n \in Mbufs \ {m} : pkt'[n] = pkt[n]
  BY <1>1, <1>2, <1>4 DEF TypeOK, PortTypeOK
<1>8. ChecksumsOf(q)'
  <2>1. ChecksumsOf(q)
    BY DEF CksumInv
  <2> QED
    BY <1>1, <1>3, <1>5, <1>6, <1>7, <2>1 DEF ChecksumsOf, Finished
<1>9. ASSUME NEW r \in Queues \ {q} PROVE ChecksumsOf(r)'
  BY <1>1, <1>3, <1>5, <1>7, OthersKeepChecksums
<1>10. WireChecksums'
  <2>1. pkt[m] \in Packet /\ pkt[m].cksum = Finished
    BY <1>2, <1>3, <1>5 DEF HeldCarry, CksumInv, ChecksumsOf
  <2>2. OnWire(pkt[m]).cksum = OnTheWire /\ OnWire(pkt[m]) \in Packet
    BY <2>1, NicCompletes
  <2>3. /\ wire[q] \in Seq(Packet)
        /\ wire'[q] = Append(wire[q], OnWire(pkt[m]))
        /\ \A r \in Queues \ {q} : wire'[r] = wire[r]
    BY <1>1, <1>2 DEF TypeOK, PortTypeOK
  <2>4. OnTheWire' = OnTheWire
    BY <1>1 DEF OnTheWire
  <2>5. \A r \in Queues : \A i \in 1..Len(wire[r]) : wire[r][i].cksum = OnTheWire
    BY WireByName DEF CksumInv
  <2>6. \A i \in 1..Len(wire'[q]) : wire'[q][i].cksum = OnTheWire
    BY <2>2, <2>3, <2>5, WireGrows
  <2>7. \A r \in Queues : \A i \in 1..Len(wire'[r]) : wire'[r][i].cksum = OnTheWire
    BY <2>3, <2>5, <2>6
  <2> QED
    BY <2>4, <2>7 DEF WireChecksums, OnTheWire
<1> QED
  BY <1>8, <1>9, <1>10 DEF CksumInv

\* A step that moves no mbuf and writes none, with no batch under way.
LEMMA CksumIdle ==
  ASSUME CksumInv, Inv', NEW q \in Queues, rx_bufs[q] = <<>>,
         UNCHANGED portVars, UNCHANGED <<checksum_mode, rx_bufs, tx_buffer>>,
         \A r \in Queues \ {q} : pc'[r] = pc[r]
  PROVE  CksumInv'
<1>1. \A r \in Queues \ {q} : ChecksumsOf(r)'
  BY DEF CksumInv, ChecksumsOf, Finished, portVars
<1>2. ChecksumsOf(q)'
  <2>1. Range(rx_bufs'[q]) = {}
    BY DEF Range
  <2> QED
    BY <2>1 DEF CksumInv, ChecksumsOf, Finished, portVars
<1>3. WireChecksums'
  BY SameWire DEF CksumInv, portVars
<1> QED
  BY <1>1, <1>2, <1>3 DEF CksumInv

\* A poll takes good packets from the RX ring.
LEMMA CksumRxBurst ==
  ASSUME CksumInv, Inv', NEW q \in Queues, RxBurst(q), UNCHANGED bufferVars
  PROVE  CksumInv'
<1>1. /\ pc' = [pc EXCEPT ![q] = "rewrite"]
      /\ UNCHANGED <<pkt, tx_ring, tx_buffer, wire, checksum_mode>>
  BY DEF RxBurst, Goto, bufferVars
<1>2. PICK nb_rx \in RxBursts(q, BURST_SIZE) :
        /\ rx_bufs' = [rx_bufs EXCEPT ![q] = SubSeq(rx_ring[q], 1, nb_rx)]
        /\ rx_ring' = [rx_ring EXCEPT ![q] = SubSeq(@, nb_rx + 1, Len(@))]
  BY Zenon DEF RxBurst
<1>3. TypeOK /\ rx_ring[q] \in Seq(Mbufs)
  BY PartsTyped DEF CksumInv, Inv
<1> DEFINE front == SubSeq(rx_ring[q], 1, nb_rx)
           back == SubSeq(rx_ring[q], nb_rx + 1, Len(rx_ring[q]))
<1>4. nb_rx \in 0..Len(rx_ring[q])
  BY <1>2, <1>3, LenProperties DEF RxBursts
<1>5. front \in Seq(Mbufs) /\ back \in Seq(Mbufs) /\ front \o back = rx_ring[q]
  BY <1>3, <1>4, CutInTwo
<1> HIDE DEF front, back
<1>6. Range(rx_ring[q]) = Range(front) \union Range(back)
  BY <1>5, RangeConcatenation, ZenonT(30)
<1>7. /\ rx_bufs'[q] = front /\ rx_ring'[q] = back /\ pc'[q] = "rewrite"
      /\ \A r \in Queues \ {q} : /\ rx_bufs'[r] = rx_bufs[r]
                                 /\ rx_ring'[r] = rx_ring[r] /\ pc'[r] = pc[r]
  BY <1>1, <1>2, <1>3 DEF TypeOK, PortTypeOK, WorkerTypeOK, front, back
<1>8. ChecksumsOf(q)'
  BY <1>1, <1>6, <1>7 DEF CksumInv, ChecksumsOf, Finished
<1>9. \A r \in Queues \ {q} : ChecksumsOf(r)'
  BY <1>1, <1>7 DEF CksumInv, ChecksumsOf, Finished
<1>10. WireChecksums'
  BY <1>1, SameWire DEF CksumInv
<1> QED
  BY <1>8, <1>9, <1>10 DEF CksumInv

\* A stage that edits the batch, and what it leaves in the checksum fields.
LEMMA CksumEdit ==
  ASSUME CksumInv, Inv', NEW q \in Queues, NEW to \in {"checksum", "tx"},
         pc' = [pc EXCEPT ![q] = to],
         \A m \in Mbufs \ Range(rx_bufs[q]) : pkt'[m] = pkt[m],
         \A m \in Range(rx_bufs[q]) :
           pkt'[m].cksum = IF to = "tx" THEN Finished ELSE "good",
         UNCHANGED <<rx_ring, tx_ring, wire, tx_buffer, checksum_mode, rx_bufs>>
  PROVE  CksumInv'
<1>1. TypeOK /\ MbufOwnership
  BY DEF CksumInv, Inv
<1>2. /\ Range(rx_bufs[q]) \subseteq Range(Held[q])
      /\ Range(tx_ring[q]) \intersect Range(rx_bufs[q]) = {}
      /\ Range(tx_buffer[q]) \intersect Range(rx_bufs[q]) = {}
      /\ Range(rx_bufs[q]) \intersect Range(rx_ring[q]) = {}
      /\ Range(tx_ring[q]) \subseteq Mbufs /\ Range(tx_buffer[q]) \subseteq Mbufs
      /\ Range(rx_ring[q]) \subseteq Mbufs
  BY <1>1, OwnApart, WhereHeld
<1>3. pc'[q] = to /\ \A r \in Queues \ {q} : pc'[r] = pc[r]
  BY <1>1 DEF TypeOK
<1>4. ChecksumsOf(q)'
  BY <1>2, <1>3 DEF CksumInv, ChecksumsOf, Finished
<1>5. ASSUME NEW r \in Queues \ {q} PROVE ChecksumsOf(r)'
  BY <1>2, <1>3, OthersKeepChecksums
<1>6. WireChecksums'
  BY SameWire DEF CksumInv
<1> QED
  BY <1>4, <1>5, <1>6 DEF CksumInv

\* The exchange of the endpoints leaves a good packet good.
LEMMA CksumRewrite ==
  ASSUME CksumInv, Inv', NEW q \in Queues, Rewrite(q), UNCHANGED bufferVars
  PROVE  CksumInv'
<1>1. Range(rx_bufs[q]) \subseteq Mbufs \ pool /\ HeldCarry
  BY HeldNotFree DEF CksumInv, Inv
<1>2. pc[q] = "rewrite" /\ pc' = [pc EXCEPT ![q] = "checksum"]
  BY DEF Rewrite, Goto
<1>3. pkt' = [m \in Mbufs |-> IF m \in Range(rx_bufs[q])
                               THEN SwapEndpoints(pkt[m]) ELSE pkt[m]]
  BY DEF Rewrite, EditBatch
<1>4. ASSUME NEW m \in Range(rx_bufs[q]) PROVE pkt'[m].cksum = "good"
  <2>1. pkt[m] \in Packet /\ pkt[m].cksum = "good"
    BY <1>1, <1>2 DEF HeldCarry, CksumInv, ChecksumsOf
  <2> QED
    BY <1>1, <1>3, <2>1, SwapKeepsFields
<1> QED
  BY <1>2, <1>3, <1>4, CksumEdit DEF Rewrite, bufferVars

\* The checksum stage finishes the batch.
LEMMA CksumChecksum ==
  ASSUME CksumInv, Inv', NEW q \in Queues, ChecksumThenTx(q)
  PROVE  CksumInv'
<1>1. /\ Range(rx_bufs[q]) \subseteq Mbufs \ pool /\ HeldCarry
      /\ checksum_mode \in Modes
  BY HeldNotFree DEF CksumInv, Inv, TypeOK, WorkerTypeOK
<1>2. pc[q] = "checksum" /\ pc' = [pc EXCEPT ![q] = "tx"]
  BY DEF ChecksumThenTx, Checksum, Goto
<1>3. pkt' = [m \in Mbufs |-> IF m \in Range(rx_bufs[q])
                               THEN FixChecksum(checksum_mode, pkt[m]) ELSE pkt[m]]
  BY DEF ChecksumThenTx, Checksum, EditBatch
<1>4. ASSUME NEW m \in Range(rx_bufs[q]) PROVE pkt'[m].cksum = Finished
  <2>1. pkt[m] \in Packet /\ pkt[m].cksum = "good"
    BY <1>1, <1>2 DEF HeldCarry, CksumInv, ChecksumsOf
  <2> QED
    BY <1>1, <1>3, <2>1, StageFinishes
<1> QED
  BY <1>2, <1>3, <1>4, CksumEdit DEF ChecksumThenTx, Checksum

\* A buffer of finished packets is sent, whether or not the batch goes on.
LEMMA CksumSend ==
  ASSUME CksumInv, Inv', NEW q \in Queues, NEW bufs \in Seq(Mbufs), NEW rest,
         IsInjective(bufs),
         Range(bufs) \subseteq Range(tx_buffer[q]) \union Range(rx_bufs[q]),
         Range(rest) \subseteq Range(rx_bufs[q]) \ Range(bufs),
         \A m \in Range(bufs) : pkt[m].cksum = Finished,
         NEW sent \in TxBursts(q, bufs), SendBuffer(q, bufs, sent),
         rx_bufs' = [rx_bufs EXCEPT ![q] = rest], UNCHANGED checksum_mode,
         Range(rest) = {} \/ pc'[q] = pc[q],
         \A r \in Queues \ {q} : pc'[r] = pc[r]
  PROVE  CksumInv'
<1> DEFINE front == SubSeq(bufs, 1, sent)
           back == SubSeq(bufs, sent + 1, Len(bufs))
<1>1. /\ tx_ring' = [tx_ring EXCEPT ![q] = @ \o front]
      /\ pkt' = [m \in Mbufs |-> IF m \in Range(back) THEN NoPacket ELSE pkt[m]]
      /\ tx_buffer' = [tx_buffer EXCEPT ![q] = <<>>]
      /\ UNCHANGED <<rx_ring, wire>>
  BY DEF SendBuffer, SendOrFree, FreeAll
<1>2. TypeOK /\ MbufOwnership
  BY DEF CksumInv, Inv
<1>3. /\ tx_ring[q] \in Seq(Mbufs)
      /\ Range(tx_ring[q]) \intersect Range(tx_buffer[q]) = {}
      /\ Range(tx_ring[q]) \intersect Range(rx_bufs[q]) = {}
      /\ Range(tx_buffer[q]) \intersect Range(rx_ring[q]) = {}
      /\ Range(rx_bufs[q]) \intersect Range(rx_ring[q]) = {}
      /\ Range(tx_buffer[q]) \union Range(rx_bufs[q]) \subseteq Range(Held[q])
      /\ Range(tx_ring[q]) \union Range(rx_ring[q]) \subseteq Mbufs
      /\ Range(rx_bufs[q]) \union Range(tx_buffer[q]) \subseteq Mbufs
  BY <1>2, PartsTyped, OwnApart, WhereHeld, ZenonT(30)
<1>4. sent \in 0..Len(bufs)
  BY DEF TxBursts
<1>5. /\ front \in Seq(Mbufs) /\ back \in Seq(Mbufs) /\ front \o back = bufs
  BY <1>4, CutInTwo
<1> HIDE DEF front, back
<1>6. /\ Range(tx_ring[q] \o front) = Range(tx_ring[q]) \union Range(front)
      /\ Range(bufs) = Range(front) \union Range(back)
      /\ Range(front) \intersect Range(back) = {}
  <2>1. /\ tx_ring[q] \in Seq(Mbufs) /\ front \in Seq(Mbufs) /\ back \in Seq(Mbufs)
        /\ IsInjective(front \o back)
    BY <1>3, <1>5
  <2>2. /\ Range(tx_ring[q] \o front) = Range(tx_ring[q]) \union Range(front)
        /\ Range(front \o back) = Range(front) \union Range(back)
    BY <2>1, RangeJoin
  <2>3. Range(front) \intersect Range(back) = {}
    BY <2>1, ConcatInjective
  <2> QED
    BY <1>5, <2>2, <2>3
<1>7. /\ tx_ring'[q] = tx_ring[q] \o front /\ rx_bufs'[q] = rest
      /\ tx_buffer'[q] = <<>>
      /\ \A r \in Queues \ {q} : /\ tx_ring'[r] = tx_ring[r]
                                 /\ rx_bufs'[r] = rx_bufs[r]
                                 /\ tx_buffer'[r] = tx_buffer[r]
      /\ \A m \in Mbufs \ Range(back) : pkt'[m] = pkt[m]
  BY <1>1, <1>2 DEF TypeOK, PortTypeOK, WorkerTypeOK
<1>8. ChecksumsOf(q)'
  <2>1. ChecksumsOf(q) /\ \A m \in Range(front) : pkt[m].cksum = Finished
    BY <1>6 DEF CksumInv
  <2>2. \A m \in Range(tx_ring[q] \o front) \union Range(rx_ring[q])
                   \union Range(rest) : pkt'[m] = pkt[m]
    BY <1>3, <1>6, <1>7
  <2>3. Finished' = Finished /\ Range(<<>>) = {}
    BY DEF Finished, Range
  <2>4. \A m \in Range(rx_ring'[q]) : pkt'[m].cksum = "good"
    BY <1>1, <2>1, <2>2 DEF ChecksumsOf
  <2>5. \A m \in Range(tx_ring'[q]) : pkt'[m].cksum = Finished
    <3>1. \A m \in Range(tx_ring[q] \o front) : pkt[m].cksum = Finished
      BY <1>6, <2>1 DEF ChecksumsOf
    <3> QED
      BY <1>7, <2>2, <3>1
  <2>6. Range(tx_buffer'[q]) = {}
    BY <1>7, <2>3
  <2>7. \A m \in Range(rx_bufs'[q]) :
          pkt'[m].cksum = IF pc'[q] = "tx" THEN Finished ELSE "good"
    BY <1>7, <2>1, <2>2 DEF ChecksumsOf
  <2> QED
    BY <2>3, <2>4, <2>5, <2>6, <2>7 DEF ChecksumsOf
<1>9. ASSUME NEW r \in Queues \ {q} PROVE ChecksumsOf(r)'
  BY <1>1, <1>3, <1>6, <1>7, OthersKeepChecksums
<1>10. WireChecksums'
  BY <1>1, SameWire DEF CksumInv
<1> QED
  BY <1>8, <1>9, <1>10 DEF CksumInv

\* A flush sends what was parked.
LEMMA CksumFlush ==
  ASSUME CksumInv, Inv', NEW q \in Queues, FlushTxBuffer(q), rx_bufs[q] = <<>>,
         UNCHANGED <<checksum_mode, rx_bufs>>,
         \A r \in Queues \ {q} : pc'[r] = pc[r]
  PROVE  CksumInv'
<1> DEFINE bufs == tx_buffer[q]
           rest == rx_bufs[q]
<1>1. TypeOK /\ MbufOwnership
  BY DEF CksumInv, Inv
<1>2. PICK sent \in TxBursts(q, bufs) : SendBuffer(q, bufs, sent)
  BY DEF FlushTxBuffer
<1>3. /\ bufs \in Seq(Mbufs) /\ IsInjective(bufs)
      /\ Range(bufs) \subseteq Range(tx_buffer[q]) \union Range(rx_bufs[q])
      /\ \A m \in Range(bufs) : pkt[m].cksum = Finished
  BY <1>1, PartsTyped, OwnApart DEF CksumInv, ChecksumsOf
<1>4. Range(rest) = {} /\ rx_bufs' = [rx_bufs EXCEPT ![q] = rest]
  BY <1>1 DEF Range, TypeOK, WorkerTypeOK
<1> HIDE DEF bufs, rest
<1> QED
  BY <1>2, <1>3, <1>4, CksumSend

\* A finished packet joins those that are parked, and may send them all.
LEMMA CksumTxBuffer ==
  ASSUME CksumInv, Inv', NEW q \in Queues, TxBuffer(q)
  PROVE  CksumInv'
<1> DEFINE h == Head(rx_bufs[q])
           bufs == Append(tx_buffer[q], h)
           rest == Tail(rx_bufs[q])
<1>1. /\ pc[q] = "tx" /\ rx_bufs[q] # <<>>
      /\ rx_bufs' = [rx_bufs EXCEPT ![q] = rest]
      /\ UNCHANGED <<checksum_mode, pc>>
  BY DEF TxBuffer
<1>2. TypeOK /\ MbufOwnership
  BY DEF CksumInv, Inv
<1>3. /\ tx_buffer[q] \in Seq(Mbufs) /\ rx_bufs[q] \in Seq(Mbufs)
      /\ IsInjective(tx_buffer[q]) /\ IsInjective(rx_bufs[q])
      /\ Range(tx_buffer[q]) \intersect Range(rx_bufs[q]) = {}
  BY <1>2, PartsTyped, OwnApart
<1>4. /\ h \in Mbufs /\ Range(<<h>>) = {h} /\ <<h>> \in Seq(Mbufs)
      /\ Range(rx_bufs[q]) = {h} \union Range(rest) /\ h \notin Range(rest)
      /\ IsInjective(<<h>>)
  BY <1>1, <1>3, HeadAndTail, RangeOfTail, Singleton
<1>5. /\ bufs \in Seq(Mbufs) /\ bufs = tx_buffer[q] \o <<h>>
      /\ Range(bufs) = Range(tx_buffer[q]) \union {h}
  BY <1>3, <1>4, AppendProperties, AppendIsConcat, RangeAppend, SMTT(30)
<1>6. IsInjective(bufs)
  <2> DEFINE one == <<h>>
             old == tx_buffer[q]
  <2>1. /\ old \in Seq(Mbufs) /\ one \in Seq(Mbufs) /\ bufs = old \o one
        /\ IsInjective(old) /\ IsInjective(one)
        /\ Range(old) \intersect Range(one) = {}
    BY <1>3, <1>4, <1>5
  <2> HIDE DEF one, old, bufs
  <2>2. IsInjective(old \o one)
    BY <2>1, ConcatInjective
  <2> QED
    BY <2>1, <2>2
<1>7. /\ Range(bufs) \subseteq Range(tx_buffer[q]) \union Range(rx_bufs[q])
      /\ Range(rest) \subseteq Range(rx_bufs[q]) \ Range(bufs)
      /\ \A m \in Range(bufs) : pkt[m].cksum = Finished
  BY <1>1, <1>3, <1>4, <1>5 DEF CksumInv, ChecksumsOf
<1>8. CASE /\ tx_buffer' = [tx_buffer EXCEPT ![q] = bufs] /\ UNCHANGED portVars
  <2> HIDE DEF bufs, rest
  <2>1. /\ tx_buffer'[q] = bufs /\ rx_bufs'[q] = rest
        /\ \A r \in Queues \ {q} : /\ tx_buffer'[r] = tx_buffer[r]
                                   /\ rx_bufs'[r] = rx_bufs[r]
    BY <1>1, <1>2, <1>8 DEF TypeOK, WorkerTypeOK
  <2>2. \A r \in Queues : ChecksumsOf(r)'
    BY <1>1, <1>7, <1>8, <2>1 DEF CksumInv, ChecksumsOf, Finished, portVars
  <2>3. WireChecksums'
    BY <1>1, <1>8, SameWire DEF CksumInv, portVars
  <2> QED
    BY <2>2, <2>3 DEF CksumInv
<1>9. CASE \E sent \in TxBursts(q, bufs) : SendBuffer(q, bufs, sent)
  <2>1. PICK sent \in TxBursts(q, bufs) : SendBuffer(q, bufs, sent)
    BY <1>9
  <2> HIDE DEF bufs, rest
  <2> QED
    BY <1>1, <1>5, <1>6, <1>7, <2>1, CksumSend
<1> QED
  BY <1>8, <1>9 DEF TxBuffer

\* Every step keeps the invariant.
LEMMA CksumNext == CksumInv /\ [Next]_vars => CksumInv'
<1> SUFFICES ASSUME CksumInv, [Next]_vars PROVE CksumInv'
  OBVIOUS
<1>0. Inv' /\ TypeOK /\ NoBatch
  BY InvNext DEF CksumInv, Inv
<1>1. ASSUME NEW h \in Traffic, Deliver(h), UNCHANGED <<workerVars, bufferVars>>
      PROVE  CksumInv'
  BY <1>0, <1>1, CksumDeliver
<1>2. ASSUME NEW q \in Queues, Transmit(q), UNCHANGED <<workerVars, bufferVars>>
      PROVE  CksumInv'
  BY <1>0, <1>2, CksumTransmit
<1>3. ASSUME NEW q \in Queues, EmptyPoll(q) PROVE CksumInv'
  BY <1>0, <1>3, CksumFlush DEF EmptyPoll, Goto, NoBatch, TypeOK
<1>4. ASSUME NEW q \in Queues, RxBurst(q), UNCHANGED bufferVars PROVE CksumInv'
  BY <1>0, <1>4, CksumRxBurst
<1>5. ASSUME NEW q \in Queues, Rewrite(q), UNCHANGED bufferVars PROVE CksumInv'
  BY <1>0, <1>5, CksumRewrite
<1>6. ASSUME NEW q \in Queues, ChecksumThenTx(q) PROVE CksumInv'
  BY <1>0, <1>6, CksumChecksum
<1>7. ASSUME NEW q \in Queues, TxBuffer(q) PROVE CksumInv'
  BY <1>0, <1>7, CksumTxBuffer
<1>8. ASSUME NEW q \in Queues, TxEnd(q) PROVE CksumInv'
  BY <1>0, <1>8, CksumIdle DEF TxEnd, TypeOK, bufferVars
<1>9. ASSUME NEW q \in Queues, FlushBeforeReport(q) PROVE CksumInv'
  BY <1>0, <1>9, CksumFlush DEF FlushBeforeReport, Goto, NoBatch, TypeOK
<1>10. ASSUME NEW q \in Queues, DueReport(q) PROVE CksumInv'
  BY <1>0, <1>10, CksumIdle DEF DueReport, Goto, NoBatch, TypeOK, bufferVars
<1>11. ASSUME NEW q \in Queues, LoopEnd(q), UNCHANGED bufferVars PROVE CksumInv'
  BY <1>0, <1>11, CksumIdle DEF LoopEnd, Goto, NoBatch, TypeOK, bufferVars
<1>12. CASE UNCHANGED vars
  BY <1>0, <1>12 DEF vars, portVars, workerVars, bufferVars, CksumInv, ChecksumsOf,
                     Finished, WireChecksums
<1> QED
  BY <1>1, <1>2, <1>3, <1>4, <1>5, <1>6, <1>7, <1>8, <1>9, <1>10, <1>11, <1>12
  DEF Next, Nic, Worker

\* Whatever the mode, and however long a packet was parked, everything that the
\* txbuf servers put on the wire has valid checksums, or in mode "none" zero
\* ones.
THEOREM ChecksumsOnTheWire == Spec => []WireChecksums
<1>1. Init => CksumInv
  <2>1. Init => \A q \in Queues : ChecksumsOf(q)
    BY DEF Init, PortInit, WorkerInit, ChecksumsOf, Range
  <2>2. Init => WireChecksums
    BY DEF Init, PortInit, WireChecksums
  <2> QED
    BY <2>1, <2>2, InvInit DEF CksumInv
<1>2. CksumInv => WireChecksums
  BY DEF CksumInv
<1> QED
  BY <1>1, <1>2, CksumNext, PTL DEF Spec

------------------------------------------------------------------------------
(* The buffered servers implement EchoService too.  Where the unbuffered   *)
(* server answers a batch, these answer a buffer, which may hold packets   *)
(* of many batches: a packet that is parked is still pending, and stands   *)
(* for the request it was before its endpoints were exchanged.  Fairness   *)
(* is left to the model checker.                                           *)

\* What the service sees of an mbuf that waits in a ring, of one that is parked,
\* and of one that is in rx_bufs and may have been rewritten.
Seen == [m \in Mbufs |-> HeaderOf(pkt[m])]
Flipped == [m \in Mbufs |-> Service!Echo(HeaderOf(pkt[m]))]
Asked(q) == IF Swapped(q) THEN Flipped ELSE Seen
SeenOnWire == [p \in Packet |-> HeaderOf(p)]

Content == Packet \union {NoPacket}
Shown == {HeaderOf(p) : p \in Content}
           \union {Service!Echo(HeaderOf(p)) : p \in Content}

\* The types of the views.
ViewTypes ==
  /\ Seen \in [Mbufs -> Shown]
  /\ Flipped \in [Mbufs -> Shown]
  /\ \A q \in Queues : Asked(q) \in [Mbufs -> Shown]
  /\ SeenOnWire \in [Packet -> Shown]

\* The views have their types.
LEMMA Views == TypeOK => ViewTypes
<1> SUFFICES ASSUME TypeOK PROVE ViewTypes
  OBVIOUS
<1>1. pkt \in [Mbufs -> Content]
  BY DEF TypeOK, PortTypeOK, Content
<1>2. \A p \in Content :
        HeaderOf(p) \in Shown /\ Service!Echo(HeaderOf(p)) \in Shown
  BY DEF Shown
<1>3. Packet \subseteq Content
  BY DEF Content
<1>4. Seen \in [Mbufs -> Shown] /\ Flipped \in [Mbufs -> Shown]
  BY <1>1, <1>2 DEF Seen, Flipped
<1>5. SeenOnWire \in [Packet -> Shown]
  BY <1>2, <1>3 DEF SeenOnWire
<1> QED
  BY <1>4, <1>5 DEF ViewTypes, Asked

\* The pending packets and the answers of a queue, by way of the views.
MapIsViews ==
  \A q \in Queues :
    /\ Pending(q) = Image(Flipped, tx_buffer[q]) \o Image(Asked(q), rx_bufs[q])
                      \o Image(Seen, rx_ring[q])
    /\ Pending(q) = Image(Flipped, tx_buffer[q])
                      \o (Image(Asked(q), rx_bufs[q]) \o Image(Seen, rx_ring[q]))
    /\ Replied(q) = Image(SeenOnWire, wire[q]) \o Image(Seen, tx_ring[q])

\* The images of what a worker holds are sequences of messages.
LEMMA ImagesTyped ==
  ASSUME TypeOK
  PROVE  /\ \A s \in Seq(Mbufs) : Image(Seen, s) \in Seq(Shown)
         /\ \A s \in Seq(Mbufs) : Image(Flipped, s) \in Seq(Shown)
         /\ \A q \in Queues : \A s \in Seq(Mbufs) :
              Image(Asked(q), s) \in Seq(Shown)
         /\ \A s \in Seq(Packet) : Image(SeenOnWire, s) \in Seq(Shown)
<1>1. ViewTypes
  BY Views
<1>2. ASSUME NEW s \in Seq(Mbufs)
      PROVE  Image(Seen, s) \in Seq(Shown) /\ Image(Flipped, s) \in Seq(Shown)
  <2>1. Seen \in [Mbufs -> Shown] /\ Flipped \in [Mbufs -> Shown]
    BY <1>1 DEF ViewTypes
  <2> QED
    BY <2>1, ImageInto
<1>3. ASSUME NEW q \in Queues, NEW s \in Seq(Mbufs)
      PROVE  Image(Asked(q), s) \in Seq(Shown)
  BY <1>2 DEF Asked
<1>4. ASSUME NEW s \in Seq(Packet) PROVE Image(SeenOnWire, s) \in Seq(Shown)
  <2>1. SeenOnWire \in [Packet -> Shown]
    BY <1>1 DEF ViewTypes
  <2> QED
    BY <2>1, ImageInto
<1> QED
  BY <1>2, <1>3, <1>4

\* What the service sees is what the views make of the mbufs.
LEMMA MapByViews == TypeOK => MapIsViews
<1> SUFFICES ASSUME TypeOK, NEW q \in Queues
             PROVE  /\ Pending(q) = Image(Flipped, tx_buffer[q])
                                     \o Image(Asked(q), rx_bufs[q])
                                     \o Image(Seen, rx_ring[q])
                    /\ Pending(q) = Image(Flipped, tx_buffer[q])
                                     \o (Image(Asked(q), rx_bufs[q])
                                           \o Image(Seen, rx_ring[q]))
                    /\ Replied(q) = Image(SeenOnWire, wire[q])
                                     \o Image(Seen, tx_ring[q])
  BY DEF MapIsViews
<1>0. /\ tx_buffer[q] \in Seq(Mbufs) /\ rx_bufs[q] \in Seq(Mbufs)
      /\ rx_ring[q] \in Seq(Mbufs) /\ tx_ring[q] \in Seq(Mbufs)
      /\ wire[q] \in Seq(Packet)
  BY PartsTyped, WorkerParts
<1>1. /\ \A i \in 1..Len(tx_buffer[q]) : tx_buffer[q][i] \in Mbufs
      /\ \A i \in 1..Len(rx_bufs[q]) : rx_bufs[q][i] \in Mbufs
      /\ \A i \in 1..Len(rx_ring[q]) : rx_ring[q][i] \in Mbufs
      /\ \A i \in 1..Len(tx_ring[q]) : tx_ring[q][i] \in Mbufs
      /\ \A i \in 1..Len(wire[q]) : wire[q][i] \in Packet
  BY <1>0, ElementOfSeq
<1>2. Parked(q) = Image(Flipped, tx_buffer[q])
  BY <1>1 DEF Parked, Flipped, Image, Service!Echo
<1>3. [i \in 1..Len(rx_bufs[q]) |-> AsRequest(q, i)] = Image(Asked(q), rx_bufs[q])
  <2>1. ASSUME NEW i \in 1..Len(rx_bufs[q])
        PROVE  AsRequest(q, i) = Asked(q)[rx_bufs[q][i]]
    BY <1>1 DEF AsRequest, Asked, Seen, Flipped, Service!Echo
  <2> QED
    BY <2>1 DEF Image
<1>4. Headers(rx_ring[q]) = Image(Seen, rx_ring[q])
  BY <1>1 DEF Headers, Seen, Image
<1>5. Headers(tx_ring[q]) = Image(Seen, tx_ring[q])
  BY <1>1 DEF Headers, Seen, Image
<1>6. [i \in 1..Len(wire[q]) |-> HeaderOf(wire[q][i])] = Image(SeenOnWire, wire[q])
  BY <1>1 DEF SeenOnWire, Image
<1> DEFINE buf == Image(Flipped, tx_buffer[q])
           batch == Image(Asked(q), rx_bufs[q])
           ring == Image(Seen, rx_ring[q])
<1>7. Pending(q) = buf \o batch \o ring
  BY <1>2, <1>3, <1>4 DEF Pending
<1>8. buf \in Seq(Shown) /\ batch \in Seq(Shown) /\ ring \in Seq(Shown)
  BY <1>0, ImagesTyped
<1>9. (buf \o batch) \o ring = buf \o (batch \o ring)
  <2> HIDE DEF buf, batch, ring
  <2> QED
    BY <1>8, ConcatAssociative, SMTT(30)
<1> QED
  BY <1>5, <1>6, <1>7, <1>9 DEF Replied

\* The same in the next state.
LEMMA MapByViewsNext ==
  TypeOK' =>
    \A q \in Queues :
      /\ Pending(q)' = Image(Flipped', tx_buffer'[q]) \o Image(Asked(q)', rx_bufs'[q])
                         \o Image(Seen', rx_ring'[q])
      /\ Pending(q)' = Image(Flipped', tx_buffer'[q])
                         \o (Image(Asked(q)', rx_bufs'[q]) \o Image(Seen', rx_ring'[q]))
      /\ Replied(q)' = Image(SeenOnWire, wire'[q]) \o Image(Seen', tx_ring'[q])
<1>1. TypeOK' => MapIsViews'
  BY MapByViews, PTL
<1> QED
  BY <1>1 DEF MapIsViews, SeenOnWire

\* A queue looks the same if nothing it holds has moved or changed.
LEMMA SameView ==
  ASSUME TypeOK, TypeOK', NEW r \in Queues,
         tx_buffer'[r] = tx_buffer[r],
         rx_bufs'[r] = rx_bufs[r], rx_ring'[r] = rx_ring[r],
         tx_ring'[r] = tx_ring[r], wire'[r] = wire[r],
         (Swapped(r)' <=> Swapped(r)) \/ rx_bufs[r] = <<>>,
         \A m \in Range(Held[r]) : pkt'[m] = pkt[m]
  PROVE  Pending(r)' = Pending(r) /\ Replied(r)' = Replied(r)
<1>1. /\ tx_ring[r] \in Seq(Mbufs) /\ tx_buffer[r] \in Seq(Mbufs)
      /\ rx_bufs[r] \in Seq(Mbufs) /\ rx_ring[r] \in Seq(Mbufs)
      /\ Range(tx_ring[r]) \subseteq Range(Held[r])
      /\ Range(tx_buffer[r]) \subseteq Range(Held[r])
      /\ Range(rx_bufs[r]) \subseteq Range(Held[r])
      /\ Range(rx_ring[r]) \subseteq Range(Held[r])
      /\ Range(Held[r]) \subseteq Mbufs
  BY PartsTyped, WhereHeld
<1>2. \A m \in Range(Held[r]) : Seen'[m] = Seen[m] /\ Flipped'[m] = Flipped[m]
  BY <1>1 DEF Seen, Flipped
<1>3. Image(Asked(r)', rx_bufs[r]) = Image(Asked(r), rx_bufs[r])
  <2>1. CASE Swapped(r)' <=> Swapped(r)
    <3>1. \A m \in Range(rx_bufs[r]) : Asked(r)'[m] = Asked(r)[m]
      BY <1>1, <1>2, <2>1 DEF Asked
    <3> QED
      BY <1>1, <3>1, ImageDepends
  <2>2. CASE rx_bufs[r] = <<>>
    BY <2>2, ImageEmpty
  <2> QED
    BY <2>1, <2>2
<1>4. Image(Seen', rx_ring[r]) = Image(Seen, rx_ring[r])
  BY <1>1, <1>2, ImageDepends
<1>5. Image(Seen', tx_ring[r]) = Image(Seen, tx_ring[r])
  BY <1>1, <1>2, ImageDepends
<1>6. Image(Flipped', tx_buffer[r]) = Image(Flipped, tx_buffer[r])
  BY <1>1, <1>2, ImageDepends
<1> QED
  BY <1>3, <1>4, <1>5, <1>6, MapByViews, MapByViewsNext, ZenonT(30) DEF MapIsViews

\* A queue that does not move looks the same if only free mbufs and those of
\* queue q are written.
LEMMA OthersLookTheSame ==
  ASSUME TypeOK, TypeOK', MbufOwnership, NEW q \in Queues,
         NEW r \in Queues \ {q}, tx_buffer'[r] = tx_buffer[r],
         rx_bufs'[r] = rx_bufs[r], rx_ring'[r] = rx_ring[r],
         tx_ring'[r] = tx_ring[r], wire'[r] = wire[r], pc'[r] = pc[r],
         \A m \in Mbufs \ (pool \union Range(Held[q])) : pkt'[m] = pkt[m]
  PROVE  Pending(r)' = Pending(r) /\ Replied(r)' = Replied(r)
<1>1. /\ Range(Held[r]) \subseteq Mbufs \ pool
      /\ Range(Held[r]) \intersect Range(Held[q]) = {}
  BY HeldNotFree DEF MbufOwnership, OwnedOnce
<1>2. \A m \in Range(Held[r]) : pkt'[m] = pkt[m]
  BY <1>1
<1>3. Swapped(r)' <=> Swapped(r)
  BY DEF Swapped
<1> QED
  BY <1>2, <1>3, SameView

\* A step that no queue shows is no step of the service.
LEMMA Stutters ==
  ASSUME requests' = requests, tx_buffer_drops' = tx_buffer_drops,
         \A r \in Queues : Pending(r)' = Pending(r) /\ Replied(r)' = Replied(r)
  PROVE  UNCHANGED Service!serviceVars
<1>1. [q \in Queues |-> Pending(q)]' = [q \in Queues |-> Pending(q)]
  OBVIOUS
<1>2. [q \in Queues |-> Replied(q)]' = [q \in Queues |-> Replied(q)]
  OBVIOUS
<1>3. [q \in Queues |-> tx_buffer_drops[q]]' = [q \in Queues |-> tx_buffer_drops[q]]
  OBVIOUS
<1> QED
  BY <1>1, <1>2, <1>3 DEF Service!serviceVars

------------------------------------------------------------------------------
(* One lemma per action.                                                   *)

\* A packet that the NIC stores is accepted.
LEMMA MapDeliver ==
  ASSUME Inv, Inv', NEW h \in Traffic, Deliver(h),
         UNCHANGED <<workerVars, bufferVars>>
  PROVE  Service!Accept(h)
<1> DEFINE q == Rss[h]
           r == Service!Request(Len(requests) + 1, h)
           p == [id |-> Len(requests) + 1, src |-> h.src, dst |-> h.dst,
                 cksum |-> "good"]
<1>1. PICK m \in pool :
        /\ rx_ring' = [rx_ring EXCEPT ![q] = Append(@, m)]
        /\ pkt' = [pkt EXCEPT ![m] = p]
  BY Zenon DEF Deliver
<1>2. /\ requests' = Append(requests, h) /\ Len(requests) < MaxRequests
      /\ UNCHANGED <<tx_ring, wire, pc, rx_bufs, tx_buffer, tx_buffer_drops>>
  BY DEF Deliver, workerVars, bufferVars
<1>3. TypeOK /\ MbufOwnership /\ TypeOK'
  BY DEF Inv
<1>4. q \in Queues /\ m \in Mbufs
  BY <1>3, PortAssumption DEF TypeOK, PortTypeOK
<1>5. HeaderOf(p) = r
  BY DEF HeaderOf, Service!Request
<1> HIDE DEF q, p, r
<1>6. /\ rx_ring'[q] = Append(rx_ring[q], m)
      /\ \A s \in Queues \ {q} : rx_ring'[s] = rx_ring[s]
      /\ pkt'[m] = p /\ \A n \in Mbufs \ {m} : pkt'[n] = pkt[n]
  BY <1>1, <1>3, <1>4 DEF TypeOK, PortTypeOK
<1>7. ASSUME NEW s \in Queues \ {q}
      PROVE  Pending(s)' = Pending(s) /\ Replied(s)' = Replied(s)
  BY <1>2, <1>3, <1>4, <1>6, <1>7, OthersLookTheSame
<1>8. Replied(q)' = Replied(q) /\ Pending(q)' = Append(Pending(q), r)
  <2>1. /\ tx_ring[q] \in Seq(Mbufs) /\ rx_bufs[q] \in Seq(Mbufs)
        /\ rx_ring[q] \in Seq(Mbufs) /\ tx_buffer[q] \in Seq(Mbufs)
    BY <1>3, <1>4, PartsTyped
  <2>2. /\ Range(tx_ring[q]) \subseteq Mbufs \ {m}
        /\ Range(tx_buffer[q]) \subseteq Mbufs \ {m}
        /\ Range(rx_bufs[q]) \subseteq Mbufs \ {m}
        /\ Range(rx_ring[q]) \subseteq Mbufs \ {m}
    BY <1>3, <1>4, OwnApart
  <2>3. \A n \in Mbufs \ {m} : /\ Seen'[n] = Seen[n] /\ Flipped'[n] = Flipped[n]
                              /\ Asked(q)'[n] = Asked(q)[n]
    BY <1>2, <1>6 DEF Seen, Flipped, Asked, Swapped
  <2>4. Seen'[m] = r
    BY <1>4, <1>5, <1>6 DEF Seen
  <2>5. Image(Seen', tx_ring[q]) = Image(Seen, tx_ring[q])
    BY <2>1, <2>2, <2>3, ImageDepends
  <2>6. Image(Asked(q)', rx_bufs[q]) = Image(Asked(q), rx_bufs[q])
    BY <2>1, <2>2, <2>3, ImageDepends
  <2>7. Image(Seen', rx_ring[q]) = Image(Seen, rx_ring[q])
    BY <2>1, <2>2, <2>3, ImageDepends
  <2>8. Image(Flipped', tx_buffer[q]) = Image(Flipped, tx_buffer[q])
    BY <2>1, <2>2, <2>3, ImageDepends
  <2> DEFINE before == Image(Flipped, tx_buffer[q]) \o Image(Asked(q), rx_bufs[q])
             ring == Image(Seen, rx_ring[q])
  <2>9. before \in Seq(Shown) /\ ring \in Seq(Shown) /\ r \in Shown
    <3>1. /\ Image(Flipped, tx_buffer[q]) \in Seq(Shown)
          /\ Image(Asked(q), rx_bufs[q]) \in Seq(Shown)
      BY <1>3, <1>4, <2>1, ImagesTyped
    <3>2. ring \in Seq(Shown)
      BY <1>3, <2>1, ImagesTyped
    <3>3. r \in Shown
      <4>1. pkt'[m] \in Content
        BY <1>3, <1>4 DEF TypeOK, PortTypeOK, Content, Packet, CksumState
      <4> QED
        BY <1>5, <1>6, <4>1 DEF Shown
    <3> QED
      BY <3>1, <3>2, <3>3, ConcatProperties
  <2>10. Image(Seen', rx_ring'[q]) = ring \o <<r>>
    <3>1. Image(Seen', Append(rx_ring[q], m))
            = Image(Seen', rx_ring[q]) \o <<Seen'[m]>>
      <4>1. rx_ring[q] \in Seq(Mbufs)
        BY <2>1
      <4> QED
        BY <1>4, <4>1, ImageAppend
    <3> QED
      BY <1>6, <2>4, <2>7, <3>1
  <2>11. Pending(q)' = before \o (ring \o <<r>>)
    BY <1>2, <1>3, <1>4, <2>6, <2>8, <2>10, MapByViewsNext
  <2>12. Pending(q) = before \o ring
    BY <1>3, <1>4, MapByViews DEF MapIsViews
  <2>13. Replied(q)' = Replied(q)
    BY <1>2, <1>3, <1>4, <2>5, MapByViews, MapByViewsNext DEF MapIsViews
  <2> HIDE DEF before, ring
  <2>14. before \o (ring \o <<r>>) = Append(before \o ring, r)
    BY <2>9, AppendRight
  <2> QED
    BY <2>11, <2>12, <2>13, <2>14
<1>9. [s \in Queues |-> Pending(s)]' =
        [[s \in Queues |-> Pending(s)] EXCEPT ![q] = Append(@, r)]
  BY <1>4, <1>7, <1>8
<1>10. [s \in Queues |-> Replied(s)]' = [s \in Queues |-> Replied(s)]
  BY <1>7, <1>8
<1>11. [s \in Queues |-> tx_buffer_drops[s]]' = [s \in Queues |-> tx_buffer_drops[s]]
  BY <1>2
<1> QED
  BY <1>2, <1>9, <1>10, <1>11 DEF Service!Accept, q, r

\* A step of a worker that moves no packet shows nothing.
LEMMA MapStill ==
  ASSUME Inv, Inv', NEW q \in Queues,
         UNCHANGED <<portVars, rx_bufs, tx_buffer, tx_buffer_drops>>,
         \A r \in Queues \ {q} : pc'[r] = pc[r], rx_bufs[q] = <<>>
  PROVE  UNCHANGED Service!serviceVars
<1>1. /\ TypeOK /\ TypeOK'
      /\ UNCHANGED <<pkt, rx_ring, tx_ring, requests, wire>>
  BY DEF Inv, portVars
<1>2. ASSUME NEW r \in Queues
      PROVE  Pending(r)' = Pending(r) /\ Replied(r)' = Replied(r)
  <2>1. (Swapped(r)' <=> Swapped(r)) \/ rx_bufs[r] = <<>>
    BY DEF Swapped
  <2> QED
    BY <1>1, <2>1, SameView
<1> QED
  BY <1>1, <1>2, Stutters

\* A poll moves packets within what is pending.
LEMMA MapRxBurst ==
  ASSUME Inv, Inv', NEW q \in Queues, RxBurst(q), UNCHANGED bufferVars
  PROVE  UNCHANGED Service!serviceVars
<1>1. /\ TypeOK /\ TypeOK' /\ MbufOwnership /\ NoBatch
      /\ UNCHANGED <<pool, pkt, tx_ring, requests, wire, tx_buffer, tx_buffer_drops>>
      /\ pc[q] = "poll" /\ pc' = [pc EXCEPT ![q] = "rewrite"]
  BY DEF Inv, RxBurst, Goto, bufferVars
<1>2. PICK nb_rx \in RxBursts(q, BURST_SIZE) :
        /\ rx_bufs' = [rx_bufs EXCEPT ![q] = SubSeq(rx_ring[q], 1, nb_rx)]
        /\ rx_ring' = [rx_ring EXCEPT ![q] = SubSeq(@, nb_rx + 1, Len(@))]
  BY Zenon DEF RxBurst
<1> DEFINE ring == rx_ring[q]
           front == SubSeq(ring, 1, nb_rx)
           back == SubSeq(ring, nb_rx + 1, Len(ring))
<1>3. /\ ring \in Seq(Mbufs) /\ rx_bufs[q] = <<>>
      /\ nb_rx \in 0..Len(ring)
  <2>1. ring \in Seq(Mbufs) /\ Len(rx_ring[q]) \in Nat
    BY <1>1, WorkerParts, PartsTyped
  <2>2. nb_rx \in 0..Len(rx_ring[q])
    BY <1>2, <2>1 DEF RxBursts
  <2> QED
    BY <1>1, <2>1, <2>2 DEF NoBatch
<1>4. /\ rx_bufs'[q] = front /\ rx_ring'[q] = back
      /\ \A r \in Queues \ {q} : /\ rx_bufs'[r] = rx_bufs[r]
                                /\ rx_ring'[r] = rx_ring[r] /\ pc'[r] = pc[r]
  BY <1>1, <1>2 DEF TypeOK, PortTypeOK, WorkerTypeOK
<1>5. ASSUME NEW r \in Queues \ {q}
      PROVE  Pending(r)' = Pending(r) /\ Replied(r)' = Replied(r)
  BY <1>1, <1>4, OthersLookTheSame
<1>6. Replied(q)' = Replied(q) /\ Pending(q)' = Pending(q)
  <2>1. Seen' = Seen /\ Flipped' = Flipped /\ Asked(q)' = Seen /\ Asked(q) = Seen
    BY <1>1 DEF Seen, Flipped, Asked, Swapped, TypeOK
  <2>2. front \in Seq(Mbufs) /\ back \in Seq(Mbufs) /\ front \o back = ring
    <3> HIDE DEF ring
    <3>1. ring \in Seq(Mbufs) /\ nb_rx \in 0..Len(ring)
      BY <1>3
    <3> QED
      BY <3>1, CutInTwo
  <2> HIDE DEF front, back
  <2>3. Image(Seen, front \o back) = Image(Seen, front) \o Image(Seen, back)
    <3>1. front \in Seq(Mbufs) /\ back \in Seq(Mbufs)
      BY <2>2
    <3> QED
      BY <3>1, ImageConcat
  <2> DEFINE buf == Image(Flipped, tx_buffer[q])
  <2>4. Pending(q)' = buf \o (Image(Seen, front) \o Image(Seen, back))
    BY <1>1, <1>4, <2>1, MapByViewsNext
  <2>5. Pending(q) = buf \o (<<>> \o Image(Seen, ring))
    BY <1>1, <1>3, <2>1, MapByViews, ImageEmpty DEF MapIsViews
  <2>6. <<>> \o Image(Seen, ring) = Image(Seen, ring)
    <3>1. Image(Seen, ring) \in Seq(Shown)
      BY <1>1, <1>3, ImagesTyped
    <3> QED
      BY <3>1, ConcatEmptySeq
  <2>7. Replied(q)' = Replied(q)
    BY <1>1, <2>1, MapByViews, MapByViewsNext DEF MapIsViews
  <2> HIDE DEF ring, buf
  <2> QED
    BY <2>2, <2>3, <2>4, <2>5, <2>6, <2>7, Zenon
<1> QED
  BY <1>1, <1>5, <1>6, Stutters

\* A stage that edits a batch changes neither what the packets stand for nor
\* any other packet.
LEMMA MapEdit ==
  ASSUME TypeOK, TypeOK', MbufOwnership, NEW q \in Queues,
         UNCHANGED <<rx_ring, tx_ring, requests, wire, rx_bufs>>,
         UNCHANGED <<tx_buffer, tx_buffer_drops>>,
         \A r \in Queues \ {q} : pc'[r] = pc[r],
         \A m \in Mbufs \ Range(rx_bufs[q]) : pkt'[m] = pkt[m],
         \A m \in Range(rx_bufs[q]) : Asked(q)'[m] = Asked(q)[m]
  PROVE  UNCHANGED Service!serviceVars
<1> DEFINE batch == Range(rx_bufs[q])
<1>1. /\ tx_ring[q] \in Seq(Mbufs) /\ rx_bufs[q] \in Seq(Mbufs)
      /\ rx_ring[q] \in Seq(Mbufs) /\ tx_buffer[q] \in Seq(Mbufs)
      /\ batch \subseteq Range(Held[q])
  BY PartsTyped, WhereHeld
<1>2. /\ Range(tx_ring[q]) \subseteq Mbufs \ batch
      /\ Range(tx_buffer[q]) \subseteq Mbufs \ batch
      /\ Range(rx_ring[q]) \subseteq Mbufs \ batch
  BY OwnApart
<1>3. ASSUME NEW r \in Queues \ {q}
      PROVE  Pending(r)' = Pending(r) /\ Replied(r)' = Replied(r)
  <2>1. \A m \in Mbufs \ (pool \union Range(Held[q])) : pkt'[m] = pkt[m]
    BY <1>1
  <2> QED
    BY <2>1, OthersLookTheSame
<1>4. \A m \in Mbufs \ batch : Seen'[m] = Seen[m] /\ Flipped'[m] = Flipped[m]
  BY DEF Seen, Flipped
<1>5. Image(Seen', tx_ring[q]) = Image(Seen, tx_ring[q])
  BY <1>1, <1>2, <1>4, ImageDepends
<1>6. Image(Seen', rx_ring[q]) = Image(Seen, rx_ring[q])
  BY <1>1, <1>2, <1>4, ImageDepends
<1>7. Image(Flipped', tx_buffer[q]) = Image(Flipped, tx_buffer[q])
  BY <1>1, <1>2, <1>4, ImageDepends
<1>8. Image(Asked(q)', rx_bufs[q]) = Image(Asked(q), rx_bufs[q])
  BY <1>1, ImageDepends
<1>9. Pending(q)' = Pending(q) /\ Replied(q)' = Replied(q)
  BY <1>5, <1>6, <1>7, <1>8, MapByViews, MapByViewsNext, ZenonT(30) DEF MapIsViews
<1> QED
  BY <1>3, <1>9, Stutters

\* The exchange of the endpoints is undone by Asked, which knows from the stage
\* of the worker that it has happened.
LEMMA MapRewrite ==
  ASSUME Inv, Inv', NEW q \in Queues, Rewrite(q), UNCHANGED bufferVars
  PROVE  UNCHANGED Service!serviceVars
<1>1. /\ TypeOK /\ TypeOK' /\ MbufOwnership /\ HeldCarry
      /\ UNCHANGED <<rx_ring, tx_ring, requests, wire, rx_bufs>>
      /\ UNCHANGED <<tx_buffer, tx_buffer_drops>>
      /\ pc[q] = "rewrite" /\ pc' = [pc EXCEPT ![q] = "checksum"]
      /\ pkt' = [m \in Mbufs |-> IF m \in Range(rx_bufs[q])
                                THEN SwapEndpoints(pkt[m]) ELSE pkt[m]]
  BY DEF Inv, Rewrite, Goto, EditBatch, bufferVars
<1>2. \A r \in Queues \ {q} : pc'[r] = pc[r]
  BY <1>1 DEF TypeOK
<1>3. ~Swapped(q) /\ Swapped(q)'
  BY <1>1 DEF Swapped, TypeOK
<1>4. ASSUME NEW m \in Range(rx_bufs[q]) PROVE Asked(q)'[m] = Asked(q)[m]
  <2>1. m \in Mbufs /\ pkt[m] \in Packet
    BY <1>1, HeldNotFree DEF HeldCarry
  <2>2. pkt'[m] = SwapEndpoints(pkt[m])
    BY <1>1, <2>1
  <2>3. Asked(q)'[m] = Service!Echo(HeaderOf(SwapEndpoints(pkt[m])))
    BY <1>3, <2>1, <2>2 DEF Asked, Flipped
  <2>4. Asked(q)[m] = HeaderOf(pkt[m])
    BY <1>3, <2>1 DEF Asked, Seen
  <2>5. Service!Echo(HeaderOf(SwapEndpoints(pkt[m]))) = HeaderOf(pkt[m])
    BY <2>1 DEF Service!Echo, HeaderOf, SwapEndpoints, Packet
  <2> QED
    BY <2>3, <2>4, <2>5
<1> QED
  BY <1>1, <1>2, <1>4, MapEdit

\* The checksum stage changes nothing the service sees.
LEMMA MapChecksum ==
  ASSUME Inv, Inv', NEW q \in Queues, ChecksumThenTx(q)
  PROVE  UNCHANGED Service!serviceVars
<1>1. /\ TypeOK /\ TypeOK' /\ MbufOwnership /\ HeldCarry
      /\ UNCHANGED <<rx_ring, tx_ring, requests, wire, rx_bufs>>
      /\ UNCHANGED <<tx_buffer, tx_buffer_drops>>
      /\ pc[q] = "checksum" /\ pc' = [pc EXCEPT ![q] = "tx"]
      /\ pkt' = [m \in Mbufs |-> IF m \in Range(rx_bufs[q])
                                THEN FixChecksum(checksum_mode, pkt[m]) ELSE pkt[m]]
  BY DEF Inv, ChecksumThenTx, Checksum, Goto, EditBatch
<1>2. \A r \in Queues \ {q} : pc'[r] = pc[r]
  BY <1>1 DEF TypeOK
<1>3. Swapped(q) /\ Swapped(q)'
  BY <1>1 DEF Swapped, TypeOK
<1>4. ASSUME NEW m \in Range(rx_bufs[q]) PROVE Asked(q)'[m] = Asked(q)[m]
  <2>1. m \in Mbufs /\ pkt[m] \in Packet
    BY <1>1, HeldNotFree DEF HeldCarry
  <2>2. pkt'[m] = FixChecksum(checksum_mode, pkt[m])
    BY <1>1, <2>1
  <2>3. HeaderOf(FixChecksum(checksum_mode, pkt[m])) = HeaderOf(pkt[m])
    <3>1. checksum_mode \in {"software", "offload", "preserve", "none"}
      BY <1>1, WorkerAssumption DEF TypeOK, WorkerTypeOK
    <3>2. \A c : HeaderOf([pkt[m] EXCEPT !.cksum = c]) = HeaderOf(pkt[m])
      BY <2>1 DEF HeaderOf, Packet
    <3> QED
      BY <3>1, <3>2 DEF FixChecksum
  <2> QED
    BY <1>3, <2>1, <2>2, <2>3 DEF Asked, Flipped
<1> QED
  BY <1>1, <1>2, <1>4, MapEdit

\* What the NIC sends leaves the TX ring for the wire, and its headers are those
\* it had in the ring.
LEMMA MapTransmit ==
  ASSUME Inv, Inv', NEW q \in Queues, Transmit(q),
         UNCHANGED <<workerVars, bufferVars>>
  PROVE  UNCHANGED Service!serviceVars
<1> DEFINE ring == tx_ring[q]
           m == Head(ring)
           rest == Tail(ring)
           p == OnWire(pkt[m])
<1>1. /\ TypeOK /\ TypeOK' /\ MbufOwnership /\ HeldCarry
      /\ UNCHANGED <<rx_ring, requests, pc, rx_bufs, tx_buffer, tx_buffer_drops>>
  BY DEF Inv, Transmit, workerVars, bufferVars
<1>2. /\ ring # <<>>
      /\ tx_ring' = [tx_ring EXCEPT ![q] = rest]
      /\ wire' = [wire EXCEPT ![q] = Append(@, p)]
      /\ pkt' = [n \in Mbufs |-> IF n \in Range(<<m>>) THEN NoPacket ELSE pkt[n]]
  BY Zenon DEF Transmit, FreeAll
<1>3. /\ ring \in Seq(Mbufs) /\ rx_bufs[q] \in Seq(Mbufs)
      /\ rx_ring[q] \in Seq(Mbufs) /\ tx_buffer[q] \in Seq(Mbufs)
      /\ wire[q] \in Seq(Packet)
  BY <1>1, PartsTyped, WorkerParts
<1>4. /\ m \in Mbufs /\ rest \in Seq(Mbufs) /\ Range(<<m>>) = {m}
      /\ <<m>> \in Seq(Mbufs) /\ <<m>> \o rest = ring
  BY <1>2, <1>3, HeadAndTail
<1>5. /\ m \in Range(ring) /\ Range(rest) \subseteq Mbufs \ {m}
      /\ m \in Mbufs \ pool
  <2> DEFINE one == <<m>>
  <2>1. one \in Seq(Mbufs) /\ rest \in Seq(Mbufs) /\ Range(one) = {m}
    BY <1>4
  <2>2. IsInjective(ring) /\ ring = one \o rest /\ Range(ring) \subseteq Mbufs \ pool
    BY <1>1, <1>4, OwnApart
  <2> HIDE DEF one, ring, rest, m
  <2>3. Range(one \o rest) = Range(one) \union Range(rest)
    BY <2>1, RangeConcatenation
  <2>4. Range(one) \intersect Range(rest) = {}
    <3>1. IsInjective(one \o rest)
      BY <2>2
    <3> QED
      BY <2>1, <3>1, ConcatInjective
  <2> QED
    BY <2>1, <2>2, <2>3, <2>4
<1>6. /\ Range(rx_bufs[q]) \subseteq Mbufs \ {m}
      /\ Range(rx_ring[q]) \subseteq Mbufs \ {m}
      /\ Range(tx_buffer[q]) \subseteq Mbufs \ {m}
      /\ m \in Range(Held[q])
  BY <1>1, <1>5, OwnApart, WhereHeld
<1>7. p \in Packet /\ HeaderOf(p) = HeaderOf(pkt[m])
  <2>1. pkt[m] \in Packet
    BY <1>1, <1>5 DEF HeldCarry
  <2> QED
    BY <2>1 DEF OnWire, Packet, CksumState, HeaderOf
<1> HIDE DEF ring, m, rest, p
<1>8. /\ tx_ring'[q] = rest /\ wire'[q] = Append(wire[q], p)
      /\ \A r \in Queues \ {q} : tx_ring'[r] = tx_ring[r] /\ wire'[r] = wire[r]
      /\ \A n \in Mbufs \ {m} : pkt'[n] = pkt[n]
  BY <1>1, <1>2, <1>4 DEF TypeOK, PortTypeOK
<1>9. ASSUME NEW r \in Queues \ {q}
      PROVE  Pending(r)' = Pending(r) /\ Replied(r)' = Replied(r)
  BY <1>1, <1>6, <1>8, OthersLookTheSame
<1>10. \A n \in Mbufs \ {m} : /\ Seen'[n] = Seen[n] /\ Flipped'[n] = Flipped[n]
                             /\ Asked(q)'[n] = Asked(q)[n]
  BY <1>1, <1>8 DEF Seen, Flipped, Asked, Swapped
<1>11. Pending(q)' = Pending(q)
  <2>1. Image(Seen', rx_ring[q]) = Image(Seen, rx_ring[q])
    BY <1>3, <1>6, <1>10, ImageDepends
  <2>2. Image(Asked(q)', rx_bufs[q]) = Image(Asked(q), rx_bufs[q])
    BY <1>3, <1>6, <1>10, ImageDepends
  <2>3. Image(Flipped', tx_buffer[q]) = Image(Flipped, tx_buffer[q])
    BY <1>3, <1>6, <1>10, ImageDepends
  <2> QED
    BY <1>1, <2>1, <2>2, <2>3, MapByViews, MapByViewsNext DEF MapIsViews
<1>12. Replied(q)' = Replied(q)
  <2> DEFINE sent == Image(SeenOnWire, wire[q])
             left == Image(Seen, rest)
             h == HeaderOf(p)
  <2>1. Image(SeenOnWire, Append(wire[q], p)) = sent \o <<h>>
    <3>1. SeenOnWire[p] = h
      BY <1>7 DEF SeenOnWire
    <3>2. Image(SeenOnWire, Append(wire[q], p))
            = Image(SeenOnWire, wire[q]) \o <<SeenOnWire[p]>>
      BY <1>3, <1>7, ImageAppend
    <3> QED
      BY <3>1, <3>2
  <2>2. Image(Seen', rest) = left
    BY <1>4, <1>5, <1>10, ImageDepends
  <2>3. Image(Seen, ring) = <<h>> \o left
    <3>1. Seen[m] = h
      BY <1>4, <1>7 DEF Seen
    <3>2. Image(Seen, ring) = <<Seen[Head(ring)]>> \o Image(Seen, Tail(ring))
      BY <1>2, <1>3, ImageHead
    <3> QED
      BY <3>1, <3>2 DEF m, rest
  <2>4. Replied(q)' = (sent \o <<h>>) \o left
    BY <1>1, <1>8, <2>1, <2>2, MapByViewsNext
  <2>5. Replied(q) = sent \o (<<h>> \o left)
    BY <1>1, <2>3, MapByViews DEF MapIsViews, ring
  <2>6. sent \in Seq(Shown) /\ left \in Seq(Shown) /\ h \in Shown
    <3>1. sent \in Seq(Shown)
      BY <1>1, <1>3, ImagesTyped
    <3>2. left \in Seq(Shown)
      BY <1>1, <1>4, ImagesTyped
    <3>3. h \in Shown
      BY <1>7 DEF Shown, Content
    <3> QED
      BY <3>1, <3>2, <3>3
  <2> HIDE DEF sent, left, h
  <2>7. (sent \o <<h>>) \o left = sent \o (<<h>> \o left)
    <3>1. <<h>> \in Seq(Shown)
      BY <2>6
    <3> QED
      BY <2>6, <3>1, ConcatAssociative, SMTT(30)
  <2> QED
    BY <2>4, <2>5, <2>7, Zenon
<1> QED
  BY <1>1, <1>9, <1>11, <1>12, Stutters

\* Packets bufs that are handed to the NIC are answered up to the one that found
\* no descriptor, and dropped from there on.  rest is what the worker has left
\* of its batch.
LEMMA MapSend ==
  ASSUME TypeOK, TypeOK', MbufOwnership, NEW q \in Queues,
         NEW bufs \in Seq(Mbufs), NEW rest \in Seq(Mbufs), bufs # <<>>,
         Held[q] = tx_ring[q] \o bufs \o (rest \o rx_ring[q]),
         NEW k \in TxBursts(q, bufs), SendBuffer(q, bufs, k),
         rx_bufs' = [rx_bufs EXCEPT ![q] = rest],
         \A r \in Queues \ {q} : pc'[r] = pc[r],
         (Swapped(q)' <=> Swapped(q)) \/ rest = <<>>,
         Pending(q) = Image(Flipped, bufs)
                        \o (Image(Asked(q), rest) \o Image(Seen, rx_ring[q]))
  PROVE  Service!Answer(q)
<1> DEFINE n == Len(bufs)
           front == SubSeq(bufs, 1, k)
           back == SubSeq(bufs, k + 1, n)
<1>1. /\ tx_ring' = [tx_ring EXCEPT ![q] = @ \o front]
      /\ pkt' = [m \in Mbufs |-> IF m \in Range(back) THEN NoPacket ELSE pkt[m]]
      /\ UNCHANGED <<rx_ring, requests, wire>>
      /\ tx_buffer' = [tx_buffer EXCEPT ![q] = <<>>]
      /\ tx_buffer_drops' = [tx_buffer_drops EXCEPT ![q] = @ + (n - k)]
  BY DEF SendBuffer, SendOrFree, FreeAll
<1>2. /\ tx_ring[q] \in Seq(Mbufs) /\ rx_ring[q] \in Seq(Mbufs)
      /\ wire[q] \in Seq(Packet)
  BY PartsTyped, WorkerParts
<1>3. k \in 0..n /\ n \in Nat /\ n >= 1
  <2>1. n \in Nat /\ n # 0
    BY EmptySeq, LenProperties
  <2> QED
    BY <2>1 DEF TxBursts
<1>4. /\ front \in Seq(Mbufs) /\ Len(front) = k /\ back \in Seq(Mbufs)
      /\ front \o back = bufs
      /\ \A i \in 1..k : front[i] = bufs[i]
  <2>1. /\ front \in Seq(Mbufs) /\ Len(front) = k /\ back \in Seq(Mbufs)
        /\ front \o back = bufs
    BY <1>3, CutInTwo
  <2>2. \A i \in 1..k : front[i] = bufs[i]
    BY <1>3
  <2> QED
    BY <2>1, <2>2
<1>5. /\ Range(front) \subseteq Mbufs \ Range(back)
      /\ Range(tx_ring[q]) \subseteq Mbufs \ Range(back)
      /\ Range(rest) \subseteq Mbufs \ Range(back)
      /\ Range(rx_ring[q]) \subseteq Mbufs \ Range(back)
      /\ Range(back) \subseteq Range(Held[q])
  <2> DEFINE out == tx_ring[q]
             ring == rx_ring[q]
             right == rest \o ring
  <2>1. out \in Seq(Mbufs) /\ ring \in Seq(Mbufs)
    BY <1>2
  <2>2. right \in Seq(Mbufs) /\ Range(right) = Range(rest) \union Range(ring)
    <3> HIDE DEF ring
    <3> QED
      BY <2>1, ConcatProperties, RangeConcatenation
  <2>3. Held[q] = out \o bufs \o right /\ IsInjective(Held[q])
    BY HeldNotFree
  <2>4. Range(Held[q]) \subseteq Mbufs
    BY WhereHeld
  <2> HIDE DEF out, right
  <2>5. /\ Range(Held[q]) = Range(out) \union Range(bufs) \union Range(right)
        /\ IsInjective(bufs)
        /\ Range(out) \intersect Range(bufs) = {}
        /\ Range(bufs) \intersect Range(right) = {}
    <3>1. IsInjective(out \o bufs \o right)
      BY <2>3
    <3> QED
      BY <2>1, <2>2, <2>3, <3>1, ThreeParts
  <2>6. Range(bufs) = Range(front) \union Range(back)
    <3> HIDE DEF front, back
    <3>1. front \in Seq(Mbufs) /\ back \in Seq(Mbufs) /\ bufs = front \o back
      BY <1>4
    <3> QED
      BY <3>1, RangeConcatenation
  <2>7. Range(front) \intersect Range(back) = {}
    <3> HIDE DEF front, back
    <3>1. front \in Seq(Mbufs) /\ back \in Seq(Mbufs) /\ IsInjective(front \o back)
      BY <1>4, <2>5
    <3> QED
      BY <3>1, ConcatInjective
  <2> HIDE DEF ring, front, back
  <2>8. /\ Range(front) \subseteq Mbufs \ Range(back)
        /\ Range(out) \subseteq Mbufs \ Range(back)
        /\ Range(rest) \subseteq Mbufs \ Range(back)
        /\ Range(ring) \subseteq Mbufs \ Range(back)
        /\ Range(back) \subseteq Range(Held[q])
    BY <2>2, <2>4, <2>5, <2>6, <2>7
  <2> QED
    BY <2>8 DEF out, ring
<1> HIDE DEF front, back
<1>6. /\ tx_ring'[q] = tx_ring[q] \o front /\ rx_bufs'[q] = rest
      /\ tx_buffer'[q] = <<>>
      /\ tx_buffer_drops'[q] = tx_buffer_drops[q] + (n - k)
      /\ \A r \in Queues \ {q} : /\ tx_ring'[r] = tx_ring[r]
                                /\ rx_bufs'[r] = rx_bufs[r]
                                /\ tx_buffer'[r] = tx_buffer[r]
                                /\ tx_buffer_drops'[r] = tx_buffer_drops[r]
      /\ \A m \in Mbufs \ Range(back) : pkt'[m] = pkt[m]
  BY <1>1, SMTT(30) DEF TypeOK, PortTypeOK, WorkerTypeOK
<1>7. ASSUME NEW r \in Queues \ {q}
      PROVE  Pending(r)' = Pending(r) /\ Replied(r)' = Replied(r)
  <2>1. \A m \in Mbufs \ (pool \union Range(Held[q])) : pkt'[m] = pkt[m]
    BY <1>5, <1>6
  <2> QED
    BY <1>1, <1>6, <2>1, OthersLookTheSame
<1>8. \A m \in Mbufs \ Range(back) : Seen'[m] = Seen[m] /\ Flipped'[m] = Flipped[m]
  BY <1>6 DEF Seen, Flipped
<1> DEFINE first == Image(Flipped, bufs)
           batch == Image(Asked(q), rest)
           ring == Image(Seen, rx_ring[q])
           left == batch \o ring
           gone == Image(Seen, front)
<1>9. /\ first \in Seq(Shown) /\ batch \in Seq(Shown) /\ ring \in Seq(Shown)
      /\ gone \in Seq(Shown) /\ Len(first) = n
  <2>1. Len(first) = n
    BY ImageSeq
  <2> QED
    BY <1>2, <1>4, <2>1, ImagesTyped
<1>10. left \in Seq(Shown) /\ Len(left) \in Nat
  <2> HIDE DEF batch, ring
  <2> QED
    BY <1>9, ConcatProperties, LenProperties
<1>11. Pending(q) = first \o left
  OBVIOUS
<1>12. Pending(q)' = left
  <2>1. Image(Seen', rx_ring[q]) = ring
    BY <1>2, <1>5, <1>8, ImageDepends
  <2>2. Image(Asked(q)', rest) = batch
    <3>1. CASE Swapped(q)' <=> Swapped(q)
      <4>1. \A m \in Range(rest) : Asked(q)'[m] = Asked(q)[m]
        BY <1>5, <1>8, <3>1 DEF Asked
      <4> QED
        BY <4>1, ImageDepends
    <3>2. CASE rest = <<>>
      BY <3>2, ImageEmpty
    <3> QED
      BY <3>1, <3>2
  <2>3. Image(Flipped', <<>>) = <<>>
    BY ImageEmpty
  <2>4. Pending(q)' = <<>> \o left
    <3>1. Pending(q)' = Image(Flipped', tx_buffer'[q])
                         \o (Image(Asked(q)', rx_bufs'[q]) \o Image(Seen', rx_ring'[q]))
      BY MapByViewsNext
    <3>2. rx_ring' = rx_ring
      BY <1>1
    <3> HIDE DEF batch, ring
    <3> QED
      BY <1>6, <2>1, <2>2, <2>3, <3>1, <3>2, Zenon
  <2> HIDE DEF left
  <2>5. <<>> \o left = left
    BY <1>10, ConcatEmptySeq
  <2> QED
    BY <2>4, <2>5, Zenon
<1> HIDE DEF left, first
<1>13. left = SubSeq(Pending(q), n + 1, Len(Pending(q)))
  <2>1. SubSeq(first \o left, Len(first) + 1, Len(first \o left)) = left
    BY <1>9, <1>10, CutLeft
  <2> QED
    BY <1>9, <1>11, <2>1, Zenon
<1>14. gone = [i \in 1..k |-> Service!Echo(Pending(q)[i])]
  <2>1. ASSUME NEW i \in 1..k PROVE Seen[front[i]] = Service!Echo(Pending(q)[i])
    <3> DEFINE m == bufs[i]
    <3>1. i \in 1..n /\ i \in 1..Len(bufs) /\ m \in Mbufs /\ front[i] = m
      BY <1>3, <1>4, ElementOfSeq
    <3>2. Pending(q)[i] = first[i]
      <4>1. i \in 1..Len(first) + Len(left) /\ i <= Len(first)
        <5> HIDE DEF n
        <5> QED
          BY <1>3, <1>9, <1>10, <3>1
      <4>2. (first \o left)[i] = first[i]
        BY <1>9, <1>10, <4>1, ConcatProperties
      <4> QED
        BY <1>11, <4>2
    <3>3. first[i] = Flipped[m]
      BY <3>1 DEF Image, first
    <3>4. Flipped[m] = Service!Echo(HeaderOf(pkt[m])) /\ Seen[m] = HeaderOf(pkt[m])
      BY <3>1 DEF Flipped, Seen
    <3>5. Service!Echo(Service!Echo(HeaderOf(pkt[m]))) = HeaderOf(pkt[m])
      BY DEF Service!Echo, HeaderOf
    <3> HIDE DEF m
    <3> QED
      BY <3>1, <3>2, <3>3, <3>4, <3>5
  <2> QED
    BY <1>4, <2>1 DEF Image
<1>15. Replied(q)' = Replied(q) \o gone
  <2> DEFINE sent == Image(SeenOnWire, wire[q])
             waiting == Image(Seen, tx_ring[q])
  <2>1. Image(Seen', tx_ring[q]) = waiting
    BY <1>2, <1>5, <1>8, ImageDepends
  <2>2. Image(Seen', front) = gone
    BY <1>4, <1>5, <1>8, ImageDepends
  <2>3. Image(Seen', tx_ring[q] \o front)
          = Image(Seen', tx_ring[q]) \o Image(Seen', front)
    <3>1. \A f : \A s, t \in Seq(Mbufs) :
            Image(f, s \o t) = Image(f, s) \o Image(f, t)
      BY ImageConcat, ZenonT(30)
    <3>2. tx_ring[q] \in Seq(Mbufs) /\ front \in Seq(Mbufs)
      BY <1>2, <1>4
    <3> QED
      BY <3>1, <3>2, Zenon
  <2>4. Replied(q)' = sent \o (waiting \o gone)
    <3>1. Replied(q)' = Image(SeenOnWire, wire'[q]) \o Image(Seen', tx_ring'[q])
      BY MapByViewsNext
    <3>2. wire' = wire /\ tx_ring'[q] = tx_ring[q] \o front
      BY <1>1, <1>6
    <3> QED
      BY <2>1, <2>2, <2>3, <3>1, <3>2, Zenon
  <2>5. Replied(q) = sent \o waiting
    BY MapByViews DEF MapIsViews
  <2>6. sent \in Seq(Shown) /\ waiting \in Seq(Shown)
    BY <1>2, ImagesTyped
  <2> HIDE DEF sent, waiting, gone
  <2>7. (sent \o waiting) \o gone = sent \o (waiting \o gone)
    <3>1. sent \in Seq(Shown) /\ waiting \in Seq(Shown) /\ gone \in Seq(Shown)
      BY <1>9, <2>6
    <3> QED
      BY <3>1, ConcatAssociative, SMTT(30)
  <2> QED
    BY <2>4, <2>5, <2>7, Zenon
<1>16. n \in 1..Len(Pending(q))
  <2> HIDE DEF n
  <2>1. Len(Pending(q)) = n + Len(left)
    BY <1>9, <1>10, <1>11, ConcatProperties
  <2> QED
    BY <1>3, <1>10, <2>1
<1> HIDE DEF n, gone
<1>17. [r \in Queues |-> Pending(r)]' =
         [[r \in Queues |-> Pending(r)] EXCEPT ![q] = SubSeq(@, n + 1, Len(@))]
  BY <1>7, <1>12, <1>13
<1>18. [r \in Queues |-> Replied(r)]' =
         [[r \in Queues |-> Replied(r)] EXCEPT
            ![q] = @ \o [i \in 1..k |->
                          Service!Echo([r \in Queues |-> Pending(r)][q][i])]]
  <2>1. [r \in Queues |-> Replied(r)]' =
          [[r \in Queues |-> Replied(r)] EXCEPT ![q] = Replied(q) \o gone]
    BY <1>7, <1>15
  <2>2. [r \in Queues |-> Pending(r)][q] = Pending(q)
    OBVIOUS
  <2>3. [r \in Queues |-> Replied(r)][q] = Replied(q)
    OBVIOUS
  <2> QED
    BY <1>14, <2>1, <2>2, <2>3, Zenon
<1>19. [r \in Queues |-> tx_buffer_drops[r]]' =
         [[r \in Queues |-> tx_buffer_drops[r]] EXCEPT ![q] = @ + (n - k)]
  BY <1>6
<1>20. n \in 1..Len([r \in Queues |-> Pending(r)][q])
  BY <1>16
<1>21. requests' = requests
  BY <1>1
<1> QED
  BY <1>3, <1>17, <1>18, <1>19, <1>20, <1>21, Zenon DEF Service!Answer

\* A flush answers what is parked, and an empty buffer is no step.  The worker
\* has no batch when it flushes.
LEMMA MapFlush ==
  ASSUME Inv, Inv', NEW q \in Queues, FlushTxBuffer(q), UNCHANGED rx_bufs,
         rx_bufs[q] = <<>>, \A r \in Queues \ {q} : pc'[r] = pc[r]
  PROVE  [Service!Next]_Service!serviceVars
<1> DEFINE buf == tx_buffer[q]
           ring == rx_ring[q]
<1>1. TypeOK /\ TypeOK' /\ MbufOwnership
  BY DEF Inv
<1>2. PICK k \in TxBursts(q, buf) : SendBuffer(q, buf, k)
  BY DEF FlushTxBuffer
<1>3. /\ buf \in Seq(Mbufs) /\ ring \in Seq(Mbufs) /\ <<>> \in Seq(Mbufs)
      /\ Len(buf) \in Nat
  BY <1>1, PartsTyped, LenProperties
<1>4. CASE buf # <<>>
  <2> DEFINE rest == <<>>
  <2>1. Held[q] = tx_ring[q] \o buf \o (rest \o ring)
    BY <1>1, Regroup DEF HeldInThree
  <2>2. rx_bufs' = [rx_bufs EXCEPT ![q] = rest]
    BY <1>1 DEF TypeOK, WorkerTypeOK
  <2>3. Pending(q) = Image(Flipped, buf)
                       \o (Image(Asked(q), rest) \o Image(Seen, ring))
    BY <1>1, MapByViews DEF MapIsViews
  <2>4. rest \in Seq(Mbufs) /\ rest = <<>>
    OBVIOUS
  <2> HIDE DEF rest
  <2>5. Service!Answer(q)
    BY <1>1, <1>2, <1>3, <1>4, <2>1, <2>2, <2>3, <2>4, MapSend
  <2> QED
    BY <2>5 DEF Service!Next
<1>5. CASE buf = <<>>
  <2> DEFINE n == Len(buf)
  <2>1. n = 0 /\ k = 0 /\ n - k = 0 /\ k + 1 = 1
    BY <1>2, <1>3, <1>5 DEF TxBursts
  <2>2. SubSeq(buf, 1, k) = <<>> /\ SubSeq(buf, k + 1, n) = <<>>
    <3> HIDE DEF buf, n
    <3>1. SubSeq(buf, 1, 0) = <<>>
      BY SubSeqEmpty
    <3> QED
      BY <2>1, <3>1, Zenon
  <2>3. /\ tx_ring' = [tx_ring EXCEPT ![q] = @ \o <<>>]
        /\ pkt' = [m \in Mbufs |-> IF m \in Range(<<>>) THEN NoPacket ELSE pkt[m]]
        /\ UNCHANGED <<rx_ring, requests, wire>>
        /\ tx_buffer' = [tx_buffer EXCEPT ![q] = <<>>]
        /\ tx_buffer_drops' = [tx_buffer_drops EXCEPT ![q] = @ + 0]
    <3>1. /\ tx_ring' = [tx_ring EXCEPT ![q] = @ \o SubSeq(buf, 1, k)]
          /\ pkt' = [m \in Mbufs |-> IF m \in Range(SubSeq(buf, k + 1, n))
                                    THEN NoPacket ELSE pkt[m]]
          /\ UNCHANGED <<rx_ring, requests, wire>>
          /\ tx_buffer' = [tx_buffer EXCEPT ![q] = <<>>]
          /\ tx_buffer_drops' = [tx_buffer_drops EXCEPT ![q] = @ + (n - k)]
      BY <1>2 DEF SendBuffer, SendOrFree, FreeAll
    <3> HIDE DEF n, buf
    <3> QED
      BY <2>1, <2>2, <3>1
  <2>4. tx_ring[q] \o <<>> = tx_ring[q] /\ Range(<<>>) = {}
    <3>1. tx_ring[q] \in Seq(Mbufs)
      BY <1>1, PartsTyped
    <3> QED
      BY <3>1, ConcatEmptySeq DEF Range
  <2>5. /\ tx_ring' = tx_ring /\ pkt' = pkt /\ tx_buffer' = tx_buffer
        /\ tx_buffer_drops' = tx_buffer_drops
    <3>1. tx_buffer_drops[q] + 0 = tx_buffer_drops[q]
      <4>1. tx_buffer_drops[q] \in Nat
        BY <1>1, WorkerParts
      <4> QED
        BY <4>1
    <3> QED
      BY <1>1, <1>5, <2>3, <2>4, <3>1 DEF TypeOK, PortTypeOK
  <2>6. ASSUME NEW r \in Queues
        PROVE  Pending(r)' = Pending(r) /\ Replied(r)' = Replied(r)
    <3>1. (Swapped(r)' <=> Swapped(r)) \/ rx_bufs[r] = <<>>
      BY DEF Swapped
    <3> QED
      BY <1>1, <2>3, <2>5, <3>1, SameView
  <2> QED
    BY <2>3, <2>5, <2>6, Stutters
<1> QED
  BY <1>4, <1>5

\* A packet that is stored in the buffer is pending as before, and one that fills
\* it sends the buffer.
LEMMA MapTxBuffer ==
  ASSUME Inv, Inv', NEW q \in Queues, TxBuffer(q)
  PROVE  [Service!Next]_Service!serviceVars
<1> DEFINE buf == tx_buffer[q]
           batch == rx_bufs[q]
           m == Head(batch)
           rest == Tail(batch)
           bufs == Append(buf, m)
           ring == rx_ring[q]
<1>1. /\ TypeOK /\ TypeOK' /\ MbufOwnership
      /\ pc[q] = "tx" /\ pc' = pc /\ batch # <<>>
      /\ rx_bufs' = [rx_bufs EXCEPT ![q] = rest]
  BY DEF Inv, TxBuffer
<1>2. /\ buf \in Seq(Mbufs) /\ batch \in Seq(Mbufs) /\ ring \in Seq(Mbufs)
      /\ tx_ring[q] \in Seq(Mbufs)
  BY <1>1, PartsTyped
<1>3. /\ m \in Mbufs /\ rest \in Seq(Mbufs) /\ <<m>> \in Seq(Mbufs)
      /\ <<m>> \o rest = batch
  BY <1>1, <1>2, HeadAndTail
<1>4. Swapped(q) /\ Swapped(q)' /\ Asked(q) = Flipped
  BY <1>1 DEF Swapped, Asked
<1>5. bufs \in Seq(Mbufs) /\ bufs = buf \o <<m>> /\ bufs # <<>>
  <2> HIDE DEF buf, m
  <2>1. buf \in Seq(Mbufs) /\ m \in Mbufs
    BY <1>2, <1>3
  <2>2. bufs \in Seq(Mbufs) /\ bufs = buf \o <<m>> /\ Len(bufs) = Len(buf) + 1
    BY <2>1, AppendIsConcat, AppendProperties
  <2>3. Len(buf) \in Nat /\ Len(<<>>) = 0
    BY <2>1, LenProperties
  <2> QED
    BY <2>2, <2>3
<1> DEFINE one == <<m>>
           parked == Image(Flipped, buf)
           head == Image(Flipped, one)
           left == Image(Flipped, rest)
           waiting == Image(Seen, ring)
<1>6. one \in Seq(Mbufs) /\ one \o rest = batch /\ bufs = buf \o one
  BY <1>3, <1>5
<1>7. Image(Flipped, batch) = head \o left
  <2> HIDE DEF one, rest, batch
  <2>1. one \in Seq(Mbufs) /\ rest \in Seq(Mbufs)
    BY <1>3, <1>6
  <2>2. Image(Flipped, one \o rest) = Image(Flipped, one) \o Image(Flipped, rest)
    BY <2>1, ImageConcat
  <2> QED
    BY <1>6, <2>2
<1>8. Image(Flipped, bufs) = parked \o head
  <2> HIDE DEF one, buf, bufs
  <2>1. one \in Seq(Mbufs) /\ buf \in Seq(Mbufs)
    BY <1>2, <1>6
  <2>2. Image(Flipped, buf \o one) = Image(Flipped, buf) \o Image(Flipped, one)
    BY <2>1, ImageConcat
  <2> QED
    BY <1>6, <2>2
<1>9. /\ parked \in Seq(Shown) /\ head \in Seq(Shown)
      /\ left \in Seq(Shown) /\ waiting \in Seq(Shown)
  BY <1>1, <1>2, <1>3, <1>6, ImagesTyped
<1>10. Pending(q) = (parked \o head) \o (left \o waiting)
  <2>1. Pending(q) = parked \o ((head \o left) \o waiting)
    BY <1>1, <1>4, <1>7, MapByViews DEF MapIsViews
  <2> HIDE DEF parked, head, left, waiting
  <2>2. (head \o left) \o waiting = head \o (left \o waiting)
    <3>1. head \in Seq(Shown) /\ left \in Seq(Shown) /\ waiting \in Seq(Shown)
      BY <1>9
    <3> QED
      BY <3>1, ConcatAssociative, SMTT(30)
  <2>3. (parked \o head) \o (left \o waiting) = parked \o (head \o (left \o waiting))
    <3> DEFINE right == left \o waiting
    <3>1. right \in Seq(Shown)
      BY <1>9, ConcatProperties
    <3>2. parked \in Seq(Shown) /\ head \in Seq(Shown)
      BY <1>9
    <3> HIDE DEF right
    <3>3. (parked \o head) \o right = parked \o (head \o right)
      BY <3>1, <3>2, ConcatAssociative, SMTT(30)
    <3> QED
      BY <3>3 DEF right
  <2> QED
    BY <2>1, <2>2, <2>3, Zenon
<1>11. Pending(q) = Image(Flipped, bufs)
                      \o (Image(Asked(q), rest) \o Image(Seen, ring))
  <2> HIDE DEF parked, head
  <2> QED
    BY <1>4, <1>8, <1>10
<1>12. Held[q] = tx_ring[q] \o bufs \o (rest \o ring)
  <2> DEFINE out == tx_ring[q]
  <2>1. Held[q] = out \o buf \o (batch \o ring)
    BY <1>1, Regroup DEF HeldInThree
  <2>2. batch = one \o rest /\ bufs = buf \o one
    BY <1>6
  <2>3. /\ out \in Seq(Mbufs) /\ buf \in Seq(Mbufs) /\ one \in Seq(Mbufs)
        /\ rest \in Seq(Mbufs) /\ ring \in Seq(Mbufs)
    BY <1>2, <1>3
  <2> HIDE DEF out, buf, batch, one, rest, bufs, ring
  <2>4. (one \o rest) \o ring = one \o (rest \o ring)
    BY <2>3, ConcatAssociative, SMTT(30)
  <2> DEFINE right == rest \o ring
  <2>5. right \in Seq(Mbufs)
    BY <2>3, ConcatProperties
  <2> HIDE DEF right
  <2> DEFINE front == out \o buf
  <2>6. front \in Seq(Mbufs) /\ front \o one = out \o (buf \o one)
    <3>1. out \in Seq(Mbufs) /\ buf \in Seq(Mbufs) /\ one \in Seq(Mbufs)
      BY <2>3
    <3>2. front \in Seq(Mbufs)
      BY <3>1, ConcatProperties
    <3>3. (out \o buf) \o one = out \o (buf \o one)
      BY <3>1, ConcatAssociative, SMTT(30)
    <3> QED
      BY <3>2, <3>3
  <2> HIDE DEF front
  <2>7. (front \o one) \o right = front \o (one \o right)
    <3>1. front \in Seq(Mbufs) /\ one \in Seq(Mbufs) /\ right \in Seq(Mbufs)
      BY <2>3, <2>5, <2>6
    <3> QED
      BY <3>1, ConcatAssociative, SMTT(30)
  <2>8. Held[q] = out \o bufs \o right
    BY <2>1, <2>2, <2>4, <2>6, <2>7, Zenon DEF right, front
  <2> QED
    BY <2>8 DEF out, right
<1>13. CASE /\ tx_buffer' = [tx_buffer EXCEPT ![q] = bufs]
            /\ UNCHANGED <<portVars, tx_buffer_drops>>
  <2>1. /\ tx_buffer'[q] = bufs /\ rx_bufs'[q] = rest
        /\ \A r \in Queues \ {q} : tx_buffer'[r] = tx_buffer[r]
                                  /\ rx_bufs'[r] = rx_bufs[r]
        /\ UNCHANGED <<pkt, rx_ring, tx_ring, requests, wire>>
    BY <1>1, <1>13 DEF TypeOK, WorkerTypeOK, portVars
  <2>2. ASSUME NEW r \in Queues \ {q}
        PROVE  Pending(r)' = Pending(r) /\ Replied(r)' = Replied(r)
    BY <1>1, <2>1, SameView DEF Swapped
  <2>3. Seen' = Seen /\ Flipped' = Flipped /\ Asked(q)' = Flipped
    BY <1>4, <2>1 DEF Seen, Flipped, Asked
  <2>4. Pending(q)' = Pending(q)
    <3>1. Pending(q)' = Image(Flipped', tx_buffer'[q])
                         \o (Image(Asked(q)', rx_bufs'[q]) \o Image(Seen', rx_ring'[q]))
      BY <1>1, MapByViewsNext
    <3> HIDE DEF bufs, rest
    <3> QED
      BY <1>4, <1>11, <2>1, <2>3, <3>1
  <2>5. Replied(q)' = Replied(q)
    BY <1>1, <2>1, <2>3, MapByViews, MapByViewsNext DEF MapIsViews
  <2> QED
    BY <1>13, <2>1, <2>2, <2>4, <2>5, Stutters
<1>14. CASE \E k \in TxBursts(q, bufs) : SendBuffer(q, bufs, k)
  <2>1. PICK k \in TxBursts(q, bufs) : SendBuffer(q, bufs, k)
    BY <1>14
  <2>2. rest \in Seq(Mbufs)
    BY <1>3
  <2> HIDE DEF bufs, rest
  <2>3. Service!Answer(q)
    BY <1>1, <1>4, <1>5, <1>11, <1>12, <2>1, <2>2, MapSend DEF ring
  <2> QED
    BY <2>3 DEF Service!Next
<1> QED
  BY <1>13, <1>14 DEF TxBuffer

------------------------------------------------------------------------------
(* All together.                                                           *)

\* Nothing is pending and nothing answered at the start.
LEMMA MapInit == Init => Service!Init
<1> SUFFICES ASSUME Init PROVE Service!Init
  OBVIOUS
<1>1. TypeOK
  BY InvInit DEF Inv
<1>2. ASSUME NEW q \in Queues
      PROVE  Pending(q) = <<>> /\ Replied(q) = <<>> /\ tx_buffer_drops[q] = 0
  <2>1. /\ rx_bufs[q] = <<>> /\ rx_ring[q] = <<>> /\ tx_ring[q] = <<>>
        /\ wire[q] = <<>> /\ tx_buffer[q] = <<>> /\ tx_buffer_drops[q] = 0
    BY DEF Init, PortInit, WorkerInit
  <2>2. Pending(q) = <<>> \o (<<>> \o <<>>) /\ Replied(q) = <<>> \o <<>>
    BY <1>1, <2>1, MapByViews, ImageEmpty DEF MapIsViews
  <2>3. <<>> \o <<>> = <<>>
    OBVIOUS
  <2> QED
    BY <2>1, <2>2, <2>3
<1>3. requests = <<>>
  BY DEF Init, PortInit
<1> QED
  BY <1>2, <1>3 DEF Service!Init

\* Every step of the server is a step of the service or none.
LEMMA MapNext == Inv /\ Inv' /\ [Next]_vars => [Service!Next]_Service!serviceVars
<1> SUFFICES ASSUME Inv, Inv', [Next]_vars
             PROVE  [Service!Next]_Service!serviceVars
  OBVIOUS
<1>0. /\ \A q \in Queues : pc[q] \in {"poll", "flush", "report", "loop_end"}
                             => rx_bufs[q] = <<>>
      /\ \A q \in Queues : \A to : pc' = [pc EXCEPT ![q] = to]
                                 => \A r \in Queues \ {q} : pc'[r] = pc[r]
  BY DEF Inv, NoBatch, TypeOK
<1>1. ASSUME NEW h \in Traffic, Deliver(h), UNCHANGED <<workerVars, bufferVars>>
      PROVE  Service!Next
  BY <1>1, MapDeliver DEF Service!Next
<1>2. ASSUME NEW q \in Queues, Transmit(q), UNCHANGED <<workerVars, bufferVars>>
      PROVE  UNCHANGED Service!serviceVars
  BY <1>2, MapTransmit
<1>3. ASSUME NEW q \in Queues, EmptyPoll(q)
      PROVE  [Service!Next]_Service!serviceVars
  BY <1>0, <1>3, MapFlush DEF EmptyPoll, Goto
<1>4. ASSUME NEW q \in Queues, RxBurst(q), UNCHANGED bufferVars
      PROVE  UNCHANGED Service!serviceVars
  BY <1>4, MapRxBurst
<1>5. ASSUME NEW q \in Queues, Rewrite(q), UNCHANGED bufferVars
      PROVE  UNCHANGED Service!serviceVars
  BY <1>5, MapRewrite
<1>6. ASSUME NEW q \in Queues, ChecksumThenTx(q)
      PROVE  UNCHANGED Service!serviceVars
  BY <1>6, MapChecksum
<1>7. ASSUME NEW q \in Queues, TxBuffer(q)
      PROVE  [Service!Next]_Service!serviceVars
  BY <1>7, MapTxBuffer
<1>8. ASSUME NEW q \in Queues, TxEnd(q) PROVE UNCHANGED Service!serviceVars
  <2>1. /\ rx_bufs[q] = <<>>
        /\ UNCHANGED <<portVars, rx_bufs, tx_buffer, tx_buffer_drops>>
        /\ \E to \in {"flush", "loop_end"} : pc' = [pc EXCEPT ![q] = to]
    BY <1>8 DEF TxEnd, bufferVars
  <2> QED
    BY <1>0, <2>1, MapStill
<1>9. ASSUME NEW q \in Queues, FlushBeforeReport(q)
      PROVE  [Service!Next]_Service!serviceVars
  BY <1>0, <1>9, MapFlush DEF FlushBeforeReport, Goto
<1>10. ASSUME NEW q \in Queues, DueReport(q) PROVE UNCHANGED Service!serviceVars
  BY <1>0, <1>10, MapStill DEF DueReport, Goto, bufferVars
<1>11. ASSUME NEW q \in Queues, LoopEnd(q), UNCHANGED bufferVars
       PROVE  UNCHANGED Service!serviceVars
  BY <1>0, <1>11, MapStill DEF LoopEnd, Goto, bufferVars
<1>12. CASE UNCHANGED vars
  <2>1. /\ requests' = requests /\ tx_buffer_drops' = tx_buffer_drops
        /\ UNCHANGED <<pkt, rx_ring, tx_ring, wire, pc, rx_bufs, tx_buffer>>
    BY <1>12 DEF vars, portVars, workerVars, bufferVars
  <2>2. ASSUME NEW q \in Queues
        PROVE  Pending(q)' = Pending(q) /\ Replied(q)' = Replied(q)
    BY <2>1, SameView DEF Inv, Swapped
  <2> QED
    BY <2>1, <2>2, Stutters
<1> QED
  BY <1>1, <1>2, <1>3, <1>4, <1>5, <1>6, <1>7, <1>8, <1>9, <1>10, <1>11, <1>12
  DEF Next, Nic, Worker

\* The buffered servers answer as EchoService says: a parked packet keeps its place
\* among those pending, and what a full buffer or a flush sends is answered in
\* the order in which it came in.
THEOREM ImplementsService == Spec => Service!Spec
<1>1. Init => Service!Init
  BY MapInit
<1>2. Inv /\ Inv' /\ [Next]_vars => [Service!Next]_Service!serviceVars
  BY MapNext
<1> QED
  BY <1>1, <1>2, Invariance, PTL DEF Spec, Service!Spec

------------------------------------------------------------------------------
(* What is proved of the service holds of the buffered servers.            *)

Promise == INSTANCE EchoServiceProofs WITH
  accepted <- requests,
  pending <- [q \in Queues |-> Pending(q)],
  replied <- [q \in Queues |-> Replied(q)],
  dropped <- [q \in Queues |-> tx_buffer_drops[q]]

\* The port's RSS mapping is one the service allows.
LEMMA KeepsThePromise == Spec => Promise!Spec
<1>1. Service!Init => Promise!Init
  BY DEF Service!Init, Promise!Init
<1>2. [Service!Next]_Service!serviceVars => [Promise!Next]_Promise!serviceVars
  BY DEF Service!Next, Promise!Next, Service!serviceVars, Promise!serviceVars,
         Service!Accept, Promise!Accept, Service!Answer, Promise!Answer,
         Service!Request, Promise!Request, Service!Echo, Promise!Echo
<1>3. Service!Spec => Promise!Spec
  BY <1>1, <1>2, PTL DEF Service!Spec, Promise!Spec
<1> QED
  BY <1>3, ImplementsService, PTL

\* Parking reorders nothing: the answers of the txbuf servers leave each queue in
\* the order in which their requests came in, each once, on the queue of its
\* request, with the endpoints exchanged.
THEOREM BufferedAnswersInOrder == Spec => []Promise!InOrder
<1>1. Promise!ServiceAssumption
  BY PortAssumption DEF Promise!ServiceAssumption
<1>2. Promise!Spec => []Promise!InOrder
  BY <1>1, Promise!AnswersInOrder
<1> QED
  BY <1>2, KeepsThePromise, PTL

\* No packet that entered a queue of a txbuf server is lost without the callback
\* counting it: it was answered, was counted, or is still in the server.
THEOREM BufferedLosesNothing == Spec => []Promise!Conserved
<1>1. Promise!ServiceAssumption
  BY PortAssumption DEF Promise!ServiceAssumption
<1>2. Promise!Spec => []Promise!Conserved
  BY <1>1, Promise!NothingDisappears
<1> QED
  BY <1>2, KeepsThePromise, PTL
==============================================================================
