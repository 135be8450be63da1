---------------------------- MODULE ClientProofs -----------------------------
(***************************************************************************)
(* What the throughput tests of the two packet generators satisfy for      *)
(* every number of workers and mbufs and every ring and burst size: no     *)
(* worker leaks an mbuf of the pool they share, together they complete no  *)
(* more than they have sent, and main prints its sums when nobody can add  *)
(* to them any more.                                                       *)
(*                                                                         *)
(* The properties are about sums over all workers.  A step of one worker   *)
(* changes one term of each; that the sum changes by as much is a lemma    *)
(* about folds (DataLemmas).                                               *)
(***************************************************************************)
EXTENDS FastClient, DataLemmas

Plain == INSTANCE PlainClient

\* Where the workers of the two programs may stand.
Places == {"idle", "barrier", "loop", "alloc", "send", "receive", "retry",
           "drain", "final", "done"}

\* A worker has mbufs in its hands only between allocating and sending them.
EmptyHands == \A w \in Workers : pc[w] # "send" => created[w] = 0

\* main is no worker yet while it launches the others, has waited for the
\* workers it has counted, and adds up when there is nobody left to wait for.
MainWaited ==
  /\ main = "launch" => pc[0] = "idle"
  /\ main \in {"launch", "work"} => joined = 0
  /\ main \in {"join", "done"} => \A w \in 0..joined : pc[w] = "done"
  /\ main = "done" => /\ joined = num_queues - 1
                      /\ totals = [c \in DOMAIN Zero |-> Sum(c)]

ClientInv ==
  /\ ClientTypeOK
  /\ pc \in [Workers -> Places]
  /\ EmptyHands
  /\ TxMbufsConserved
  /\ CompletedWereSent
  /\ MainWaited

------------------------------------------------------------------------------
(* The sums.                                                               *)

\* The workers can be counted.
LEMMA FiniteWorkers == IsFiniteSet(Workers) /\ 0 \in Workers
<1>1. num_queues \in Nat /\ num_queues >= 1
  BY ClientAssumption
<1> QED
  BY <1>1, FS_Interval DEF Workers

\* All the sums are natural numbers.
LEMMA SumsTyped ==
  ClientTypeOK =>
    /\ SumFunction(created) \in Nat /\ SumFunction(tx_ring) \in Nat
    /\ SumFunction(rx_ring) \in Nat
    /\ \A c \in DOMAIN Zero : Sum(c) \in Nat
<1> SUFFICES ASSUME ClientTypeOK
             PROVE  /\ SumFunction(created) \in Nat
                    /\ SumFunction(tx_ring) \in Nat
                    /\ SumFunction(rx_ring) \in Nat
                    /\ \A c \in DOMAIN Zero : Sum(c) \in Nat
  OBVIOUS
<1>1. /\ created \in [Workers -> Nat] /\ tx_ring \in [Workers -> Nat]
      /\ rx_ring \in [Workers -> Nat]
  BY ClientAssumption DEF ClientTypeOK
<1>2. ASSUME NEW c \in DOMAIN Zero PROVE Sum(c) \in Nat
  <2>1. [w \in Workers |-> ctx[w][c]] \in [Workers -> Nat]
    BY DEF ClientTypeOK, Counters, Zero
  <2> QED
    BY <2>1, FiniteWorkers, SumType DEF Sum
<1> QED
  BY <1>1, <1>2, FiniteWorkers, SumType

\* The same in the next state.
LEMMA SumsTypedNext ==
  ClientTypeOK' =>
    /\ SumFunction(created') \in Nat /\ SumFunction(tx_ring') \in Nat
    /\ SumFunction(rx_ring') \in Nat
    /\ \A c \in DOMAIN Zero : Sum(c)' \in Nat
<1>1. (ClientTypeOK =>
         /\ SumFunction(created) \in Nat /\ SumFunction(tx_ring) \in Nat
         /\ SumFunction(rx_ring) \in Nat
         /\ \A c \in DOMAIN Zero : Sum(c) \in Nat)'
  BY SumsTyped, PTL
<1> QED
  BY <1>1 DEF Zero

\* One worker counts, the sum grows.
LEMMA SumCounts ==
  ASSUME ctx \in [Workers -> Counters], ctx' \in [Workers -> Counters],
         NEW w \in Workers, NEW c \in DOMAIN Zero, NEW n \in Int,
         ctx'[w][c] = ctx[w][c] + n, \A v \in Workers \ {w} : ctx'[v] = ctx[v]
  PROVE  Sum(c)' = Sum(c) + n
<1> DEFINE f == [v \in Workers |-> ctx[v][c]]
           g == [v \in Workers |-> ctx'[v][c]]
<1>1. f \in [Workers -> Int] /\ g \in [Workers -> Int]
  BY DEF Counters, Zero
<1>2. g[w] = f[w] + n /\ \A v \in Workers \ {w} : g[v] = f[v]
  OBVIOUS
<1> HIDE DEF f, g
<1>3. SumFunction(g) = SumFunction(f) + n
  BY <1>1, <1>2, FiniteWorkers, SumMoves
<1> QED
  BY <1>3 DEF Sum, f, g

\* One entry of a function of the workers changes, the sum does.
LEMMA SumSteps ==
  ASSUME NEW f \in [Workers -> Nat], NEW w \in Workers, NEW n \in Nat
  PROVE  SumFunction([f EXCEPT ![w] = n]) = SumFunction(f) + (n - f[w])
<1> DEFINE g == [f EXCEPT ![w] = n]
<1>1. /\ f \in [Workers -> Int] /\ g \in [Workers -> Int] /\ n - f[w] \in Int
      /\ g[w] = f[w] + (n - f[w]) /\ \A v \in Workers \ {w} : g[v] = f[v]
  OBVIOUS
<1> HIDE DEF g
<1>2. SumFunction(g) = SumFunction(f) + (n - f[w])
  BY <1>1, FiniteWorkers, SumMoves
<1> QED
  BY <1>2 DEF g

------------------------------------------------------------------------------
(* main and the clock.                                                     *)

\* At the start all mbufs are in the pool and nobody has counted anything.
LEMMA ClientInit == Init => ClientInv
<1> SUFFICES ASSUME Init PROVE ClientInv
  OBVIOUS
<1>1. num_queues \in Nat \ {0} /\ TxMbufs \in Nat /\ MaxRounds \in Nat
      /\ BURST_SIZE \in Nat /\ TX_RING_SIZE \in Nat /\ RX_RING_SIZE \in Nat
  BY ClientAssumption
<1>2. ClientTypeOK /\ pc \in [Workers -> Places]
  BY <1>1 DEF Init, ClientTypeOK, Workers, Counters, Zero, Places
<1>3. EmptyHands /\ MainWaited
  BY FiniteWorkers DEF Init, EmptyHands, MainWaited
<1>4. SumFunction([w \in Workers |-> 0]) = 0
  BY FiniteWorkers, SumOfZeros
<1>5. \A c \in DOMAIN Zero : [w \in Workers |-> ctx[w][c]] = [w \in Workers |-> 0]
  BY DEF Init, Zero
<1>6. Sum("completed") = 0 /\ Sum("tx_sent") = 0
  BY <1>4, <1>5 DEF Sum, Zero
<1>7. TxMbufsConserved /\ CompletedWereSent
  BY <1>1, <1>4, <1>6 DEF Init, TxMbufsConserved, CompletedWereSent
<1> QED
  BY <1>2, <1>3, <1>7 DEF ClientInv

\* A worker that holds no mbufs goes elsewhere.
LEMMA InvMoves ==
  ASSUME ClientInv, NEW w \in Workers, pc[w] \notin {"send", "done"},
         w # 0 \/ pc[w] # "idle", NEW to \in Places \ {"send"},
         pc' = [pc EXCEPT ![w] = to], rounds' \in [Workers -> 0..MaxRounds],
         UNCHANGED <<mainVars, clock, created, ctx, portVars>>
  PROVE  ClientInv'
<1>1. /\ UNCHANGED <<main, joined, totals, clock, created, ctx>>
      /\ UNCHANGED <<free, tx_ring, in_flight, rx_ring>>
  BY DEF mainVars, portVars
<1>2. \A c : Sum(c)' = Sum(c)
  BY <1>1 DEF Sum
<1>3. ClientTypeOK' /\ pc' \in [Workers -> Places]
  BY <1>1 DEF ClientInv, ClientTypeOK
<1>4. pc'[w] = to /\ \A v \in Workers \ {w} : pc'[v] = pc[v]
  BY DEF ClientInv
<1>5. EmptyHands' /\ TxMbufsConserved' /\ CompletedWereSent'
  BY <1>1, <1>2, <1>4
  DEF ClientInv, EmptyHands, TxMbufsConserved, CompletedWereSent
<1>6. MainWaited'
  <2>1. joined \in 0..(num_queues - 1) /\ num_queues \in Nat
    BY ClientAssumption DEF ClientInv, ClientTypeOK, Workers
  <2>2. main \in {"join", "done"} => \A v \in 0..joined : v \in Workers /\ v # w
    BY <2>1 DEF ClientInv, MainWaited, Workers
  <2>3. main \in {"join", "done"} => \A v \in 0..joined : pc'[v] = "done"
    BY <1>4, <2>2 DEF ClientInv, MainWaited
  <2>4. main = "launch" => pc'[0] = "idle"
    BY <1>4, FiniteWorkers DEF ClientInv, MainWaited
  <2> QED
    BY <1>1, <1>2, <2>3, <2>4 DEF ClientInv, MainWaited
<1> QED
  BY <1>3, <1>5, <1>6 DEF ClientInv

\* main launches, works, waits and adds up.
LEMMA InvMain ==
  ASSUME ClientInv, Main \/ LaunchFails
  PROVE  ClientInv'
<1>1. CASE \E w \in Workers : Launch(w)
  <2>1. PICK w \in Workers : Launch(w)
    BY <1>1
  <2>2. pc[w] \notin {"send", "done"} /\ w # 0
    BY <2>1 DEF Launch, Launched
  <2>3. /\ pc' = [pc EXCEPT ![w] = "barrier"] /\ rounds' = rounds
        /\ UNCHANGED <<mainVars, clock, created, ctx, portVars>>
    BY <2>1 DEF Launch
  <2>4. "barrier" \in Places \ {"send"} /\ rounds' \in [Workers -> 0..MaxRounds]
    BY <2>3 DEF Places, ClientInv, ClientTypeOK
  <2> QED
    BY <2>2, <2>3, <2>4, InvMoves
<1>2. ASSUME UNCHANGED <<clock, pc, rounds, created, ctx, portVars>>,
             MainWaited', main' \in {"launch", "work", "join", "done", "exited"},
             joined' \in Workers, totals' \in Counters
      PROVE  ClientInv'
  <2>1. \A c : Sum(c)' = Sum(c)
    BY <1>2 DEF Sum
  <2>2. ClientTypeOK' /\ pc' \in [Workers -> Places]
    BY <1>2 DEF ClientInv, ClientTypeOK, portVars
  <2>3. EmptyHands' /\ TxMbufsConserved' /\ CompletedWereSent'
    BY <1>2, <2>1
    DEF ClientInv, EmptyHands, TxMbufsConserved, CompletedWereSent, portVars
  <2> QED
    BY <1>2, <2>2, <2>3 DEF ClientInv
<1>3. /\ num_queues \in Nat \ {0} /\ joined \in Workers /\ totals \in Counters
      /\ Workers = 0..(num_queues - 1)
      /\ pc \in [Workers -> Places]
  BY ClientAssumption DEF ClientInv, ClientTypeOK, Workers
<1>4. CASE LaunchFails
  BY <1>2, <1>3, <1>4 DEF LaunchFails, MainWaited
<1>5. CASE Work
  <2>1. /\ main = "launch" /\ main' = "work" /\ pc[0] = "idle"
        /\ pc' = [pc EXCEPT ![0] = "barrier"]
        /\ UNCHANGED <<joined, totals, clock, rounds, created, ctx, portVars>>
    BY <1>5 DEF Work, ClientInv, MainWaited
  <2>2. \A c : Sum(c)' = Sum(c)
    BY <2>1 DEF Sum
  <2>3. ClientTypeOK' /\ pc' \in [Workers -> Places]
    BY <2>1 DEF ClientInv, ClientTypeOK, portVars, Places
  <2>4. EmptyHands' /\ MainWaited'
    BY <1>3, <2>1 DEF ClientInv, EmptyHands, MainWaited
  <2>5. TxMbufsConserved' /\ CompletedWereSent'
    BY <2>1, <2>2 DEF ClientInv, TxMbufsConserved, CompletedWereSent, portVars
  <2> QED
    BY <2>3, <2>4, <2>5 DEF ClientInv
<1>6. CASE WorkDone
  <2>1. /\ main' = "join" /\ pc[0] = "done" /\ main = "work"
        /\ UNCHANGED <<joined, totals, clock, pc, rounds, created, ctx, portVars>>
    BY <1>6 DEF WorkDone
  <2>2. joined = 0
    BY <2>1 DEF ClientInv, MainWaited
  <2>3. \A v \in 0..joined : pc[v] = "done"
    BY <2>1, <2>2
  <2>4. MainWaited'
    BY <2>1, <2>3 DEF MainWaited
  <2> QED
    BY <1>2, <1>3, <2>1, <2>4
<1>7. CASE Join
  <2>1. /\ main = "join" /\ joined < num_queues - 1 /\ pc[joined + 1] = "done"
        /\ joined' = joined + 1
        /\ UNCHANGED <<main, totals, clock, pc, rounds, created, ctx, portVars>>
    BY <1>7 DEF Join
  <2>2. \A v \in 0..(joined + 1) : pc[v] = "done"
    BY <1>3, <2>1 DEF ClientInv, MainWaited
  <2>3. MainWaited'
    BY <2>1, <2>2 DEF MainWaited
  <2>4. joined' \in Workers
    BY <1>3, <2>1
  <2> QED
    BY <1>2, <1>3, <2>1, <2>3, <2>4 DEF ClientInv, ClientTypeOK
<1>8. CASE Report
  <2>1. /\ main = "join" /\ joined = num_queues - 1 /\ main' = "done"
        /\ totals' = [c \in DOMAIN Zero |-> Sum(c)]
        /\ UNCHANGED <<joined, clock, pc, rounds, created, ctx, portVars>>
    BY <1>8 DEF Report
  <2>2. \A c : Sum(c)' = Sum(c)
    BY <2>1 DEF Sum
  <2>3. MainWaited'
    BY <2>1, <2>2 DEF ClientInv, MainWaited
  <2>4. totals' \in Counters
    <3>1. \A c \in DOMAIN Zero : Sum(c) \in Nat
      BY SumsTyped DEF ClientInv
    <3> QED
      BY <2>1, <3>1 DEF Zero, Counters
  <2> QED
    BY <1>2, <1>3, <2>1, <2>3, <2>4
<1> QED
  BY <1>1, <1>4, <1>5, <1>6, <1>7, <1>8 DEF Main

------------------------------------------------------------------------------
(* The NIC, the network and the clock.                                     *)

\* A step of nobody's program counter keeps what depends on it alone.
LEMMA InvRest ==
  ASSUME ClientInv, UNCHANGED <<main, joined, totals, pc, created, ctx>>,
         ClientTypeOK', TxMbufsConserved', CompletedWereSent'
  PROVE  ClientInv'
<1>1. \A c : Sum(c)' = Sum(c)
  BY DEF Sum
<1> QED
  BY <1>1 DEF ClientInv, EmptyHands, MainWaited

\* Time passes, packets are sent, echoed and lost.
LEMMA InvEnvironment ==
  ASSUME ClientInv, Environment
  PROVE  ClientInv'
<1>1. /\ ClientTypeOK /\ TxMbufsConserved /\ CompletedWereSent
      /\ TxMbufs \in Nat
      /\ \A w \in Workers : tx_ring[w] \in Nat /\ rx_ring[w] \in Nat
      /\ tx_ring \in [Workers -> Nat] /\ rx_ring \in [Workers -> Nat]
      /\ free \in Nat /\ in_flight \in Nat
  BY ClientAssumption DEF ClientInv, ClientTypeOK
<1>2. /\ SumFunction(created) \in Nat /\ SumFunction(tx_ring) \in Nat
      /\ SumFunction(rx_ring) \in Nat
      /\ Sum("completed") \in Nat /\ Sum("tx_sent") \in Nat
  BY <1>1, SumsTyped DEF Zero
<1>3. CASE Tick
  <2>1. UNCHANGED <<main, joined, totals, pc, created, ctx, rounds, portVars>>
    BY <1>3 DEF Tick, mainVars
  <2>2. Sum("completed")' = Sum("completed") /\ Sum("tx_sent")' = Sum("tx_sent")
    BY <2>1 DEF Sum
  <2>3. ClientTypeOK' /\ TxMbufsConserved' /\ CompletedWereSent'
    BY <1>1, <1>3, <2>1, <2>2
    DEF Tick, ClientTypeOK, TxMbufsConserved, CompletedWereSent, portVars
  <2> QED
    BY <2>1, <2>3, InvRest
<1>4. CASE Lose
  <2>1. /\ UNCHANGED <<main, joined, totals, clock, pc, created, ctx, rounds>>
        /\ UNCHANGED <<free, tx_ring, rx_ring>>
        /\ in_flight > 0 /\ in_flight' = in_flight - 1
    BY <1>4 DEF Lose, mainVars
  <2>2. Sum("completed")' = Sum("completed") /\ Sum("tx_sent")' = Sum("tx_sent")
    BY <2>1 DEF Sum
  <2>3. ClientTypeOK'
    BY <1>1, <2>1 DEF ClientTypeOK
  <2>4. TxMbufsConserved' /\ CompletedWereSent'
    BY <1>1, <1>2, <2>1, <2>2 DEF TxMbufsConserved, CompletedWereSent
  <2> QED
    BY <2>1, <2>3, <2>4, InvRest
<1>5. ASSUME NEW w \in Workers, Transmit(w) PROVE ClientInv'
  <2> DEFINE n == tx_ring[w] - 1
  <2>1. /\ UNCHANGED <<main, joined, totals, clock, pc, created, ctx, rounds>>
        /\ UNCHANGED rx_ring
        /\ tx_ring' = [tx_ring EXCEPT ![w] = n] /\ tx_ring[w] > 0
        /\ free' = free + 1 /\ in_flight' = in_flight + 1
    BY <1>5 DEF Transmit, mainVars
  <2>2. n \in Nat /\ n \in 0..TX_RING_SIZE /\ n - tx_ring[w] = 0 - 1
    BY <1>1, <2>1, ClientAssumption DEF ClientTypeOK
  <2> HIDE DEF n
  <2>3. SumFunction(tx_ring') = SumFunction(tx_ring) + (n - tx_ring[w])
    BY <1>1, <2>1, <2>2, SumSteps
  <2>4. tx_ring' \in [Workers -> 0..TX_RING_SIZE]
    BY <1>1, <2>1, <2>2 DEF ClientTypeOK
  <2>5. SumFunction(tx_ring') \in Nat
    <3>1. tx_ring' \in [Workers -> Nat]
      BY <2>4, ClientAssumption
    <3> QED
      BY <3>1, FiniteWorkers, SumType
  <2>6. Sum("completed")' = Sum("completed") /\ Sum("tx_sent")' = Sum("tx_sent")
    BY <2>1 DEF Sum
  <2>7. TxMbufsConserved' /\ CompletedWereSent'
    BY <1>1, <1>2, <2>1, <2>2, <2>3, <2>5, <2>6
    DEF TxMbufsConserved, CompletedWereSent
  <2>8. free' \in 0..TxMbufs
    BY <1>1, <1>2, <2>1, <2>5, <2>7 DEF TxMbufsConserved
  <2>9. ClientTypeOK'
    BY <1>1, <2>1, <2>4, <2>8 DEF ClientTypeOK
  <2> QED
    BY <2>1, <2>7, <2>9, InvRest
<1>6. ASSUME NEW w \in Workers, EchoArrives(w) PROVE ClientInv'
  <2> DEFINE n == rx_ring[w] + 1
  <2>1. /\ UNCHANGED <<main, joined, totals, clock, pc, created, ctx, rounds>>
        /\ UNCHANGED <<free, tx_ring>>
        /\ rx_ring' = [rx_ring EXCEPT ![w] = n] /\ rx_ring[w] < RX_RING_SIZE
        /\ in_flight > 0 /\ in_flight' = in_flight - 1
    BY <1>6 DEF EchoArrives, mainVars
  <2>2. n \in Nat /\ n \in 0..RX_RING_SIZE /\ n - rx_ring[w] = 1
    BY <1>1, <2>1, ClientAssumption DEF ClientTypeOK
  <2> HIDE DEF n
  <2>3. SumFunction(rx_ring') = SumFunction(rx_ring) + (n - rx_ring[w])
    BY <1>1, <2>1, <2>2, SumSteps
  <2>4. ClientTypeOK'
    BY <1>1, <2>1, <2>2 DEF ClientTypeOK
  <2>6. Sum("completed")' = Sum("completed") /\ Sum("tx_sent")' = Sum("tx_sent")
    BY <2>1 DEF Sum
  <2>7. TxMbufsConserved' /\ CompletedWereSent'
    BY <1>1, <1>2, <2>1, <2>2, <2>3, <2>6 DEF TxMbufsConserved, CompletedWereSent
  <2> QED
    BY <2>1, <2>4, <2>7, InvRest
<1> QED
  BY <1>3, <1>4, <1>5, <1>6 DEF Environment

------------------------------------------------------------------------------
(* The steps of the workers that touch mbufs.                              *)

\* A worker that is still running is not one that main has waited for.
LEMMA Running ==
  ASSUME ClientInv, NEW w \in Workers, pc[w] \notin {"idle", "done"},
         UNCHANGED mainVars, \A v \in Workers \ {w} : pc'[v] = pc[v]
  PROVE  MainWaited'
<1>1. UNCHANGED <<main, joined, totals>>
  BY DEF mainVars
<1>2. joined \in 0..(num_queues - 1) /\ num_queues \in Nat
  BY ClientAssumption DEF ClientInv, ClientTypeOK, Workers
<1>3. main \in {"join", "done"} => \A v \in 0..joined : v \in Workers /\ v # w
  BY <1>2 DEF ClientInv, MainWaited, Workers
<1>4. main \in {"join", "done"} => \A v \in 0..joined : pc'[v] = "done"
  BY <1>3 DEF ClientInv, MainWaited
<1>5. main = "launch" => pc'[0] = "idle"
  BY FiniteWorkers DEF ClientInv, MainWaited
<1>6. main # "done"
  BY <1>2, <1>3 DEF ClientInv, MainWaited, Workers
<1> QED
  BY <1>1, <1>4, <1>5, <1>6 DEF ClientInv, MainWaited

\* Mbufs of the pool become the packets of a burst.
LEMMA InvCreate ==
  ASSUME ClientInv, NEW w \in Workers, pc[w] = "alloc",
         NEW n \in 0..BURST_SIZE, n <= free, Create(w, n),
         NEW to \in Places, n # 0 => to = "send", pc' = [pc EXCEPT ![w] = to]
  PROVE  ClientInv'
<1>1. /\ UNCHANGED <<mainVars, clock, rounds, ctx, tx_ring, in_flight, rx_ring>>
      /\ created' = [created EXCEPT ![w] = n] /\ free' = free - n
  BY DEF Create
<1>2. /\ ClientTypeOK /\ created \in [Workers -> Nat] /\ n \in Nat
      /\ free \in 0..TxMbufs /\ TxMbufs \in Nat /\ created[w] = 0
  BY ClientAssumption DEF ClientInv, ClientTypeOK, EmptyHands
<1>3. SumFunction(created') = SumFunction(created) + (n - created[w])
  BY <1>1, <1>2, SumSteps
<1>4. SumFunction(created) \in Nat /\ SumFunction(tx_ring) \in Nat
  BY <1>2, SumsTyped
<1>5. Sum("completed")' = Sum("completed") /\ Sum("tx_sent")' = Sum("tx_sent")
  BY <1>1 DEF Sum
<1>6. TxMbufsConserved' /\ CompletedWereSent'
  BY <1>1, <1>2, <1>3, <1>4, <1>5
  DEF ClientInv, TxMbufsConserved, CompletedWereSent
<1>7. ClientTypeOK' /\ pc' \in [Workers -> Places]
  BY <1>1, <1>2 DEF ClientInv, ClientTypeOK, mainVars
<1>8. pc'[w] = to /\ \A v \in Workers \ {w} : pc'[v] = pc[v]
  BY DEF ClientInv
<1>9. EmptyHands'
  BY <1>1, <1>2, <1>8 DEF ClientInv, EmptyHands
<1>10. MainWaited'
  BY <1>1, <1>8, Running
<1> QED
  BY <1>6, <1>7, <1>9, <1>10 DEF ClientInv

\* The NIC takes some of the burst, the pool the others.
LEMMA InvSend ==
  ASSUME ClientInv, NEW w \in Workers, pc[w] = "send", SendBurst(w),
         NEW to \in Places \ {"send"}, pc' = [pc EXCEPT ![w] = to]
  PROVE  ClientInv'
<1>1. PICK nb_tx \in 0..created[w] :
        /\ tx_ring[w] + nb_tx <= TX_RING_SIZE
        /\ tx_ring' = [tx_ring EXCEPT ![w] = @ + nb_tx]
        /\ free' = free + (created[w] - nb_tx)
        /\ ctx' = [ctx EXCEPT ![w].tx_sent = @ + nb_tx,
                              ![w].tx_drops = @ + (created[w] - nb_tx)]
        /\ created' = [created EXCEPT ![w] = 0]
        /\ UNCHANGED <<mainVars, clock, rounds, in_flight, rx_ring>>
  BY DEF SendBurst
<1>2. /\ ClientTypeOK /\ created \in [Workers -> Nat]
      /\ tx_ring \in [Workers -> Nat] /\ ctx \in [Workers -> Counters]
      /\ free \in Nat /\ TxMbufs \in Nat /\ 0 \in Nat
      /\ TX_RING_SIZE \in Nat /\ BURST_SIZE \in Nat
  BY ClientAssumption DEF ClientInv, ClientTypeOK
<1>3. nb_tx \in Nat /\ created[w] \in Nat /\ created[w] - nb_tx \in Nat
      /\ tx_ring[w] + nb_tx \in Nat
  BY <1>1, <1>2
<1>4. SumFunction(created') = SumFunction(created) + (0 - created[w])
  BY <1>1, <1>2, SumSteps
<1>5. SumFunction(tx_ring') = SumFunction(tx_ring) + nb_tx
  <2>1. tx_ring' = [tx_ring EXCEPT ![w] = tx_ring[w] + nb_tx]
    BY <1>1
  <2>2. SumFunction(tx_ring')
          = SumFunction(tx_ring) + ((tx_ring[w] + nb_tx) - tx_ring[w])
    BY <1>2, <1>3, <2>1, SumSteps
  <2>3. (tx_ring[w] + nb_tx) - tx_ring[w] = nb_tx
    BY <1>2, <1>3
  <2> QED
    BY <2>2, <2>3
<1>6. /\ ctx' \in [Workers -> Counters]
      /\ ctx'[w].tx_sent = ctx[w].tx_sent + nb_tx
      /\ ctx'[w].completed = ctx[w].completed + 0
      /\ \A v \in Workers \ {w} : ctx'[v] = ctx[v]
  <2>1. /\ ctx'[w] = [ctx[w] EXCEPT !.tx_sent = @ + nb_tx,
                                    !.tx_drops = @ + (created[w] - nb_tx)]
        /\ \A v \in Workers \ {w} : ctx'[v] = ctx[v]
        /\ ctx' = [v \in Workers |-> ctx'[v]]
    BY <1>1, <1>2
  <2>2. ctx[w] \in Counters /\ ctx[w].completed \in Nat
    BY <1>2 DEF Counters
  <2>3. ctx'[w] \in Counters
    <3> DEFINE sent == ctx[w].tx_sent + nb_tx
               drops == ctx[w].tx_drops + (created[w] - nb_tx)
    <3>1. ctx'[w] = [ctx[w] EXCEPT !.tx_sent = sent, !.tx_drops = drops]
      BY <2>1, <2>2, Zenon
    <3>2. sent \in Nat /\ drops \in Nat
      BY <1>3, <2>2 DEF Counters
    <3> HIDE DEF sent, drops
    <3>3. \A c \in Counters : [c EXCEPT !.tx_sent = sent] \in Counters
      BY <3>2 DEF Counters
    <3>4. \A c \in Counters : [c EXCEPT !.tx_drops = drops] \in Counters
      BY <3>2 DEF Counters
    <3> QED
      BY <2>2, <3>1, <3>3, <3>4, Zenon
  <2>4. /\ ctx'[w].tx_sent = ctx[w].tx_sent + nb_tx
        /\ ctx'[w].completed = ctx[w].completed
    BY <2>1, <2>2 DEF Counters
  <2> QED
    BY <1>2, <2>1, <2>2, <2>3, <2>4
<1>7. Sum("tx_sent")' = Sum("tx_sent") + nb_tx
      /\ Sum("completed")' = Sum("completed") + 0
  <2>1. "tx_sent" \in DOMAIN Zero /\ "completed" \in DOMAIN Zero
        /\ nb_tx \in Int /\ 0 \in Int
    BY <1>3 DEF Zero
  <2> QED
    BY <1>2, <1>6, <2>1, SumCounts
<1>8. /\ SumFunction(created) \in Nat /\ SumFunction(tx_ring) \in Nat
      /\ SumFunction(rx_ring) \in Nat /\ in_flight \in Nat
      /\ Sum("completed") \in Nat /\ Sum("tx_sent") \in Nat
  BY <1>2, SumsTyped DEF Zero, ClientTypeOK
<1>9. TxMbufsConserved' /\ CompletedWereSent'
  BY <1>1, <1>2, <1>3, <1>4, <1>5, <1>7, <1>8
  DEF ClientInv, TxMbufsConserved, CompletedWereSent
<1>10. /\ tx_ring' \in [Workers -> 0..TX_RING_SIZE]
       /\ created' \in [Workers -> 0..BURST_SIZE]
  BY <1>1, <1>2, <1>3 DEF ClientTypeOK
<1>11. free' \in 0..TxMbufs
  <2>1. tx_ring' \in [Workers -> Nat] /\ created' \in [Workers -> Nat]
    BY <1>2, <1>10
  <2>2. SumFunction(tx_ring') \in Nat /\ SumFunction(created') \in Nat
    BY <2>1, FiniteWorkers, SumType
  <2> QED
    BY <1>1, <1>2, <1>3, <1>9, <2>2 DEF TxMbufsConserved
<1>12. ClientTypeOK' /\ pc' \in [Workers -> Places]
  BY <1>1, <1>2, <1>6, <1>10, <1>11 DEF ClientInv, ClientTypeOK, mainVars
<1>13. pc'[w] = to /\ \A v \in Workers \ {w} : pc'[v] = pc[v]
  BY DEF ClientInv
<1>14. EmptyHands'
  BY <1>1, <1>2, <1>13 DEF ClientInv, EmptyHands
<1>15. MainWaited'
  BY <1>1, <1>13, Running
<1> QED
  BY <1>9, <1>12, <1>14, <1>15 DEF ClientInv

\* A poll completes what it returns.
LEMMA InvReceive ==
  ASSUME ClientInv, NEW w \in Workers, pc[w] \notin {"idle", "send", "done"},
         NEW n \in RxCounts(w), ReceiveBurst(w, n),
         NEW to \in Places \ {"send"}, pc' = [pc EXCEPT ![w] = to]
  PROVE  ClientInv'
<1>1. /\ rx_ring' = [rx_ring EXCEPT ![w] = @ - n]
      /\ ctx' = [ctx EXCEPT ![w].completed = @ + n]
      /\ UNCHANGED <<mainVars, clock, rounds, created, free, tx_ring, in_flight>>
  BY DEF ReceiveBurst, Count
<1>2. /\ ClientTypeOK /\ rx_ring \in [Workers -> Nat]
      /\ ctx \in [Workers -> Counters]
      /\ BURST_SIZE \in Nat /\ RX_RING_SIZE \in Nat
  BY ClientAssumption DEF ClientInv, ClientTypeOK
<1>3. n \in Nat /\ n <= rx_ring[w] /\ rx_ring[w] - n \in Nat
  BY <1>2 DEF RxCounts
<1>4. SumFunction(rx_ring') = SumFunction(rx_ring) - n
  <2>1. rx_ring' = [rx_ring EXCEPT ![w] = rx_ring[w] - n]
    BY <1>1
  <2>2. SumFunction(rx_ring')
          = SumFunction(rx_ring) + ((rx_ring[w] - n) - rx_ring[w])
    BY <1>2, <1>3, <2>1, SumSteps
  <2>3. SumFunction(rx_ring) \in Nat
    BY <1>2, SumsTyped
  <2> QED
    BY <1>2, <1>3, <2>2, <2>3
<1>5. /\ ctx' \in [Workers -> Counters]
      /\ ctx'[w].completed = ctx[w].completed + n
      /\ ctx'[w].tx_sent = ctx[w].tx_sent + 0
      /\ \A v \in Workers \ {w} : ctx'[v] = ctx[v]
  BY <1>1, <1>2, <1>3 DEF Counters
<1>6. Sum("completed")' = Sum("completed") + n
      /\ Sum("tx_sent")' = Sum("tx_sent") + 0
  <2>1. "tx_sent" \in DOMAIN Zero /\ "completed" \in DOMAIN Zero
        /\ n \in Int /\ 0 \in Int
    BY <1>3 DEF Zero
  <2> QED
    BY <1>2, <1>5, <2>1, SumCounts
<1>7. /\ SumFunction(tx_ring) \in Nat /\ SumFunction(rx_ring) \in Nat
      /\ in_flight \in Nat /\ Sum("completed") \in Nat /\ Sum("tx_sent") \in Nat
  BY <1>2, SumsTyped DEF Zero, ClientTypeOK
<1>8. TxMbufsConserved' /\ CompletedWereSent'
  BY <1>1, <1>3, <1>4, <1>6, <1>7
  DEF ClientInv, TxMbufsConserved, CompletedWereSent
<1>9. rx_ring' \in [Workers -> 0..RX_RING_SIZE]
  BY <1>1, <1>2, <1>3 DEF ClientTypeOK
<1>10. ClientTypeOK' /\ pc' \in [Workers -> Places]
  BY <1>1, <1>2, <1>5, <1>9 DEF ClientInv, ClientTypeOK, mainVars
<1>11. pc'[w] = to /\ \A v \in Workers \ {w} : pc'[v] = pc[v]
  BY DEF ClientInv
<1>12. EmptyHands'
  BY <1>1, <1>11 DEF ClientInv, EmptyHands
<1>13. MainWaited'
  BY <1>1, <1>11, Running
<1> QED
  BY <1>8, <1>10, <1>12, <1>13 DEF ClientInv

------------------------------------------------------------------------------
(* The worker of packet_gen_client.c.                                      *)

PlainInv == ClientInv /\ Plain!TypeOK

\* PlainClient is built from the same parts.
LEMMA PlainParts ==
  /\ Plain!Init => Init
  /\ Plain!Main \/ Plain!LaunchFails => Main \/ LaunchFails
  /\ Plain!Environment => Environment
  /\ Plain!vars = vars
  /\ \A w \in Workers : Plain!Begin(w) => Begin(w)
  /\ \A w \in Workers : Plain!StartRound(w) => LookAtTime(w, "alloc", "done")
<1>1. Plain!Init => Init
  BY DEF Plain!Init, Init, Plain!Workers, Workers, Plain!Zero, Zero
<1>2. Plain!Workers = Workers /\ Plain!Zero = Zero
  BY DEF Plain!Workers, Workers, Plain!Zero, Zero
<1>3. \A w : Plain!Launched(w) <=> Launched(w)
  BY DEF Plain!Launched, Launched
<1>4. \A c : Plain!Sum(c) = Sum(c)
  <2>1. ASSUME NEW f PROVE Plain!SumFunction(f) = SumFunction(f)
    BY DEF Plain!SumFunction, Plain!SumFunctionOnSet, Plain!FoldFunctionOnSet,
           Plain!MapThenFoldSet, SumFunction, SumFunctionOnSet,
           FoldFunctionOnSet, MapThenFoldSet
  <2> QED
    BY <1>2, <2>1 DEF Plain!Sum, Sum
<1>5. /\ Plain!mainVars = mainVars /\ Plain!portVars = portVars
      /\ Plain!vars = vars
  BY DEF Plain!mainVars, mainVars, Plain!portVars, portVars, Plain!vars, vars
<1>6. \A w : Plain!Launch(w) => Launch(w)
  BY <1>3 DEF Plain!Launch, Launch, Plain!mainVars, mainVars,
              Plain!portVars, portVars
<1>7. Plain!LaunchFails => LaunchFails
  BY <1>2, <1>3 DEF Plain!LaunchFails, LaunchFails, Plain!portVars, portVars
<1>8. /\ Plain!Work => Work
      /\ Plain!WorkDone => WorkDone
      /\ Plain!Join => Join
      /\ Plain!Report => Report
  BY <1>2, <1>3, <1>4 DEF Plain!Work, Work, Plain!WorkDone, WorkDone, Plain!Join,
     Join, Plain!Report, Report, Plain!portVars, portVars
<1>9. Plain!Main => Main
  BY <1>2, <1>6, <1>8 DEF Plain!Main, Main
<1>10. Plain!Environment => Environment
  BY <1>2 DEF Plain!Environment, Environment, Plain!Tick, Tick, Plain!Lose, Lose,
     Plain!Transmit, Transmit, Plain!EchoArrives, EchoArrives,
     Plain!mainVars, mainVars, Plain!portVars, portVars
<1>11. \A w : Plain!Begin(w) => Begin(w)
  BY DEF Plain!Begin, Begin, Plain!Goto, Goto, Plain!mainVars, mainVars,
     Plain!portVars, portVars
<1>12. \A w : Plain!StartRound(w) => LookAtTime(w, "alloc", "done")
  BY DEF Plain!StartRound, Plain!LookAtTime, LookAtTime, Plain!Goto, Goto,
     Plain!mainVars, mainVars, Plain!portVars, portVars
<1> QED
  BY <1>1, <1>5, <1>7, <1>9, <1>10, <1>11, <1>12

\* The waiting for the start, and the looks at the time.
LEMMA InvTime ==
  ASSUME ClientInv, NEW w \in Workers, NEW left \in {"done", "final"},
         Begin(w) \/ LookAtTime(w, "alloc", left)
  PROVE  ClientInv'
<1>1. rounds \in [Workers -> 0..MaxRounds] /\ MaxRounds \in Nat
  BY ClientAssumption DEF ClientInv, ClientTypeOK
<1>2. /\ "loop" \in Places \ {"send"} /\ "alloc" \in Places \ {"send"}
      /\ left \in Places \ {"send"}
  BY DEF Places
<1>3. CASE Begin(w)
  <2>1. /\ pc[w] = "barrier" /\ pc' = [pc EXCEPT ![w] = "loop"]
        /\ UNCHANGED <<mainVars, clock, created, ctx, portVars>>
        /\ rounds' \in [Workers -> 0..MaxRounds]
    BY <1>1, <1>3 DEF Begin, Goto
  <2> QED
    BY <1>2, <2>1, InvMoves
<1>4. CASE LookAtTime(w, "alloc", left)
  <2>1. /\ pc[w] = "loop"
        /\ UNCHANGED <<mainVars, clock, created, ctx, portVars>>
        /\ rounds' \in [Workers -> 0..MaxRounds]
        /\ \/ pc' = [pc EXCEPT ![w] = "alloc"]
           \/ pc' = [pc EXCEPT ![w] = left]
    BY <1>1, <1>4 DEF LookAtTime, Goto
  <2> QED
    BY <1>2, <2>1, InvMoves
<1> QED
  BY <1>3, <1>4

\* Every step of packet_gen_client.c keeps the invariant.
LEMMA PlainNext == PlainInv /\ [Plain!Next]_(Plain!vars) => PlainInv'
<1> SUFFICES ASSUME PlainInv, [Plain!Next]_(Plain!vars) PROVE PlainInv'
  OBVIOUS
<1> DEFINE Stops == {"idle", "barrier", "loop", "alloc", "send", "receive", "done"}
<1>0. /\ ClientInv /\ pc \in [Workers -> Stops] /\ Plain!Workers = Workers
      /\ Stops \subseteq Places
  BY DEF PlainInv, Plain!TypeOK, Plain!Workers, Workers, Places
<1>1. ASSUME ClientInv', pc' \in [Workers -> Stops] PROVE PlainInv'
  BY <1>1 DEF PlainInv, ClientInv, ClientTypeOK, Plain!TypeOK, Plain!ClientTypeOK,
              Workers, Plain!Workers, Counters, Plain!Counters
<1> HIDE DEF Stops
<1>2. CASE Plain!Main \/ Plain!LaunchFails
  <2>1. Main \/ LaunchFails
    BY <1>2, PlainParts
  <2>2. pc' \in [Workers -> Stops]
    BY <1>0, <2>1 DEF Main, LaunchFails, Launch, Work, WorkDone, Join, Report, Stops
  <2> QED
    BY <1>0, <1>1, <2>1, <2>2, InvMain
<1>3. CASE Plain!Environment
  <2>1. Environment
    BY <1>3, PlainParts
  <2>2. pc' = pc
    BY <2>1 DEF Environment, Tick, Lose, Transmit, EchoArrives
  <2> QED
    BY <1>0, <1>1, <2>1, <2>2, InvEnvironment
<1>4. ASSUME NEW w \in Workers, Plain!Begin(w) \/ Plain!StartRound(w)
      PROVE  PlainInv'
  <2>1. Begin(w) \/ LookAtTime(w, "alloc", "done")
    BY <1>4, PlainParts
  <2>2. pc' \in [Workers -> Stops]
    BY <1>0, <2>1 DEF Begin, LookAtTime, Goto, Stops
  <2>3. ClientInv'
    BY <1>0, <2>1, InvTime
  <2> QED
    BY <1>1, <2>2, <2>3
<1>5. ASSUME NEW w \in Workers, Plain!Alloc(w) PROVE PlainInv'
  <2>1. PICK n \in 0..BURST_SIZE :
          /\ n <= free /\ Create(w, n)
          /\ pc' = [pc EXCEPT ![w] = IF n = 0 THEN "receive" ELSE "send"]
    BY <1>5 DEF Plain!Alloc, Plain!Create, Create, Plain!Goto,
                Plain!mainVars, mainVars
  <2> DEFINE to == IF n = 0 THEN "receive" ELSE "send"
  <2>2. /\ to \in Places /\ to \in Stops /\ (n # 0 => to = "send")
        /\ pc' = [pc EXCEPT ![w] = to] /\ pc[w] = "alloc"
    BY <1>5, <2>1 DEF Places, Stops, Plain!Alloc
  <2> HIDE DEF to
  <2>3. ClientInv'
    BY <1>0, <2>1, <2>2, InvCreate
  <2> QED
    BY <1>0, <1>1, <2>2, <2>3
<1>6. ASSUME NEW w \in Workers, Plain!Send(w) PROVE PlainInv'
  <2>1. SendBurst(w) /\ pc[w] = "send" /\ pc' = [pc EXCEPT ![w] = "receive"]
    BY <1>6 DEF Plain!Send, Plain!SendBurst, SendBurst, Plain!Goto,
                Plain!mainVars, mainVars
  <2>2. "receive" \in Places \ {"send"} /\ "receive" \in Stops
    BY DEF Places, Stops
  <2>3. ClientInv'
    BY <1>0, <2>1, <2>2, InvSend
  <2> QED
    BY <1>0, <1>1, <2>1, <2>2, <2>3
<1>7. ASSUME NEW w \in Workers, Plain!Receive(w) PROVE PlainInv'
  <2>1. PICK n \in RxCounts(w) :
          /\ ReceiveBurst(w, n) /\ pc[w] = "receive"
          /\ pc' = [pc EXCEPT ![w] = "loop"]
    BY <1>7 DEF Plain!Receive, Plain!RxCounts, RxCounts, Plain!ReceiveBurst,
                ReceiveBurst, Plain!Count, Count, Plain!Goto, Plain!mainVars, mainVars
  <2>2. "loop" \in Places \ {"send"} /\ "loop" \in Stops
    BY DEF Places, Stops
  <2>3. ClientInv'
    BY <1>0, <2>1, <2>2, InvReceive
  <2> QED
    BY <1>0, <1>1, <2>1, <2>2, <2>3
<1>8. CASE UNCHANGED Plain!vars
  <2>1. UNCHANGED vars
    BY <1>8 DEF Plain!vars, vars, Plain!mainVars, mainVars, Plain!portVars, portVars
  <2>2. ClientInv'
    BY <1>0, <2>1 DEF vars, mainVars, portVars, ClientInv, ClientTypeOK, EmptyHands,
       TxMbufsConserved, CompletedWereSent, MainWaited, Sum
  <2> QED
    BY <1>0, <1>1, <2>1, <2>2 DEF vars
<1> QED
  BY <1>0, <1>2, <1>3, <1>4, <1>5, <1>6, <1>7, <1>8 DEF Plain!Next, Plain!Worker

\* It holds at the start, and so always.
LEMMA PlainInvariance == Plain!Spec => []PlainInv
<1>1. Plain!Init => PlainInv
  <2> SUFFICES ASSUME Plain!Init PROVE PlainInv
    OBVIOUS
  <2>1. ClientInv
    BY PlainParts, ClientInit
  <2> QED
    BY <2>1 DEF PlainInv, ClientInv, ClientTypeOK, Plain!TypeOK, Plain!ClientTypeOK,
                Workers, Plain!Workers, Counters, Plain!Counters, Plain!Init
<1> QED
  BY <1>1, PlainNext, PTL DEF Plain!Spec

\* No worker of packet_gen_client.c leaks an mbuf of tx_mbuf_pool or frees one
\* twice, whatever the allocations return and the NIC takes.
THEOREM PlainMbufsConserved == Plain!Spec => []TxMbufsConserved
<1>1. PlainInv => TxMbufsConserved
  BY DEF PlainInv, ClientInv
<1> QED
  BY <1>1, PlainInvariance, PTL

\* The workers of packet_gen_client.c never complete more than they have sent.
THEOREM PlainCompletedWereSent == Plain!Spec => []CompletedWereSent
<1>1. PlainInv => CompletedWereSent
  BY DEF PlainInv, ClientInv
<1> QED
  BY <1>1, PlainInvariance, PTL

\* What run_client_multiworker prints is the sum over workers that have all
\* come to their end.
THEOREM PlainTotalsAreFinal == Plain!Spec => []TotalsAreFinal
<1>1. PlainInv => TotalsAreFinal
  <2> SUFFICES ASSUME ClientInv, main = "done" PROVE TotalsAreFinal
    BY DEF PlainInv, TotalsAreFinal
  <2>1. joined = num_queues - 1 /\ totals = [c \in DOMAIN Zero |-> Sum(c)]
    BY DEF ClientInv, MainWaited
  <2>2. \A w \in Workers : pc[w] = "done"
    BY <2>1 DEF ClientInv, MainWaited, Workers
  <2> QED
    BY <2>1, <2>2 DEF TotalsAreFinal
<1> QED
  BY <1>1, PlainInvariance, PTL

\* The variables of packet_gen_client.c keep their types: the pool is never
\* overdrawn and no ring holds more than its descriptors.
THEOREM PlainTyping == Plain!Spec => []Plain!TypeOK
<1>1. PlainInv => Plain!TypeOK
  BY DEF PlainInv
<1> QED
  BY <1>1, PlainInvariance, PTL

------------------------------------------------------------------------------
(* The worker of packet_gen_client_fast.c.  That its bursts are accounted  *)
(* for at the end of a round needs to know, inside the round, how many     *)
(* have been tried already.                                                *)

\* What the worker has done with its bursts, in packets.
Spent(w) ==
  (ctx[w].tx_sent + ctx[w].tx_drops) + BURST_SIZE * alloc_failures[w]

\* The bursts it has tried: those of all rounds, the running one as far as it
\* has come.
InRound(w) == pc[w] \in {"alloc", "send", "retry"}
Tried(w) ==
  IF InRound(w)
    THEN FAST_TX_BURSTS_PER_RX * (rounds[w] - 1)
           + (burst[w] + (IF pc[w] = "retry" THEN 1 ELSE 0))
    ELSE FAST_TX_BURSTS_PER_RX * rounds[w]

BurstsOf(w) ==
  /\ Spent(w) = BURST_SIZE * Tried(w)
  /\ InRound(w) => rounds[w] >= 1 /\ burst[w] < FAST_TX_BURSTS_PER_RX
  /\ pc[w] = "send" => created[w] = BURST_SIZE

FastInv == ClientInv /\ TypeOK /\ \A w \in Workers : BurstsOf(w)

\* A worker that neither sends nor gives up has its bursts as they were.
LEMMA SameBursts ==
  ASSUME NEW v, BurstsOf(v), ctx'[v].tx_sent = ctx[v].tx_sent,
         ctx'[v].tx_drops = ctx[v].tx_drops, created'[v] = created[v],
         rounds'[v] = rounds[v], burst'[v] = burst[v],
         alloc_failures'[v] = alloc_failures[v],
         pc'[v] = pc[v] \/ (~InRound(v) /\ ~InRound(v)')
  PROVE  BurstsOf(v)'
BY DEF BurstsOf, Spent, Tried, InRound

\* One burst more.
LEMMA OneMore ==
  ASSUME NEW b \in Nat, NEW f \in Nat, NEW r \in Nat, NEW k \in Nat
  PROVE  /\ f * r \in Nat /\ b * k \in Nat
         /\ b * (f * r + (k + 1)) = b * (f * r + k) + b
         /\ b * (k + 1) = b * k + b
         /\ f * (r + 1) = f * r + f
OBVIOUS

\* Where the loop over the bursts goes on: in the round, with one burst more,
\* or after it, with all of them.
LEMMA OnwardTried ==
  ASSUME NEW w \in Workers, rounds[w] \in Nat, rounds[w] >= 1, burst[w] \in Nat,
         burst[w] < FAST_TX_BURSTS_PER_RX, rounds'[w] = rounds[w],
         burst'[w] = burst[w] + 1, pc'[w] = NextBurst(w)
  PROVE  /\ Tried(w)' = FAST_TX_BURSTS_PER_RX * (rounds[w] - 1) + (burst[w] + 1)
         /\ InRound(w)' => burst'[w] < FAST_TX_BURSTS_PER_RX
         /\ pc'[w] # "send"
<1> DEFINE r == rounds[w] - 1
<1>1. FAST_TX_BURSTS_PER_RX \in Nat /\ r \in Nat /\ rounds[w] = r + 1
  BY FastAssumption
<1>2. FAST_TX_BURSTS_PER_RX * (r + 1)
        = FAST_TX_BURSTS_PER_RX * r + FAST_TX_BURSTS_PER_RX
      /\ FAST_TX_BURSTS_PER_RX * r \in Nat
  BY <1>1, OneMore
<1>3. CASE burst[w] + 1 < FAST_TX_BURSTS_PER_RX
  <2>1. pc'[w] = "alloc"
    BY <1>3 DEF NextBurst
  <2>2. Tried(w)' = FAST_TX_BURSTS_PER_RX * (rounds[w] - 1) + ((burst[w] + 1) + 0)
    BY <2>1 DEF Tried, InRound
  <2> QED
    BY <1>3, <2>1, <2>2
<1>4. CASE ~(burst[w] + 1 < FAST_TX_BURSTS_PER_RX)
  <2>1. pc'[w] = "drain" /\ burst[w] + 1 = FAST_TX_BURSTS_PER_RX
    BY <1>1, <1>4 DEF NextBurst
  <2>2. Tried(w)' = FAST_TX_BURSTS_PER_RX * rounds[w]
    BY <2>1 DEF Tried, InRound
  <2>3. Tried(w)' = FAST_TX_BURSTS_PER_RX * r + (burst[w] + 1)
    BY <1>1, <1>2, <2>1, <2>2
  <2> QED
    BY <2>1, <2>3 DEF InRound
<1> QED
  BY <1>3, <1>4

\* The types that the counts of a worker need.
LEMMA FastTypes ==
  ASSUME FastInv, NEW w \in Workers
  PROVE  /\ rounds[w] \in Nat /\ burst[w] \in Nat /\ alloc_failures[w] \in Nat
         /\ ctx[w] \in Counters /\ created[w] \in Nat
         /\ ctx[w].tx_sent \in Nat /\ ctx[w].tx_drops \in Nat
         /\ BURST_SIZE \in Nat /\ FAST_TX_BURSTS_PER_RX \in Nat
         /\ MaxRounds \in Nat
         /\ BURST_SIZE * alloc_failures[w] \in Nat
<1>1. /\ BURST_SIZE \in Nat /\ FAST_TX_BURSTS_PER_RX \in Nat /\ MaxRounds \in Nat
  BY ClientAssumption, FastAssumption
<1>2. /\ rounds[w] \in Nat /\ burst[w] \in Nat /\ alloc_failures[w] \in Nat
      /\ ctx[w] \in Counters /\ created[w] \in Nat
  BY <1>1 DEF FastInv, ClientInv, ClientTypeOK, TypeOK
<1>3. BURST_SIZE * alloc_failures[w] \in Nat
  BY <1>1, <1>2, OneMore
<1> QED
  BY <1>1, <1>2, <1>3 DEF Counters

\* The step of one worker, put together.
LEMMA FastTogether ==
  ASSUME FastInv, ClientInv', NEW w \in Workers, BurstsOf(w)',
         burst' \in [Workers -> 0..FAST_TX_BURSTS_PER_RX],
         alloc_failures' \in [Workers -> Nat],
         NEW to \in {"idle", "barrier", "loop", "alloc", "send", "retry", "drain",
                     "final", "done"}, pc' = [pc EXCEPT ![w] = to],
         \A v \in Workers \ {w} :
           /\ ctx'[v] = ctx[v] /\ created'[v] = created[v]
           /\ rounds'[v] = rounds[v] /\ burst'[v] = burst[v]
           /\ alloc_failures'[v] = alloc_failures[v]
  PROVE  FastInv'
<1>1. TypeOK'
  BY DEF FastInv, ClientInv, TypeOK
<1>2. ASSUME NEW v \in Workers \ {w} PROVE BurstsOf(v)'
  <2>1. pc'[v] = pc[v]
    BY DEF FastInv, TypeOK
  <2> QED
    BY <2>1, SameBursts DEF FastInv
<1> QED
  BY <1>1, <1>2 DEF FastInv

\* main, the NIC and the network leave the bursts of the workers alone.
LEMMA FastOthers ==
  ASSUME FastInv, Others
  PROVE  FastInv'
<1>0. ClientInv /\ TypeOK /\ \A v \in Workers : BurstsOf(v)
  BY DEF FastInv
<1>1. ClientInv' /\ UNCHANGED <<burst, alloc_failures>>
  BY <1>0, InvMain, InvEnvironment DEF Others
<1>2. UNCHANGED <<ctx, created, rounds>>
  BY DEF Others, Main, Launch, LaunchFails, Work, WorkDone, Join, Report,
         Environment, Tick, Lose, Transmit, EchoArrives
<1>3. \/ pc' = pc
      \/ \E w \in Workers : pc[w] = "idle" /\ pc' = [pc EXCEPT ![w] = "barrier"]
  BY <1>0, FiniteWorkers
  DEF Others, Main, Launch, Launched, LaunchFails, Work, WorkDone, Join, Report,
      Environment, Tick, Lose, Transmit, EchoArrives, ClientInv, MainWaited
<1>4. CASE pc' = pc
  <2>1. \A v \in Workers : BurstsOf(v)'
    BY <1>0, <1>1, <1>2, <1>4, SameBursts
  <2> QED
    BY <1>0, <1>1, <1>4, <2>1 DEF FastInv, TypeOK, ClientInv
<1>5. ASSUME NEW w \in Workers, pc[w] = "idle", pc' = [pc EXCEPT ![w] = "barrier"]
      PROVE  FastInv'
  <2>1. pc'[w] = "barrier"
    BY <1>0, <1>5 DEF TypeOK
  <2>2. BurstsOf(w)'
    <3>1. ~InRound(w) /\ ~InRound(w)'
      BY <1>5, <2>1 DEF InRound
    <3> QED
      BY <1>0, <1>1, <1>2, <3>1, SameBursts
  <2> QED
    BY <1>0, <1>1, <1>2, <1>5, <2>2, FastTogether DEF TypeOK
<1> QED
  BY <1>3, <1>4, <1>5

\* A new round begins where the one before it has been accounted for.
LEMMA FastTime ==
  ASSUME FastInv, NEW w \in Workers,
         (Begin(w) /\ UNCHANGED <<burst, alloc_failures>>) \/ StartRound(w)
  PROVE  FastInv'
<1>0. ClientInv /\ TypeOK /\ BurstsOf(w)
  BY DEF FastInv
<1>1. Begin(w) \/ LookAtTime(w, "alloc", "final")
  BY DEF StartRound
<1>2. ClientInv'
  BY <1>0, <1>1, InvTime
<1>3. /\ UNCHANGED <<ctx, created, alloc_failures>>
      /\ pc[w] \in {"barrier", "loop"}
      /\ burst' \in [Workers -> 0..FAST_TX_BURSTS_PER_RX]
      /\ \A v \in Workers \ {w} : rounds'[v] = rounds[v] /\ burst'[v] = burst[v]
  BY <1>0, FastAssumption
  DEF Begin, StartRound, LookAtTime, TypeOK, ClientInv, ClientTypeOK
<1>4. CASE /\ pc'[w] \in {"loop", "final"} /\ rounds'[w] = rounds[w]
           /\ pc' = [pc EXCEPT ![w] = pc'[w]]
  <2>1. BurstsOf(w)'
    BY <1>0, <1>3, <1>4 DEF BurstsOf, Spent, Tried, InRound
  <2> QED
    BY <1>0, <1>2, <1>3, <1>4, <2>1, FastTogether DEF TypeOK
<1>5. CASE /\ pc' = [pc EXCEPT ![w] = "alloc"] /\ rounds'[w] = rounds[w] + 1
           /\ burst'[w] = 0
  <2>1. pc'[w] = "alloc"
    BY <1>0, <1>5 DEF TypeOK
  <2>2. rounds[w] \in Nat /\ FAST_TX_BURSTS_PER_RX * rounds[w] \in Nat
    BY FastTypes, OneMore
  <2>3. Tried(w)' = FAST_TX_BURSTS_PER_RX * rounds[w]
    BY <1>5, <2>1, <2>2 DEF Tried, InRound
  <2>4. Spent(w)' = Spent(w) /\ Tried(w) = FAST_TX_BURSTS_PER_RX * rounds[w]
    BY <1>3 DEF Spent, Tried, InRound
  <2>5. BurstsOf(w)'
    BY <1>0, <1>5, <2>1, <2>2, <2>3, <2>4, FastAssumption DEF BurstsOf, InRound
  <2> QED
    BY <1>0, <1>2, <1>3, <1>5, <2>5, FastTogether DEF TypeOK
<1>6. \/ /\ pc'[w] \in {"loop", "final"} /\ rounds'[w] = rounds[w]
         /\ pc' = [pc EXCEPT ![w] = pc'[w]]
      \/ /\ pc' = [pc EXCEPT ![w] = "alloc"] /\ rounds'[w] = rounds[w] + 1
         /\ burst'[w] = 0
  BY <1>0 DEF Begin, StartRound, LookAtTime, Goto, TypeOK, ClientInv, ClientTypeOK
<1> QED
  BY <1>4, <1>5, <1>6

\* The pool gives a whole burst or none.
LEMMA FastAlloc ==
  ASSUME FastInv, NEW w \in Workers, AllocBulk(w) \/ AllocFails(w)
  PROVE  FastInv'
<1>0. ClientInv /\ TypeOK /\ BurstsOf(w) /\ BURST_SIZE \in Nat
  BY FastTypes DEF FastInv
<1>1. pc[w] = "alloc" /\ rounds[w] >= 1 /\ burst[w] < FAST_TX_BURSTS_PER_RX
  BY <1>0 DEF AllocBulk, AllocFails, BurstsOf, InRound
<1>2. CASE AllocBulk(w)
  <2>1. /\ Create(w, BURST_SIZE) /\ BURST_SIZE <= free
        /\ pc' = [pc EXCEPT ![w] = "send"] /\ UNCHANGED <<burst, alloc_failures>>
        /\ BURST_SIZE \in 0..BURST_SIZE /\ "send" \in Places
    BY <1>0, <1>2 DEF AllocBulk, Goto, Places, ClientInv, ClientTypeOK
  <2>2. ClientInv'
    BY <1>0, <1>1, <2>1, InvCreate
  <2>3. /\ UNCHANGED <<rounds, ctx>>
        /\ created' = [created EXCEPT ![w] = BURST_SIZE] /\ pc'[w] = "send"
    BY <1>0, <2>1 DEF Create, TypeOK
  <2>4. created'[w] = BURST_SIZE /\ \A v \in Workers \ {w} : created'[v] = created[v]
    BY <1>0, <2>3 DEF ClientInv, ClientTypeOK
  <2>5. BurstsOf(w)'
    BY <1>0, <1>1, <2>1, <2>3, <2>4 DEF BurstsOf, Spent, Tried, InRound
  <2> QED
    BY <1>0, <2>1, <2>2, <2>3, <2>4, <2>5, FastTogether DEF TypeOK
<1>3. CASE AllocFails(w)
  <2>1. /\ pc' = [pc EXCEPT ![w] = "retry"]
        /\ alloc_failures' = [alloc_failures EXCEPT ![w] = @ + 1]
        /\ UNCHANGED <<mainVars, clock, rounds, created, ctx, portVars, burst>>
    BY <1>3 DEF AllocFails, Goto
  <2>2. ClientInv'
    <3>1. "retry" \in Places \ {"send"} /\ rounds' \in [Workers -> 0..MaxRounds]
      BY <1>0, <2>1 DEF Places, ClientInv, ClientTypeOK
    <3> QED
      BY <1>0, <1>1, <2>1, <3>1, InvMoves
  <2>3. /\ alloc_failures' \in [Workers -> Nat]
        /\ alloc_failures'[w] = alloc_failures[w] + 1
        /\ \A v \in Workers \ {w} : alloc_failures'[v] = alloc_failures[v]
        /\ pc'[w] = "retry"
    BY <1>0, <2>1 DEF TypeOK
  <2> DEFINE r == rounds[w] - 1
             k == burst[w]
             f == FAST_TX_BURSTS_PER_RX
             old == ctx[w].tx_sent + ctx[w].tx_drops
             a == alloc_failures[w]
  <2>4. /\ r \in Nat /\ k \in Nat /\ f \in Nat /\ old \in Nat /\ a \in Nat
    BY <1>1, FastTypes
  <2>5. /\ Spent(w) = old + BURST_SIZE * a
        /\ Spent(w)' = old + BURST_SIZE * (a + 1)
        /\ Tried(w)' = f * r + (k + 1)
    BY <2>1, <2>3 DEF Spent, Tried, InRound
  <2>6. Tried(w) = f * r + k
    <3>1. Tried(w) = f * r + (k + 0)
      BY <1>1 DEF Tried, InRound
    <3> QED
      BY <2>4, <3>1
  <2> HIDE DEF r, k, f, old, a
  <2>7. /\ BURST_SIZE * (f * r + (k + 1)) = BURST_SIZE * (f * r + k) + BURST_SIZE
        /\ BURST_SIZE * (a + 1) = BURST_SIZE * a + BURST_SIZE
        /\ BURST_SIZE * a \in Nat
    BY <1>0, <2>4, OneMore
  <2>8. Spent(w)' = BURST_SIZE * Tried(w)'
    <3>1. old + BURST_SIZE * a = BURST_SIZE * (f * r + k)
      BY <1>0, <2>5, <2>6 DEF BurstsOf
    <3> QED
      BY <1>0, <2>4, <2>5, <2>7, <3>1
  <2>9. BurstsOf(w)'
    BY <1>0, <1>1, <2>1, <2>3, <2>8 DEF BurstsOf, InRound
  <2> QED
    BY <1>0, <2>1, <2>2, <2>3, <2>9, FastTogether DEF TypeOK
<1> QED
  BY <1>2, <1>3

\* A burst that is sent is counted as a whole.
LEMMA FastSend ==
  ASSUME FastInv, NEW w \in Workers, Send(w)
  PROVE  FastInv'
<1>0. ClientInv /\ TypeOK /\ BurstsOf(w) /\ BURST_SIZE \in Nat
  BY FastTypes DEF FastInv
<1>1. /\ pc[w] = "send" /\ rounds[w] >= 1 /\ burst[w] < FAST_TX_BURSTS_PER_RX
      /\ created[w] = BURST_SIZE /\ SendBurst(w)
      /\ pc' = [pc EXCEPT ![w] = NextBurst(w)]
      /\ burst' = [burst EXCEPT ![w] = @ + 1] /\ UNCHANGED alloc_failures
  BY <1>0 DEF Send, Goto, BurstsOf, InRound
<1>2. PICK nb_tx \in 0..created[w] :
        /\ ctx' = [ctx EXCEPT ![w].tx_sent = @ + nb_tx,
                              ![w].tx_drops = @ + (created[w] - nb_tx)]
        /\ created' = [created EXCEPT ![w] = 0]
        /\ UNCHANGED rounds
  BY <1>1 DEF SendBurst
<1>3. NextBurst(w) \in {"alloc", "drain"} /\ NextBurst(w) \in Places \ {"send"}
  BY DEF NextBurst, Places
<1>4. ClientInv'
  BY <1>0, <1>1, <1>3, InvSend
<1>5. /\ pc'[w] = NextBurst(w) /\ burst'[w] = burst[w] + 1
      /\ burst' \in [Workers -> 0..FAST_TX_BURSTS_PER_RX]
      /\ \A v \in Workers \ {w} : /\ burst'[v] = burst[v] /\ ctx'[v] = ctx[v]
                                  /\ created'[v] = created[v]
  BY <1>0, <1>1, <1>2, FastTypes DEF TypeOK, ClientInv, ClientTypeOK
<1> DEFINE r == rounds[w] - 1
           k == burst[w]
           f == FAST_TX_BURSTS_PER_RX
           failed == BURST_SIZE * alloc_failures[w]
<1>6. /\ r \in Nat /\ k \in Nat /\ f \in Nat /\ failed \in Nat
      /\ ctx[w].tx_sent \in Nat /\ ctx[w].tx_drops \in Nat /\ nb_tx \in Nat
  BY <1>1, <1>2, FastTypes
<1>7. Tried(w)' = f * r + (k + 1) /\ (InRound(w)' => burst'[w] < f)
      /\ pc'[w] # "send"
  BY <1>1, <1>2, <1>5, <1>6, FastTypes, OnwardTried
<1>8. Tried(w) = f * r + k
  <2>1. Tried(w) = f * r + (k + 0)
    BY <1>1 DEF Tried, InRound
  <2> QED
    BY <1>6, <2>1
<1>9. Spent(w)' = Spent(w) + BURST_SIZE
  <2>1. /\ ctx'[w].tx_sent = ctx[w].tx_sent + nb_tx
        /\ ctx'[w].tx_drops = ctx[w].tx_drops + (BURST_SIZE - nb_tx)
    <3>1. ctx[w] \in Counters /\ ctx \in [Workers -> Counters]
      BY <1>0 DEF ClientInv, ClientTypeOK
    <3> QED
      BY <1>1, <1>2, <3>1 DEF Counters
  <2>2. /\ Spent(w) = (ctx[w].tx_sent + ctx[w].tx_drops) + failed
        /\ Spent(w)' = (ctx'[w].tx_sent + ctx'[w].tx_drops) + failed
    BY <1>1 DEF Spent
  <2> HIDE DEF failed
  <2> QED
    BY <1>0, <1>6, <2>1, <2>2
<1>10. Spent(w)' = BURST_SIZE * Tried(w)'
  <2> HIDE DEF r, k, f, failed
  <2>1. /\ BURST_SIZE * (f * r + (k + 1)) = BURST_SIZE * (f * r + k) + BURST_SIZE
    BY <1>0, <1>6, OneMore
  <2>2. Spent(w) = BURST_SIZE * (f * r + k)
    BY <1>0, <1>8 DEF BurstsOf
  <2> QED
    BY <1>7, <1>9, <2>1, <2>2
<1>11. BurstsOf(w)'
  BY <1>1, <1>2, <1>7, <1>10 DEF BurstsOf
<1> QED
  BY <1>0, <1>1, <1>2, <1>3, <1>4, <1>5, <1>11, FastTogether DEF TypeOK

\* A poll ends a failed allocation, a round or the test, or is repeated.
LEMMA FastDrain ==
  ASSUME FastInv, NEW w \in Workers, DrainRx(w)
  PROVE  FastInv'
<1>0. ClientInv /\ TypeOK /\ BurstsOf(w) /\ BURST_SIZE \in Nat
  BY FastTypes DEF FastInv
<1>1. PICK n \in RxCounts(w) :
        /\ ReceiveBurst(w, n)
        /\ \/ UNCHANGED <<pc, burst>>
           \/ /\ pc[w] = "retry" /\ pc' = [pc EXCEPT ![w] = NextBurst(w)]
              /\ burst' = [burst EXCEPT ![w] = @ + 1]
           \/ /\ pc[w] = "drain" /\ pc' = [pc EXCEPT ![w] = "loop"]
              /\ UNCHANGED burst
           \/ /\ pc[w] = "final" /\ pc' = [pc EXCEPT ![w] = "done"]
              /\ UNCHANGED burst
  BY DEF DrainRx, Goto
<1>2. pc[w] \in {"retry", "drain", "final"} /\ UNCHANGED alloc_failures
  BY DEF DrainRx
<1>3. /\ UNCHANGED <<rounds, created>>
      /\ ctx' = [ctx EXCEPT ![w].completed = @ + n]
  BY <1>1 DEF ReceiveBurst, Count
<1>4. /\ ctx'[w].tx_sent = ctx[w].tx_sent /\ ctx'[w].tx_drops = ctx[w].tx_drops
      /\ \A v \in Workers \ {w} : ctx'[v] = ctx[v]
  <2>1. ctx[w] \in Counters /\ ctx \in [Workers -> Counters]
    BY <1>0 DEF ClientInv, ClientTypeOK
  <2> QED
    BY <1>3, <2>1 DEF Counters
<1>5. Spent(w)' = Spent(w)
  BY <1>2, <1>4 DEF Spent
<1>6. ASSUME NEW to \in Places \ {"send"}, pc' = [pc EXCEPT ![w] = to]
      PROVE  ClientInv'
  BY <1>0, <1>1, <1>2, <1>6, InvReceive
<1>7. CASE UNCHANGED <<pc, burst>>
  <2>1. pc' = [pc EXCEPT ![w] = pc[w]] /\ pc[w] \in Places \ {"send"}
    BY <1>0, <1>2, <1>7 DEF TypeOK, Places
  <2>2. ClientInv'
    BY <1>6, <2>1
  <2>3. BurstsOf(w)'
    BY <1>0, <1>2, <1>3, <1>4, <1>7, SameBursts
  <2> QED
    BY <1>0, <1>2, <1>3, <1>4, <1>7, <2>1, <2>2, <2>3, FastTogether DEF TypeOK
<1>8. ASSUME NEW to \in {"loop", "done"}, pc[w] \in {"drain", "final"},
             pc' = [pc EXCEPT ![w] = to], UNCHANGED burst
      PROVE  FastInv'
  <2>1. to \in Places \ {"send"} /\ pc'[w] = to
    BY <1>0, <1>8 DEF TypeOK, Places
  <2>2. ClientInv'
    BY <1>6, <1>8, <2>1
  <2>3. BurstsOf(w)'
    <3>1. ~InRound(w) /\ ~InRound(w)'
      BY <1>8, <2>1 DEF InRound
    <3> QED
      BY <1>0, <1>2, <1>3, <1>4, <1>8, <3>1, SameBursts
  <2> QED
    BY <1>0, <1>2, <1>3, <1>4, <1>8, <2>1, <2>2, <2>3, FastTogether DEF TypeOK
<1>9. CASE /\ pc[w] = "retry" /\ pc' = [pc EXCEPT ![w] = NextBurst(w)]
           /\ burst' = [burst EXCEPT ![w] = @ + 1]
  <2>1. NextBurst(w) \in {"alloc", "drain"} /\ NextBurst(w) \in Places \ {"send"}
    BY DEF NextBurst, Places
  <2>2. ClientInv'
    BY <1>6, <1>9, <2>1
  <2>3. rounds[w] >= 1 /\ burst[w] < FAST_TX_BURSTS_PER_RX
    BY <1>0, <1>9 DEF BurstsOf, InRound
  <2>4. /\ pc'[w] = NextBurst(w) /\ burst'[w] = burst[w] + 1
        /\ burst' \in [Workers -> 0..FAST_TX_BURSTS_PER_RX]
        /\ \A v \in Workers \ {w} : burst'[v] = burst[v]
    BY <1>0, <1>9, <2>3, FastTypes DEF TypeOK
  <2>5. /\ Tried(w)' = FAST_TX_BURSTS_PER_RX * (rounds[w] - 1) + (burst[w] + 1)
        /\ InRound(w)' => burst'[w] < FAST_TX_BURSTS_PER_RX
        /\ pc'[w] # "send"
    BY <1>3, <2>3, <2>4, FastTypes, OnwardTried
  <2>6. Tried(w) = FAST_TX_BURSTS_PER_RX * (rounds[w] - 1) + (burst[w] + 1)
    BY <1>9 DEF Tried, InRound
  <2>7. BurstsOf(w)'
    BY <1>0, <1>3, <1>5, <2>3, <2>5, <2>6 DEF BurstsOf
  <2> QED
    BY <1>0, <1>2, <1>3, <1>4, <1>9, <2>1, <2>2, <2>4, <2>7, FastTogether DEF TypeOK
<1> QED
  BY <1>1, <1>7, <1>8, <1>9

\* Every step of packet_gen_client_fast.c keeps the invariant.
LEMMA FastNext == FastInv /\ [Next]_fastVars => FastInv'
<1> SUFFICES ASSUME FastInv, [Next]_fastVars PROVE FastInv'
  OBVIOUS
<1>1. CASE Others
  BY <1>1, FastOthers
<1>2. ASSUME NEW w \in Workers, Worker(w) PROVE FastInv'
  BY <1>2, FastTime, FastAlloc, FastSend, FastDrain DEF Worker
<1>3. CASE UNCHANGED fastVars
  BY <1>3 DEF fastVars, vars, mainVars, portVars, FastInv, TypeOK, ClientInv,
     ClientTypeOK, EmptyHands, TxMbufsConserved, CompletedWereSent, MainWaited, Sum,
     BurstsOf, Spent, Tried, InRound
<1> QED
  BY <1>1, <1>2, <1>3 DEF Next

\* It holds at the start, and so always.
LEMMA FastInvariance == Spec => []FastInv
<1>1. FastInit => FastInv
  <2> SUFFICES ASSUME FastInit PROVE FastInv
    OBVIOUS
  <2>1. ClientInv
    BY ClientInit DEF FastInit
  <2>2. TypeOK
    BY <2>1, FastAssumption DEF FastInit, Init, ClientInv, TypeOK
  <2>3. ASSUME NEW w \in Workers PROVE BurstsOf(w)
    <3>1. BURST_SIZE \in Nat /\ FAST_TX_BURSTS_PER_RX \in Nat
      BY ClientAssumption, FastAssumption
    <3>2. Spent(w) = 0 /\ Tried(w) = 0 /\ ~InRound(w) /\ pc[w] # "send"
      BY <3>1 DEF FastInit, Init, Zero, Spent, Tried, InRound
    <3> QED
      BY <3>1, <3>2 DEF BurstsOf
  <2> QED
    BY <2>1, <2>2, <2>3 DEF FastInv
<1> QED
  BY <1>1, FastNext, PTL DEF Spec

\* The variables of packet_gen_client_fast.c keep their types: in particular the
\* loop over the bursts never tries more than FAST_TX_BURSTS_PER_RX.
THEOREM FastTyping == Spec => []TypeOK
<1>1. FastInv => TypeOK
  BY DEF FastInv
<1> QED
  BY <1>1, FastInvariance, PTL

\* No worker of packet_gen_client_fast.c leaks an mbuf of tx_mbuf_pool or frees
\* one twice, on the paths of a failed allocation too.
THEOREM FastMbufsConserved == Spec => []TxMbufsConserved
<1>1. FastInv => TxMbufsConserved
  BY DEF FastInv, ClientInv
<1> QED
  BY <1>1, FastInvariance, PTL

\* At the end of each round every burst of it was sent, dropped or counted as a
\* failed allocation.
THEOREM FastBurstsAccounted == Spec => []BurstsAccounted
<1>1. FastInv => BurstsAccounted
  <2> SUFFICES ASSUME FastInv, NEW w \in Workers,
                      pc[w] \in {"drain", "loop", "final", "done"}
               PROVE  ctx[w].tx_sent + ctx[w].tx_drops
                        + BURST_SIZE * alloc_failures[w]
                        = BURST_SIZE * FAST_TX_BURSTS_PER_RX * rounds[w]
    BY DEF BurstsAccounted
  <2>1. Spent(w) = BURST_SIZE * (FAST_TX_BURSTS_PER_RX * rounds[w])
    BY DEF FastInv, BurstsOf, Tried, InRound
  <2>2. \A b, f, r \in Nat : b * (f * r) = b * f * r
    OBVIOUS
  <2>3. Spent(w) = BURST_SIZE * FAST_TX_BURSTS_PER_RX * rounds[w]
    BY <2>1, <2>2, FastTypes
  <2> QED
    BY <2>3 DEF Spent
<1> QED
  BY <1>1, FastInvariance, PTL

==============================================================================
