----------------------------- MODULE PlainClient -----------------------------
(***************************************************************************)
(* client_throughput_worker of packet_gen_client.c: in each round a worker *)
(* crafts up to a burst of packets, sends them, and polls once.            *)
(***************************************************************************)
EXTENDS ClientWorkers

StartRound(w) == LookAtTime(w, "alloc", "done")

\* The mbufs are allocated one by one until rte_pktmbuf_alloc returns NULL,
\* which it may do with mbufs left in the caches of other lcores.
Alloc(w) ==
  /\ pc[w] = "alloc"
  /\ \E n \in 0..BURST_SIZE :
       /\ n <= free
       /\ Create(w, n)
       /\ Goto(w, IF n = 0 THEN "receive" ELSE "send")

Send(w) ==
  /\ pc[w] = "send"
  /\ SendBurst(w)
  /\ Goto(w, "receive")

\* Mutant: a worker waits for an echo.
ReceiveWaits(w) ==
  /\ pc[w] = "receive"
  /\ \E nb_rx \in RxCounts(w) \ {0} : ReceiveBurst(w, nb_rx)
  /\ Goto(w, "loop")

Receive(w) ==
  /\ pc[w] = "receive"
  /\ \E nb_rx \in RxCounts(w) : ReceiveBurst(w, nb_rx)
  /\ Goto(w, "loop")

Worker(w) == Begin(w) \/ StartRound(w) \/ Alloc(w) \/ Send(w) \/ Receive(w)

Next ==
  /\ main # "exited"
  /\ Main \/ LaunchFails \/ Environment \/ \E w \in Workers : Worker(w)

Spec == Init /\ [][Next]_vars

\* Every worker and main run on lcores of their own; time passes and the NIC
\* sends.  Nothing makes an echo arrive.
FairSpec ==
  /\ Spec
  /\ WF_vars(main # "exited" /\ Main)
  /\ WF_vars(main # "exited" /\ Tick)
  /\ \A w \in Workers :
       /\ WF_vars(main # "exited" /\ Worker(w))
       /\ WF_vars(main # "exited" /\ Transmit(w))

------------------------------------------------------------------------------
(* Properties.                                                             *)

TypeOK ==
  /\ ClientTypeOK
  /\ pc \in [Workers -> {"idle", "barrier", "loop", "alloc", "send", "receive",
                         "done"}]
==============================================================================
