----------------------------- MODULE FastClient ------------------------------
(***************************************************************************)
(* fast_client_worker of packet_gen_client_fast.c: in each round a worker  *)
(* sends FAST_TX_BURSTS_PER_RX whole bursts from the templates and then    *)
(* polls until a burst comes back short.  If the pool cannot give a whole  *)
(* burst it polls instead of sending, and it polls once more at the end.   *)
(***************************************************************************)
EXTENDS ClientWorkers

CONSTANT FAST_TX_BURSTS_PER_RX  \* bursts sent between two polls

ASSUME FastAssumption == FAST_TX_BURSTS_PER_RX \in Nat \ {0}

VARIABLES
  burst,          \* per worker, the bursts tried in this round
  alloc_failures  \* per worker, how often the pool had no burst

fastVars == <<vars, burst, alloc_failures>>

FastInit ==
  /\ Init
  /\ burst = [w \in Workers |-> 0]
  /\ alloc_failures = [w \in Workers |-> 0]

\* Where the loop over the bursts goes on after w has tried one more.
NextBurst(w) == IF burst[w] + 1 < FAST_TX_BURSTS_PER_RX THEN "alloc" ELSE "drain"

StartRound(w) ==
  /\ LookAtTime(w, "alloc", "final")
  /\ burst' = [burst EXCEPT ![w] = 0]
  /\ UNCHANGED alloc_failures

AllocBulk(w) ==
  /\ pc[w] = "alloc" /\ free >= BURST_SIZE
  /\ Create(w, BURST_SIZE)
  /\ Goto(w, "send")
  /\ UNCHANGED <<burst, alloc_failures>>

\* rte_pktmbuf_alloc_bulk gives all or nothing, and nothing even if enough
\* mbufs are free, for they may lie in the caches of other lcores.
AllocFails(w) ==
  /\ pc[w] = "alloc"
  /\ Goto(w, "retry")
  /\ alloc_failures' = [alloc_failures EXCEPT ![w] = @ + 1]
  /\ UNCHANGED <<mainVars, clock, rounds, created, ctx, portVars, burst>>

Send(w) ==
  /\ pc[w] = "send"
  /\ SendBurst(w)
  /\ Goto(w, NextBurst(w))
  /\ burst' = [burst EXCEPT ![w] = @ + 1]
  /\ UNCHANGED alloc_failures

\* Mutant: an empty poll does not end the draining.
AgainIfNotPartial(nb_rx) == nb_rx = BURST_SIZE \/ nb_rx = 0

\* Whether drain_rx polls again.
Again(nb_rx) == nb_rx = BURST_SIZE

\* One turn of the loop in drain_rx, which is called after a failed
\* allocation ("retry"), after the bursts of a round ("drain") and after the
\* last round ("final").
DrainRx(w) ==
  /\ pc[w] \in {"retry", "drain", "final"}
  /\ \E nb_rx \in RxCounts(w) :
       /\ ReceiveBurst(w, nb_rx)
       /\ IF Again(nb_rx)
            THEN UNCHANGED <<pc, burst>>
            ELSE CASE pc[w] = "retry" -> /\ Goto(w, NextBurst(w))
                                         /\ burst' = [burst EXCEPT ![w] = @ + 1]
                   [] pc[w] = "drain" -> Goto(w, "loop") /\ UNCHANGED burst
                   [] pc[w] = "final" -> Goto(w, "done") /\ UNCHANGED burst
  /\ UNCHANGED alloc_failures

Worker(w) ==
  \/ Begin(w) /\ UNCHANGED <<burst, alloc_failures>>
  \/ StartRound(w) \/ AllocBulk(w) \/ AllocFails(w) \/ Send(w) \/ DrainRx(w)

Others ==
  /\ Main \/ LaunchFails \/ Environment
  /\ UNCHANGED <<burst, alloc_failures>>

Next ==
  /\ main # "exited"
  /\ Others \/ \E w \in Workers : Worker(w)

Spec == FastInit /\ [][Next]_fastVars

\* Every worker and main run on lcores of their own; time passes and the NIC
\* sends.  Nothing makes an echo arrive.
FairSpec ==
  /\ Spec
  /\ WF_fastVars(main # "exited" /\ Main /\ UNCHANGED <<burst, alloc_failures>>)
  /\ WF_fastVars(main # "exited" /\ Tick /\ UNCHANGED <<burst, alloc_failures>>)
  /\ \A w \in Workers :
       /\ WF_fastVars(main # "exited" /\ Worker(w))
       /\ WF_fastVars(main # "exited" /\ Transmit(w)
                      /\ UNCHANGED <<burst, alloc_failures>>)

------------------------------------------------------------------------------
(* Properties.                                                             *)

TypeOK ==
  /\ ClientTypeOK
  /\ pc \in [Workers -> {"idle", "barrier", "loop", "alloc", "send", "retry",
                         "drain", "final", "done"}]
  /\ burst \in [Workers -> 0..FAST_TX_BURSTS_PER_RX]
  /\ alloc_failures \in [Workers -> Nat]

\* Every burst a worker has tried is accounted for: sent or dropped as a
\* whole, in its hands, or counted as a failed allocation.
BurstsAccounted ==
  \A w \in Workers :
    pc[w] \in {"drain", "loop", "final", "done"} =>
      ctx[w].tx_sent + ctx[w].tx_drops + BURST_SIZE * alloc_failures[w]
        = BURST_SIZE * FAST_TX_BURSTS_PER_RX * rounds[w]
==============================================================================
