------------------------------ MODULE Startup ------------------------------
(***************************************************************************)
(* What all programs do after their arguments are parsed: port_init of     *)
(* dpdk.h (port_init_checksum_exp of the checksum servers adds offloads),  *)
(* and the loop that launches one worker per queue.                        *)
(*                                                                         *)
(* Every call of DPDK may fail, and a failure ends the program with all    *)
(* its threads.  A worker runs from the moment it is launched, while main  *)
(* still launches the others.                                              *)
(***************************************************************************)
EXTENDS Integers, Sequences, FiniteSets, FiniteSetsExt

CONSTANTS
  MAX_CORES,  \* the largest number of workers
  Counts,     \* what NUM_WORKERS may be
  Lcores      \* the lcore ids; the smallest one in use is main's

ASSUME StartupAssumption ==
  /\ MAX_CORES \in Nat \ {0}
  /\ Counts \subseteq Int
  /\ Lcores \subseteq Nat /\ IsFiniteSet(Lcores)

VARIABLES
  pc,          \* where main stands
  program,     \* which program it is
  num_queues,
  port,        \* what the port has been told
  lcores,      \* the lcores of the EAL list
  workers,     \* the lcore of each queue whose worker runs
  status       \* why the program has ended, or "running"

\* What changes after the arguments are parsed.
machineVars == <<pc, port, workers, status>>
startVars == <<machineVars, program, num_queues, lcores>>

Offloads == {"ipv4", "udp"}

StartupInit ==
  /\ pc = "parse"
  /\ num_queues = 1
  /\ port = [offloads |-> {}, rss |-> FALSE, rx_queues |-> 0, tx_queues |-> 0,
             started |-> FALSE]
  /\ lcores \in (SUBSET Lcores) \ {{}}
  /\ workers = <<>>
  /\ status = "running"

Exit(why) ==
  /\ pc' = "exited"
  /\ status' = why
  /\ workers' = <<>>

Goto(next) == pc' = next /\ UNCHANGED <<workers, status>>

------------------------------------------------------------------------------
(* The port.                                                               *)

\* Mutant: the offloads the port lacks are left out.
ConfigureWhatIsThere(offloads) ==
  /\ pc = "port"
  /\ \E capa \in [tx : SUBSET Offloads, rss : BOOLEAN] :
       IF num_queues > 1 /\ ~capa.rss
         THEN Exit("rss") /\ UNCHANGED port
         ELSE /\ port' = [port EXCEPT !.offloads = offloads \intersect capa.tx,
                                      !.rss = num_queues > 1]
              /\ Goto("queues")

\* Up to rte_eth_dev_configure: what the port cannot do is not asked of it.
Configure(offloads) ==
  /\ pc = "port"
  /\ \E capa \in [tx : SUBSET Offloads, rss : BOOLEAN] :
       \/ /\ ~(offloads \subseteq capa.tx)
          /\ Exit("offload") /\ UNCHANGED port
       \/ /\ offloads \subseteq capa.tx
          /\ num_queues > 1 /\ ~capa.rss
          /\ Exit("rss") /\ UNCHANGED port
       \/ /\ offloads \subseteq capa.tx
          /\ num_queues > 1 => capa.rss
          /\ port' = [port EXCEPT !.offloads = offloads, !.rss = num_queues > 1]
          /\ Goto("queues")

\* Mutant: the second loop counts the RX queues again.
SetUpQueueStuck ==
  /\ pc = "queues" /\ port.tx_queues < num_queues
  /\ port' = IF port.rx_queues < num_queues
               THEN [port EXCEPT !.rx_queues = @ + 1]
               ELSE [port EXCEPT !.rx_queues = num_queues]
  /\ UNCHANGED <<pc, workers, status>>

\* rte_eth_rx_queue_setup for every queue, then rte_eth_tx_queue_setup, then
\* rte_eth_dev_start.
SetUpQueue ==
  /\ pc = "queues" /\ port.tx_queues < num_queues
  /\ port' = IF port.rx_queues < num_queues
               THEN [port EXCEPT !.rx_queues = @ + 1]
               ELSE [port EXCEPT !.tx_queues = @ + 1]
  /\ UNCHANGED <<pc, workers, status>>

StartPort ==
  /\ pc = "queues" /\ port.tx_queues = num_queues
  /\ port' = [port EXCEPT !.started = TRUE]
  /\ Goto("main")

\* A call of DPDK fails: the port is invalid, or a step of it is refused.
PortFails ==
  /\ pc \in {"port", "queues"}
  /\ Exit("port")
  /\ UNCHANGED port

------------------------------------------------------------------------------
(* The workers.                                                            *)

main_lcore == Min(lcores)

\* The servers allocate their contexts before they count the lcores, the
\* clients after.
CountLcores(here, next) ==
  /\ pc = here
  /\ IF Cardinality(lcores) < num_queues THEN Exit("lcores") ELSE Goto(next)
  /\ UNCHANGED port

\* calloc, which may return no memory.
AllocateContexts(here, next) ==
  /\ pc = here
  /\ Goto(next) \/ Exit("memory")
  /\ UNCHANGED port

\* The queues 1, 2, ... go to the other lcores in ascending order; queue 0 is
\* main's and is not served before the loop is over.
NextQueue == Cardinality(DOMAIN workers) + 1
LaunchedLcores == {workers[q] : q \in DOMAIN workers}
Remaining == {l \in lcores \ {main_lcore} : \A k \in LaunchedLcores : l > k}

\* Mutant: the loop does not leave main's lcore out.
LaunchEverywhere ==
  /\ pc = "launch" /\ NextQueue < num_queues
  /\ LET left == {l \in lcores : \A k \in LaunchedLcores : l > k} IN
       /\ left # {}
       /\ workers' = [q \in 1..NextQueue |->
                        IF q = NextQueue THEN Min(left) ELSE workers[q]]
  /\ UNCHANGED <<pc, port, status>>

Launch ==
  /\ pc = "launch" /\ NextQueue < num_queues /\ Remaining # {}
  /\ workers' = [q \in 1..NextQueue |->
                   IF q = NextQueue THEN Min(Remaining) ELSE workers[q]]
  /\ UNCHANGED <<pc, port, status>>

LaunchFails ==
  /\ pc = "launch" /\ NextQueue < num_queues /\ Remaining # {}
  /\ Exit("launch")
  /\ UNCHANGED port

MainServes == workers' = [q \in 0..(NextQueue - 1) |->
                            IF q = 0 THEN main_lcore ELSE workers[q]]

\* The loop is over, and main becomes the worker of queue 0.
RunMainWorker ==
  /\ pc = "launch" /\ (NextQueue >= num_queues \/ Remaining = {})
  /\ IF NextQueue < num_queues
       THEN Exit("only mapped")
       ELSE MainServes /\ pc' = "running" /\ UNCHANGED status
  /\ UNCHANGED port

\* What runs after the arguments are parsed if no call fails, and the calls
\* that fail.
BringUp(offloads) ==
  \/ Configure(offloads) \/ SetUpQueue \/ StartPort
  \/ Launch \/ RunMainWorker

BringUpFails == PortFails \/ LaunchFails
==============================================================================
