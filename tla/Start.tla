-------------------------------- MODULE Start --------------------------------
(***************************************************************************)
(* The start of any of the programs: an echo server or a packet generator. *)
(***************************************************************************)
EXTENDS ServerStart, ClientStart

vars == <<startVars, serverArgVars, clientStartVars>>

Init ==
  \/ /\ ServerInit
     /\ argc = 0 /\ argv = <<>>
     /\ ClientDataInit
  \/ /\ ClientInit
     /\ args = <<>>
     /\ ServerArgInit

Next ==
  \/ ServerNext /\ UNCHANGED clientStartVars
  \/ ClientNext /\ UNCHANGED serverArgVars

Spec == Init /\ [][Next]_vars

\* No call blocks; none of them has to fail.
FairSpec ==
  /\ Spec
  /\ WF_vars(ServerBoot /\ UNCHANGED clientStartVars)
  /\ WF_vars(ClientBoot /\ UNCHANGED serverArgVars)

------------------------------------------------------------------------------
(* Properties.                                                             *)

TypeOK ==
  /\ pc \in {"parse", "args", "port", "queues", "main", "lcores", "contexts",
             "templates", "launch", "running", "exited"}
  /\ program \in Clients \union {"echo_server"}
  /\ num_queues \in 1..MAX_CORES
  /\ port \in [offloads : SUBSET Offloads, rss : BOOLEAN,
               rx_queues : 0..MAX_CORES, tx_queues : 0..MAX_CORES,
               started : BOOLEAN]
  /\ lcores \subseteq Lcores
  /\ \A q \in DOMAIN workers : q \in 0..(MAX_CORES - 1) /\ workers[q] \in lcores
  /\ args \in Seq(Args)
  /\ worker_arg \in CountArgs \union {NoWorker}
  /\ selected_checksum_mode \in ChecksumModes
  /\ payload_len \in Nat
  /\ FlowsOk(num_flows)
  /\ templates \in {{}, 0..(num_flows - 1)}

\* A program that runs polls every queue of its port, each on one lcore and no
\* two on the same.  A queue that RSS fills and nobody polls would look like a
\* dead network to the flows that hash to it.
EveryQueueServed ==
  pc = "running" =>
    /\ DOMAIN workers = 0..(port.rx_queues - 1)
    /\ port.rx_queues > 0
    /\ \A q, r \in DOMAIN workers : q # r => workers[q] # workers[r]

\* A worker may be running as soon as it is launched, so by then the port
\* must be up, both rings of its queue with it, and able to do what the mode
\* leaves to it.
WorkersFindPortReady ==
  \A q \in DOMAIN workers :
    /\ port.started
    /\ q < port.rx_queues /\ q < port.tx_queues
    /\ port.offloads = RequestedTxOffloads
    /\ port.rss = (num_queues > 1)

\* The workers of a client send on num_flows distinct ports from client_port
\* on, none wrapping round at 2^16, however the numbers of flows and workers
\* relate; a single worker may only reach some of them.  The fast client has a
\* template for every packet of a worker from the worker's launch on.
EveryFlowSent ==
  LET sent == {PacketFlow(w, k) : w \in DOMAIN workers, k \in 0..(num_flows - 1)} IN
    /\ pc = "running" /\ program \in Clients =>
         {flow_src_port(f) : f \in sent} = client_port..(client_port + num_flows - 1)
    /\ program = "packet_gen_client_fast" =>
         \A f \in sent : f % num_flows \in templates

\* The program starts running or ends with a reason.
RunsOrExits == <>(pc \in {"running", "exited"})
==============================================================================
