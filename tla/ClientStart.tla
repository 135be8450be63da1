----------------------------- MODULE ClientStart -----------------------------
(***************************************************************************)
(* How a packet generator comes up: parse_echo_args of packet_gen_client.c *)
(* and parse_fast_client_args of packet_gen_client_fast.c, which differ in *)
(* one test, and what comes before the workers run in run_client,          *)
(* run_client_multiworker and run_fast_client.                             *)
(***************************************************************************)
EXTENDS Startup

CONSTANTS
  Clients,            \* a subset of {"packet_gen_client", "packet_gen_client_fast"}
  Sizes,              \* what PACKET_SIZE may be
  Flows,              \* what NUM_FLOWS may be
  HEADER_LEN,         \* the Ethernet, IPv4 and UDP headers together
  DEFAULT_NUM_FLOWS,
  UINT16_MAX,
  client_port

ASSUME ClientAssumption ==
  /\ Clients \subseteq {"packet_gen_client", "packet_gen_client_fast"}
  /\ Sizes \union Flows \subseteq Int
  /\ {HEADER_LEN, UINT16_MAX} \subseteq Nat
  /\ client_port \in 0..UINT16_MAX
  /\ DEFAULT_NUM_FLOWS \in 1..(UINT16_MAX - client_port)

VARIABLES
  argc,         \* the number of arguments, the program name included
  argv,         \* what the arguments say: those from argc on are not there
  payload_len,
  num_flows,
  templates     \* the flows that packet_templates has a packet for

clientArgVars == <<argc, argv, payload_len, num_flows>>
clientStartVars == <<clientArgVars, templates>>

ClientDataInit ==
  /\ payload_len = 22
  /\ num_flows = DEFAULT_NUM_FLOWS
  /\ templates = {}

ClientInit ==
  /\ StartupInit
  /\ program \in Clients
  /\ argc \in 1..6
  /\ argv \in [size : Sizes, mac_ok : BOOLEAN, flows : Flows, workers : Counts]
  /\ ClientDataInit

------------------------------------------------------------------------------
(* The arguments.                                                          *)

FlowsOk(n) == n \in 1..(UINT16_MAX - client_port)

WorkersOk(n) == n \in 1..MAX_CORES

\* Whether NUM_FLOWS is read: packet_gen_client.c asks for exactly four
\* arguments, packet_gen_client_fast.c for at least four.
ReadsFlows ==
  IF program = "packet_gen_client" THEN argc = 4 ELSE argc >= 4

Acceptable ==
  /\ argc \in 3..5
  /\ argv.size >= HEADER_LEN
  /\ ReadsFlows => FlowsOk(argv.flows)
  /\ argc = 5 => WorkersOk(argv.workers)
  /\ argv.mac_ok

\* The arguments are checked one after the other; with any of them wrong the
\* program prints what it expects and ends.
ParseClientArgs ==
  /\ pc = "parse"
  /\ IF Acceptable
       THEN /\ Goto("port")
            /\ payload_len' = argv.size - HEADER_LEN
            /\ num_flows' = IF ReadsFlows THEN argv.flows ELSE DEFAULT_NUM_FLOWS
            /\ num_queues' = IF argc = 5 THEN argv.workers ELSE 1
       ELSE /\ Exit("usage")
            /\ UNCHANGED <<payload_len, num_flows, num_queues>>
  /\ UNCHANGED <<argc, argv, port>>

------------------------------------------------------------------------------
(* run_client and run_fast_client.                                         *)

\* The plain client with one queue runs its tests on main's lcore, and neither
\* counts the lcores nor launches anything.
TestsOnMain == program = "packet_gen_client" /\ num_queues = 1

RunTests ==
  /\ pc = "main" /\ TestsOnMain
  /\ MainServes
  /\ pc' = "running"
  /\ UNCHANGED <<port, status>>

AllocateClientContexts ==
  AllocateContexts("contexts",
                   IF program = "packet_gen_client" THEN "launch" ELSE "templates")

\* prepare_templates, with an allocation that may fail.
PrepareTemplates ==
  /\ pc = "templates"
  /\ \/ Goto("launch") /\ templates' = 0..(num_flows - 1)
     \/ Exit("templates") /\ UNCHANGED templates
  /\ UNCHANGED port

ClientMain ==
  \/ /\ \/ BringUp({}) \/ BringUpFails
        \/ RunTests
        \/ ~TestsOnMain /\ CountLcores("main", "contexts")
        \/ AllocateClientContexts
     /\ UNCHANGED templates
  \/ PrepareTemplates

ClientNext ==
  /\ program \in Clients
  /\ \/ ParseClientArgs /\ UNCHANGED templates
     \/ ClientMain /\ UNCHANGED <<clientArgVars, num_queues>>
  /\ UNCHANGED <<program, lcores>>

ClientSpec == ClientInit /\ [][ClientNext]_<<startVars, clientStartVars>>

\* The steps of a client none of whose calls fails.
ClientBoot ==
  /\ ClientNext
  /\ status' \in {"running", "usage", "rss", "lcores"}

------------------------------------------------------------------------------
(* The packets a client sends.                                             *)

flow_src_port(flow_id) ==
  (client_port + (flow_id % num_flows)) % (UINT16_MAX + 1)

\* Mutant: every worker starts with the first flow.
InitialFlowSame(w) == 0

\* initial_flow_id of the worker of a queue.
InitialFlow(w) == w

\* The flow of the k-th packet of worker w, whose flow id starts at w and grows
\* by num_queues.
PacketFlow(w, k) == InitialFlow(w) + k * num_queues

\* The source ports are 50000 ... 50000 + NUM_FLOWS - 1, whatever follows
\* NUM_FLOWS on the command line (README.md, "Packet Format" and "Usage").
FlowsHonoured ==
  pc = "running" /\ argc >= 4 => num_flows = argv.flows
==============================================================================
