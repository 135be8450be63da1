-------------------------- MODULE StandaloneProofs ---------------------------
(***************************************************************************)
(* Theorems about the parts that no other module is composed with.         *)
(*                                                                         *)
(* First the start of the programs, for every number of workers, lcores    *)
(* and flows, every command line and every port.  The invariant says, for  *)
(* each place main can stand at, what it has made of the port, which       *)
(* queues run and where, and what a fast client has prepared.  That the    *)
(* loop never runs out of lcores is a count: the launched lcores are as    *)
(* many as the launched queues, and with main's they are all there are.    *)
(*                                                                         *)
(* Then the cycle counters of a worker, in LoopProfile: what its stages    *)
(* have counted always fits into the time that has passed.  Then the       *)
(* checksums of a packet, in PacketChecksum, as arithmetic modulo M - 1,   *)
(* and the rounds that the analysis makes of the log, in ProfileLog: what  *)
(* its fold has gathered are pieces of the log one after the other.        *)
(***************************************************************************)
EXTENDS Start, LoopProfile, PacketChecksum, ProfileLog, DataLemmas

\* Both calls of a worker, and what comes before them, find the port in this state.
PortUp ==
  /\ port.started
  /\ port.rx_queues = num_queues /\ port.tx_queues = num_queues

\* What the port has been asked for.
PortConfigured ==
  /\ port.offloads = RequestedTxOffloads
  /\ port.rss = (num_queues > 1)

\* How far main has got with the port.
PortProgress ==
  /\ pc \in {"queues", "main", "lcores", "contexts", "templates", "launch", "running"}
       => PortConfigured
  /\ pc \in {"parse", "args", "port"} => port.rx_queues = 0 /\ port.tx_queues = 0
  /\ pc = "queues" =>
       /\ port.rx_queues <= num_queues /\ port.tx_queues <= num_queues
       /\ port.tx_queues > 0 => port.rx_queues = num_queues
  /\ pc \in {"main", "lcores", "contexts", "templates", "launch", "running"} => PortUp

\* The queues from 1 on run, each on an lcore of its own that is not main's, and
\* the loop has passed by no other.
Launched ==
  /\ NextQueue \in 1..num_queues
  /\ DOMAIN workers = 1..(NextQueue - 1)
  /\ \A q \in DOMAIN workers : workers[q] \in lcores \ {main_lcore}
  /\ \A q, r \in DOMAIN workers : q # r => workers[q] # workers[r]
  /\ lcores \ {main_lcore} \subseteq LaunchedLcores \union Remaining

\* All queues run.
Served ==
  /\ DOMAIN workers = 0..(num_queues - 1)
  /\ \A q \in DOMAIN workers : workers[q] \in lcores
  /\ \A q, r \in DOMAIN workers : q # r => workers[q] # workers[r]

\* How far main has got with the workers.
LaunchProgress ==
  /\ pc \in {"contexts", "templates", "launch"} => Cardinality(lcores) >= num_queues
  /\ pc \notin {"launch", "running"} => workers = <<>>
  /\ pc = "launch" => Launched
  /\ pc = "running" => Served
  /\ status # "only mapped"

\* The clients ask for no offload, and the fast one launches nobody before it has
\* all its packets.
ClientProgress ==
  /\ program \in Clients => selected_checksum_mode = "software"
  /\ pc = "templates" => program = "packet_gen_client_fast"
  /\ program = "packet_gen_client_fast" /\ pc \in {"launch", "running"} =>
       templates = 0..(num_flows - 1)
  /\ pc \in {"parse", "args"} => templates = {}

\* The types of what has a fixed one.
Basics ==
  /\ pc \in {"parse", "args", "port", "queues", "main", "lcores", "contexts",
             "templates", "launch", "running", "exited"}
  /\ program \in Clients \union {"echo_server"}
  /\ num_queues \in 1..MAX_CORES
  /\ port \in [offloads : SUBSET Offloads, rss : BOOLEAN,
               rx_queues : 0..MAX_CORES, tx_queues : 0..MAX_CORES,
               started : BOOLEAN]
  /\ lcores \subseteq Lcores /\ lcores # {}
  /\ args \in Seq(Args)
  /\ worker_arg \in CountArgs \union {NoWorker}
  /\ selected_checksum_mode \in ChecksumModes
  /\ program \in Clients => argv.size \in Sizes
  /\ payload_len \in Nat
  /\ FlowsOk(num_flows)
  /\ templates \in {{}, 0..(num_flows - 1)}

Inv ==
  /\ Basics
  /\ PortProgress
  /\ LaunchProgress
  /\ ClientProgress

\* What the steps after the parsing of the arguments leave alone.
Parameters == <<serverArgVars, clientStartVars, num_queues, program, lcores>>

------------------------------------------------------------------------------
(* Sets of lcores.                                                         *)

\* Min picks the least of a set of numbers that is not empty.
LEMMA MinIsLeast ==
  ASSUME NEW S \in SUBSET Nat, S # {}
  PROVE  Min(S) \in S /\ \A y \in S : Min(S) <= y
<1> DEFINE G == {n \in Nat : \A m \in 0..n : m \notin S}
<1>1. \E x \in S : \A y \in S : x <= y
  <2> SUFFICES ASSUME \A x \in S : \E y \in S : ~(x <= y) PROVE FALSE
    OBVIOUS
  <2>1. 0 \in G
    OBVIOUS
  <2>2. ASSUME NEW n \in Nat, n \in G PROVE n + 1 \in G
    <3>1. n + 1 \notin S
      <4> SUFFICES ASSUME n + 1 \in S PROVE FALSE
        OBVIOUS
      <4>1. PICK y \in S : ~(n + 1 <= y)
        OBVIOUS
      <4> QED BY <4>1, <2>2
    <3> QED BY <3>1, <2>2
  <2>3. Nat \subseteq G
    <3> HIDE DEF G
    <3> QED BY <2>1, <2>2, NatsByInduction
  <2>4. PICK x \in S : TRUE
    OBVIOUS
  <2>5. x \in Nat /\ x \in 0..x
    OBVIOUS
  <2> QED BY <2>3, <2>5
<1> QED BY <1>1 DEF Min

\* The lcores can be counted, and main's is one of them.
LEMMA LcoresFinite ==
  ASSUME Basics
  PROVE  /\ lcores \in SUBSET Nat /\ IsFiniteSet(lcores)
         /\ main_lcore \in lcores
         /\ Cardinality(lcores) \in Nat
<1>1. lcores \in SUBSET Nat /\ IsFiniteSet(lcores)
  BY StartupAssumption, FS_Subset DEF Basics
<1> QED
  BY <1>1, MinIsLeast, FS_CardinalityType DEF Basics, main_lcore

\* The invariant gives each variable its type.
LEMMA TypesFollow == Inv => TypeOK
<1> SUFFICES ASSUME Inv PROVE TypeOK
  OBVIOUS
<1>1. \A q \in DOMAIN workers : q \in 0..(MAX_CORES - 1) /\ workers[q] \in lcores
  <2>1. num_queues \in 1..MAX_CORES /\ MAX_CORES \in Nat
    BY StartupAssumption DEF Inv, Basics
  <2>2. CASE pc = "launch"
    <3>1. Launched
      BY <2>2 DEF Inv, LaunchProgress
    <3> DEFINE n == NextQueue
    <3>2. n \in 1..num_queues /\ DOMAIN workers = 1..(n - 1)
      BY <3>1 DEF Launched
    <3> HIDE DEF n
    <3>3. \A q \in 1..(n - 1) : q \in 0..(MAX_CORES - 1)
      BY <2>1, <3>2
    <3> QED BY <3>1, <3>2, <3>3 DEF Launched
  <2>3. CASE pc = "running"
    <3>1. Served
      BY <2>3 DEF Inv, LaunchProgress
    <3>2. \A q \in 0..(num_queues - 1) : q \in 0..(MAX_CORES - 1)
      BY <2>1
    <3> QED BY <3>1, <3>2 DEF Served
  <2>4. CASE pc \notin {"launch", "running"}
    <3>1. workers = <<>>
      BY <2>4 DEF Inv, LaunchProgress
    <3> QED BY <3>1
  <2> QED BY <2>2, <2>3, <2>4
<1> QED BY <1>1 DEF Inv, Basics, TypeOK

------------------------------------------------------------------------------
(* The steps.                                                              *)

\* What the initial states of all the programs have in common.
LEMMA InitInv == Init => Inv
<1> SUFFICES ASSUME Init PROVE Inv
  OBVIOUS
<1>1. StartupInit /\ ServerArgInit /\ ClientDataInit
  BY DEF Init, ServerInit, ClientInit
<1>2. program \in Clients \union {"echo_server"}
  BY DEF Init, ServerInit, ClientInit
<1>3. args \in Seq(Args)
  <2>1. CASE args = <<>>
    BY <2>1
  <2>2. CASE args \in UNION {[1..n -> Args] : n \in 0..3}
    <3>1. PICK n \in 0..3 : args \in [1..n -> Args]
      BY <2>2
    <3> QED BY <3>1, SeqDef
  <2> QED BY <2>1, <2>2 DEF Init, ServerInit
<1>4. Basics
  <2>1. num_queues \in 1..MAX_CORES
    BY <1>1, StartupAssumption DEF StartupInit
  <2>2. port \in [offloads : SUBSET Offloads, rss : BOOLEAN,
                 rx_queues : 0..MAX_CORES, tx_queues : 0..MAX_CORES,
                 started : BOOLEAN]
    BY <1>1, StartupAssumption DEF StartupInit
  <2>3. lcores \subseteq Lcores /\ lcores # {} /\ pc = "parse"
    <3>1. lcores \in (SUBSET Lcores) \ {{}}
      BY <1>1 DEF StartupInit
    <3>2. pc = "parse"
      BY <1>1 DEF StartupInit
    <3>3. lcores \in SUBSET Lcores /\ lcores \notin {{}}
      BY <3>1
    <3> QED BY <3>2, <3>3
  <2>4. FlowsOk(num_flows) /\ payload_len \in Nat /\ templates = {}
    BY <1>1, ClientAssumption DEF ClientDataInit, FlowsOk
  <2>5. program \in Clients => argv.size \in Sizes
    <3>1. CASE ServerInit
      BY <3>1, ClientAssumption DEF ServerInit
    <3>2. CASE ClientInit
      BY <3>2 DEF ClientInit
    <3> QED BY <3>1, <3>2 DEF Init
  <2> QED
    BY <1>1, <1>2, <1>3, <2>1, <2>2, <2>3, <2>4, <2>5
       DEF Basics, ServerArgInit, ChecksumModes
<1>5. PortProgress /\ LaunchProgress /\ ClientProgress
  BY <1>1 DEF PortProgress, LaunchProgress, ClientProgress, StartupInit,
              ServerArgInit, ClientDataInit
<1> QED BY <1>4, <1>5 DEF Inv

\* A program that ends, for whatever reason but one.
LEMMA ExitInv ==
  ASSUME Inv, Basics', NEW why, why # "only mapped", Exit(why),
         UNCHANGED <<program, selected_checksum_mode>>
  PROVE  Inv'
<1>1. pc' = "exited" /\ workers' = <<>> /\ status' = why
  BY DEF Exit
<1>2. PortProgress' /\ LaunchProgress'
  BY <1>1 DEF PortProgress, LaunchProgress
<1>3. ClientProgress'
  BY <1>1 DEF Inv, ClientProgress
<1> QED BY <1>2, <1>3 DEF Inv

\* Where the port stands does not depend on the workers.
LEMMA ConfigureInv ==
  ASSUME Inv, Configure(RequestedTxOffloads), UNCHANGED Parameters
  PROVE  Inv'
<1> USE DEF Parameters, serverArgVars, clientStartVars, clientArgVars
<1>1. RequestedTxOffloads \in SUBSET Offloads /\ RequestedTxOffloads' = RequestedTxOffloads
  BY DEF RequestedTxOffloads
<1>2. pc = "port" /\ workers = <<>> /\ status # "only mapped"
  BY DEF Configure, Inv, LaunchProgress
<1>3. CASE UNCHANGED port /\ (Exit("offload") \/ Exit("rss"))
  <2>1. Basics'
    BY <1>3 DEF Inv, Basics, Exit, FlowsOk
  <2>2. CASE Exit("offload")
    BY <2>1, <2>2, ExitInv
  <2>3. CASE Exit("rss")
    BY <2>1, <2>3, ExitInv
  <2> QED BY <1>3, <2>2, <2>3
<1>4. CASE /\ port' = [port EXCEPT !.offloads = RequestedTxOffloads,
                                   !.rss = num_queues > 1]
           /\ Goto("queues")
  <2>0. port' \in [offloads : SUBSET Offloads, rss : BOOLEAN,
                  rx_queues : 0..MAX_CORES, tx_queues : 0..MAX_CORES,
                  started : BOOLEAN]
    <3>1. (num_queues > 1) \in BOOLEAN
      OBVIOUS
    <3> QED BY <1>1, <1>4, <3>1 DEF Inv, Basics
  <2>1. Basics'
    BY <1>4, <2>0 DEF Inv, Basics, Goto, FlowsOk
  <2>2. PortProgress'
    <3>1. /\ port'.offloads = RequestedTxOffloads
          /\ port'.rx_queues = port.rx_queues /\ port'.tx_queues = port.tx_queues
      BY <1>4 DEF Inv, Basics
    <3>2. port'.rss = (num_queues > 1)
      BY <1>4 DEF Inv, Basics
    <3>3. port.rx_queues = 0 /\ port.tx_queues = 0
      BY <1>2 DEF Inv, PortProgress
    <3>5. num_queues \in 1..MAX_CORES /\ MAX_CORES \in Nat
      BY StartupAssumption DEF Inv, Basics
    <3>4. PortConfigured'
      BY <1>1, <3>1, <3>2 DEF PortConfigured
    <3> QED
      BY <1>4, <3>1, <3>3, <3>4, <3>5 DEF PortProgress, Goto
  <2>3. LaunchProgress' /\ ClientProgress'
    BY <1>2, <1>4 DEF Goto, LaunchProgress, Inv, ClientProgress
  <2> QED BY <2>1, <2>2, <2>3 DEF Inv
<1> QED
  BY <1>3, <1>4 DEF Configure

\* The RX queues come first, then the TX queues, none more than asked for.
LEMMA SetUpQueueInv ==
  ASSUME Inv, SetUpQueue, UNCHANGED Parameters
  PROVE  Inv'
<1> USE DEF Parameters, serverArgVars, clientStartVars, clientArgVars
<1>1. /\ pc = "queues" /\ pc' = "queues"
      /\ UNCHANGED <<workers, status>>
      /\ num_queues \in 1..MAX_CORES /\ MAX_CORES \in Nat
      /\ port.rx_queues \in 0..MAX_CORES /\ port.tx_queues \in 0..MAX_CORES
      /\ port.tx_queues < num_queues
      /\ port.rx_queues <= num_queues
      /\ port.tx_queues > 0 => port.rx_queues = num_queues
  BY StartupAssumption DEF SetUpQueue, Inv, Basics, PortProgress
<1>2. /\ port'.offloads = port.offloads /\ port'.rss = port.rss
      /\ port' \in [offloads : SUBSET Offloads, rss : BOOLEAN,
                    rx_queues : 0..MAX_CORES, tx_queues : 0..MAX_CORES,
                    started : BOOLEAN]
      /\ IF port.rx_queues < num_queues
           THEN port'.rx_queues = port.rx_queues + 1 /\ port'.tx_queues = port.tx_queues
           ELSE port'.rx_queues = port.rx_queues /\ port'.tx_queues = port.tx_queues + 1
  <2>1. port \in [offloads : SUBSET Offloads, rss : BOOLEAN,
                  rx_queues : 0..MAX_CORES, tx_queues : 0..MAX_CORES,
                  started : BOOLEAN]
    BY DEF Inv, Basics
  <2>2. CASE port.rx_queues < num_queues
    <3>1. port' = [port EXCEPT !.rx_queues = @ + 1]
      BY <2>2 DEF SetUpQueue
    <3>2. port.rx_queues + 1 \in 0..MAX_CORES
      BY <1>1, <2>2
    <3> QED BY <2>1, <2>2, <3>1, <3>2
  <2>3. CASE ~ (port.rx_queues < num_queues)
    <3>1. port' = [port EXCEPT !.tx_queues = @ + 1]
      BY <2>3 DEF SetUpQueue
    <3>2. port.tx_queues + 1 \in 0..MAX_CORES
      BY <1>1
    <3> QED BY <2>1, <2>3, <3>1, <3>2
  <2> QED BY <2>2, <2>3
<1>3. Basics'
  BY <1>1, <1>2 DEF Inv, Basics, FlowsOk
<1>4. PortProgress'
  <2>1. PortConfigured'
    BY <1>1, <1>2 DEF Inv, PortProgress, PortConfigured, RequestedTxOffloads
  <2> QED
    BY <1>1, <1>2, <2>1 DEF PortProgress
<1>5. LaunchProgress' /\ ClientProgress'
  BY <1>1 DEF LaunchProgress, Inv, ClientProgress
<1> QED BY <1>3, <1>4, <1>5 DEF Inv

\* The port starts with all its queues.
LEMMA StartPortInv ==
  ASSUME Inv, StartPort, UNCHANGED Parameters
  PROVE  Inv'
<1> USE DEF Parameters, serverArgVars, clientStartVars, clientArgVars
<1>1. /\ pc = "queues" /\ pc' = "main"
      /\ UNCHANGED <<workers, status>>
      /\ num_queues \in 1..MAX_CORES /\ MAX_CORES \in Nat
      /\ port.tx_queues = num_queues /\ port.rx_queues = num_queues
  BY StartupAssumption DEF StartPort, Goto, Inv, Basics, PortProgress
<1>2. /\ port' \in [offloads : SUBSET Offloads, rss : BOOLEAN,
                    rx_queues : 0..MAX_CORES, tx_queues : 0..MAX_CORES,
                    started : BOOLEAN]
      /\ port'.offloads = port.offloads /\ port'.rss = port.rss
      /\ port'.rx_queues = port.rx_queues /\ port'.tx_queues = port.tx_queues
      /\ port'.started
  BY DEF StartPort, Inv, Basics
<1>3. Basics'
  BY <1>1, <1>2 DEF Inv, Basics, FlowsOk
<1>4. PortProgress'
  BY <1>1, <1>2 DEF Inv, PortProgress, PortConfigured, RequestedTxOffloads, PortUp
<1>5. LaunchProgress' /\ ClientProgress'
  BY <1>1 DEF LaunchProgress, Inv, ClientProgress
<1> QED BY <1>3, <1>4, <1>5 DEF Inv

\* A call fails and ends the program, the port is as it was.
LEMMA FailureInv ==
  ASSUME Inv, NEW why, why # "only mapped", Exit(why), UNCHANGED port,
         UNCHANGED Parameters
  PROVE  Inv'
<1> USE DEF Parameters, serverArgVars, clientStartVars, clientArgVars
<1>1. Basics'
  BY DEF Inv, Basics, Exit, FlowsOk
<1> QED BY <1>1, ExitInv

\* main goes on to the next of its steps before the launches.
LEMMA GotoInv ==
  ASSUME Inv, NEW next \in {"lcores", "contexts", "templates", "launch"}, Goto(next),
         pc \in {"main", "lcores", "contexts", "templates"},
         next \in {"contexts", "templates", "launch"} => Cardinality(lcores) >= num_queues,
         next = "templates" => program = "packet_gen_client_fast",
         next = "launch" /\ program = "packet_gen_client_fast"
           => templates' = 0..(num_flows - 1),
         templates' \in {templates, 0..(num_flows - 1)},
         UNCHANGED <<serverArgVars, clientArgVars, num_queues, program, lcores, port>>
  PROVE  Inv'
<1> USE DEF serverArgVars, clientArgVars
<1>1. pc' = next /\ UNCHANGED <<workers, status>>
  BY DEF Goto
<1>2. Basics'
  BY <1>1 DEF Inv, Basics, FlowsOk
<1>3. PortProgress'
  BY <1>1 DEF Inv, PortProgress, PortConfigured, RequestedTxOffloads, PortUp
<1>4. ClientProgress'
  BY <1>1 DEF Inv, ClientProgress
<1>5. LaunchProgress'
  <2>1. workers = <<>> /\ status # "only mapped"
    BY DEF Inv, LaunchProgress
  <2>2. Launched'
    <3>0. num_queues' \in 1..MAX_CORES /\ MAX_CORES \in Nat
      BY <1>2, StartupAssumption DEF Basics
    <3>1. DOMAIN workers' = {} /\ Cardinality(DOMAIN workers') = 0
      <4>1. workers' = <<>>
        BY <1>1, <2>1
      <4>2. DOMAIN workers' = {}
        BY <4>1
      <4> QED BY <4>2, FS_EmptySet
    <3>2. NextQueue' = 1 /\ LaunchedLcores' = {}
      BY <3>1 DEF NextQueue, LaunchedLcores
    <3>3. Remaining' = lcores' \ {main_lcore'}
      BY <3>2 DEF Remaining
    <3> QED
      BY <3>0, <3>1, <3>2, <3>3 DEF Launched
  <2> QED
    BY <1>1, <2>1, <2>2 DEF LaunchProgress
<1> QED BY <1>2, <1>3, <1>4, <1>5 DEF Inv

\* The next lcore that is not main's gets the next queue.
LEMMA LaunchInv ==
  ASSUME Inv, Launch, UNCHANGED Parameters
  PROVE  Inv'
<1> USE DEF Parameters, serverArgVars, clientStartVars, clientArgVars
<1> DEFINE n == NextQueue
           m == Min(Remaining)
<1>1. /\ pc = "launch" /\ UNCHANGED <<pc, port, status>>
      /\ n < num_queues /\ Remaining # {}
      /\ workers' = [q \in 1..n |-> IF q = n THEN m ELSE workers[q]]
  BY DEF Launch
<1>2. num_queues \in 1..MAX_CORES /\ MAX_CORES \in Nat
  BY StartupAssumption DEF Inv, Basics
<1>3. Launched
  BY <1>1 DEF Inv, LaunchProgress
<1>4. n \in 1..num_queues /\ DOMAIN workers = 1..(n - 1)
  BY <1>3 DEF Launched
<1>5. /\ Remaining \subseteq lcores \ {main_lcore}
      /\ Remaining \in SUBSET Nat
      /\ \A l \in Remaining : \A k \in LaunchedLcores : l > k
  BY LcoresFinite DEF Remaining, Inv
<1>6. m \in Remaining /\ \A y \in Remaining : m <= y
  BY <1>1, <1>5, MinIsLeast
<1>7. \A q \in DOMAIN workers : workers[q] \in LaunchedLcores /\ workers[q] \in Nat
  <2>1. \A q \in DOMAIN workers : workers[q] \in lcores
    BY <1>3 DEF Launched
  <2> QED BY <2>1, LcoresFinite DEF LaunchedLcores, Inv
<1> HIDE DEF n, m
<1>8. DOMAIN workers' = 1..n /\ NextQueue' = n + 1
  <2>1. DOMAIN workers' = 1..n
    BY <1>1
  <2>2. Cardinality(1..n) = n
    BY <1>2, <1>4, FS_Interval
  <2> QED BY <2>1, <2>2 DEF NextQueue
<1>9. /\ workers'[n] = m
      /\ \A q \in DOMAIN workers : workers'[q] = workers[q]
      /\ DOMAIN workers' = DOMAIN workers \union {n}
      /\ n \notin DOMAIN workers
  BY <1>1, <1>2, <1>4, <1>8
<1>10. \A q \in DOMAIN workers : workers[q] # m
  <2> SUFFICES ASSUME NEW q \in DOMAIN workers, workers[q] = m PROVE FALSE
    OBVIOUS
  <2>1. m \in Nat /\ m > m
    BY <1>5, <1>6, <1>7
  <2> QED BY <2>1
<1>11. LaunchedLcores' = LaunchedLcores \union {m}
  BY <1>9 DEF LaunchedLcores
<1>12. Launched'
  <2>1. (NextQueue \in 1..num_queues)' /\ DOMAIN workers' = 1..(NextQueue' - 1)
    BY <1>1, <1>2, <1>4, <1>8
  <2>2. UNCHANGED <<lcores, main_lcore>>
    BY DEF main_lcore
  <2>3. \A q \in DOMAIN workers' : workers'[q] \in lcores' \ {main_lcore'}
    BY <1>3, <1>5, <1>6, <1>9, <2>2 DEF Launched
  <2>4. \A q, r \in DOMAIN workers' : q # r => workers'[q] # workers'[r]
    BY <1>3, <1>9, <1>10 DEF Launched
  <2>5. ASSUME NEW l \in lcores \ {main_lcore}
        PROVE  l \in LaunchedLcores' \union Remaining'
    <3>1. CASE l \in LaunchedLcores
      BY <3>1, <1>11
    <3>2. CASE l \in Remaining /\ l = m
      BY <3>2, <1>11
    <3>3. CASE l \in Remaining /\ l # m
      <4>1. l \in Nat /\ m \in Nat /\ l > m
        BY <3>3, <1>5, <1>6
      <4>2. \A k \in LaunchedLcores' : l > k
        BY <1>5, <1>11, <3>3, <4>1
      <4> QED BY <2>2, <4>2 DEF Remaining
    <3> QED BY <1>3, <3>1, <3>2, <3>3 DEF Launched
  <2> QED BY <2>1, <2>2, <2>3, <2>4, <2>5 DEF Launched
<1>13. Basics' /\ PortProgress' /\ ClientProgress'
  BY <1>1 DEF Inv, Basics, FlowsOk, PortProgress, PortConfigured, PortUp,
              RequestedTxOffloads, ClientProgress
<1>14. LaunchProgress'
  BY <1>1, <1>12 DEF Inv, LaunchProgress
<1> QED BY <1>13, <1>14 DEF Inv

\* With the loop over and a queue left, there are too few lcores.
LEMMA EnoughLcores ==
  ASSUME Inv, pc = "launch", Remaining = {}
  PROVE  NextQueue >= num_queues
<1> DEFINE n == NextQueue
           others == lcores \ {main_lcore}
<1>1. num_queues \in 1..MAX_CORES /\ MAX_CORES \in Nat
  BY StartupAssumption DEF Inv, Basics
<1>2. Launched /\ Cardinality(lcores) >= num_queues
  BY DEF Inv, LaunchProgress
<1>3. n \in 1..num_queues /\ DOMAIN workers = 1..(n - 1)
  BY <1>2 DEF Launched
<1>4. others \subseteq LaunchedLcores
  BY <1>2 DEF Launched
<1>5. /\ IsFiniteSet(lcores) /\ main_lcore \in lcores
      /\ Cardinality(lcores) \in Nat
  BY LcoresFinite DEF Inv
<1>6. IsFiniteSet(others) /\ Cardinality(others) = Cardinality(lcores) - 1
  BY <1>5, FS_RemoveElement
<1> HIDE DEF n, others
<1> DEFINE f == [q \in 1..(n - 1) |-> workers[q]]
<1>7. IsFiniteSet(1..(n - 1)) /\ Cardinality(1..(n - 1)) = n - 1
  BY <1>1, <1>3, FS_Interval
<1>8. f \in Surjection(1..(n - 1), LaunchedLcores)
  <2>1. LaunchedLcores = {workers[q] : q \in 1..(n - 1)}
    BY <1>3 DEF LaunchedLcores
  <2>2. f \in [1..(n - 1) -> LaunchedLcores]
    BY <2>1
  <2>3. \A l \in LaunchedLcores : \E q \in 1..(n - 1) : f[q] = l
    BY <2>1
  <2> QED BY <2>2, <2>3 DEF Surjection
<1>9. IsFiniteSet(LaunchedLcores) /\ Cardinality(LaunchedLcores) <= n - 1
  <2> HIDE DEF f
  <2> QED BY <1>7, <1>8, FS_Surjection
<1>10. Cardinality(others) <= Cardinality(LaunchedLcores)
  BY <1>4, <1>9, FS_Subset
<1>11. Cardinality(LaunchedLcores) \in Nat
  BY <1>9, FS_CardinalityType
<1> QED
  BY <1>1, <1>2, <1>3, <1>5, <1>6, <1>9, <1>10, <1>11 DEF n

\* main serves queue 0 itself.
LEMMA MainServesInv ==
  ASSUME Inv, MainServes, pc' = "running", UNCHANGED <<port, status>>,
         UNCHANGED Parameters,
         \/ pc = "launch" /\ NextQueue >= num_queues
         \/ pc = "main" /\ program # "packet_gen_client_fast" /\ num_queues = 1
  PROVE  Inv'
<1> USE DEF Parameters, serverArgVars, clientStartVars, clientArgVars
<1>1. num_queues \in 1..MAX_CORES /\ MAX_CORES \in Nat
  BY StartupAssumption DEF Inv, Basics
<1>2. /\ NextQueue = num_queues
      /\ DOMAIN workers = 1..(num_queues - 1)
      /\ \A q \in DOMAIN workers : workers[q] \in lcores \ {main_lcore}
      /\ \A q, r \in DOMAIN workers : q # r => workers[q] # workers[r]
  <2>1. CASE pc = "launch" /\ NextQueue >= num_queues
    <3>1. Launched
      BY <2>1 DEF Inv, LaunchProgress
    <3>2. NextQueue = num_queues
      <4>1. NextQueue \in 1..num_queues
        BY <3>1 DEF Launched
      <4> QED BY <4>1, <2>1, <1>1
    <3> QED BY <3>1, <3>2 DEF Launched
  <2>2. CASE pc = "main" /\ num_queues = 1
    <3>1. workers = <<>>
      BY <2>2 DEF Inv, LaunchProgress
    <3>2. DOMAIN workers = {}
      BY <3>1
    <3>3. NextQueue = 1
      BY <3>2, FS_EmptySet DEF NextQueue
    <3> QED BY <2>2, <3>2, <3>3
  <2> QED BY <2>1, <2>2
<1>3. workers' = [q \in 0..(num_queues - 1) |-> IF q = 0 THEN main_lcore ELSE workers[q]]
  BY <1>2 DEF MainServes
<1>4. main_lcore \in lcores
  BY LcoresFinite DEF Inv
<1>5. /\ DOMAIN workers' = 0..(num_queues - 1)
      /\ workers'[0] = main_lcore
      /\ \A q \in DOMAIN workers' : q = 0 \/ q \in DOMAIN workers
      /\ \A q \in DOMAIN workers : workers'[q] = workers[q]
  BY <1>1, <1>2, <1>3
<1>6. Served'
  <2>1. \A q \in DOMAIN workers' : workers'[q] \in lcores
    BY <1>2, <1>4, <1>5
  <2>2. \A q, r \in DOMAIN workers' : q # r => workers'[q] # workers'[r]
    BY <1>2, <1>5
  <2> QED BY <1>5, <2>1, <2>2 DEF Served
<1>7. Basics'
  BY DEF Inv, Basics, FlowsOk
<1>8. PortProgress'
  BY DEF Inv, PortProgress, PortConfigured, PortUp, RequestedTxOffloads
<1>9. ClientProgress'
  BY DEF Inv, ClientProgress
<1>10. LaunchProgress'
  BY <1>6 DEF Inv, LaunchProgress
<1> QED BY <1>7, <1>8, <1>9, <1>10 DEF Inv

\* The loop over, main serves queue 0: it never finds a queue left.
LEMMA RunMainWorkerInv ==
  ASSUME Inv, RunMainWorker, UNCHANGED Parameters
  PROVE  Inv'
<1>1. pc = "launch"
  BY DEF RunMainWorker
<1>2. NextQueue >= num_queues
  BY <1>1, EnoughLcores DEF RunMainWorker
<1>3. ~(NextQueue < num_queues)
  <2>1. num_queues \in 1..MAX_CORES /\ MAX_CORES \in Nat
    BY StartupAssumption DEF Inv, Basics
  <2>2. NextQueue \in 1..num_queues
    BY <1>1 DEF Inv, LaunchProgress, Launched
  <2> QED BY <1>2, <2>1, <2>2
<1>4. MainServes /\ pc' = "running" /\ UNCHANGED <<status, port>>
  BY <1>3 DEF RunMainWorker
<1> QED BY <1>1, <1>2, <1>4, MainServesInv

\* All that follows the parsing of the arguments.
LEMMA BringUpInv ==
  ASSUME Inv, BringUp(RequestedTxOffloads) \/ BringUpFails, UNCHANGED Parameters
  PROVE  Inv'
<1>1. CASE Configure(RequestedTxOffloads)
  BY <1>1, ConfigureInv
<1>2. CASE SetUpQueue
  BY <1>2, SetUpQueueInv
<1>3. CASE StartPort
  BY <1>3, StartPortInv
<1>4. CASE Launch
  BY <1>4, LaunchInv
<1>5. CASE RunMainWorker
  BY <1>5, RunMainWorkerInv
<1>6. CASE BringUpFails
  BY <1>6, FailureInv DEF BringUpFails, PortFails, LaunchFails
<1> QED
  BY <1>1, <1>2, <1>3, <1>4, <1>5, <1>6 DEF BringUp

\* The contexts are there, or the program ends.
LEMMA AllocateInv ==
  ASSUME Inv, NEW next, NEW here, AllocateContexts(here, next), UNCHANGED Parameters,
         \/ here = "main" /\ next = "lcores"
         \/ here = "contexts" /\ next = "launch" /\ program # "packet_gen_client_fast"
         \/ here = "contexts" /\ next = "templates" /\ program = "packet_gen_client_fast"
  PROVE  Inv'
<1>1. pc = here /\ UNCHANGED port
  BY DEF AllocateContexts
<1>2. CASE Exit("memory")
  BY <1>1, <1>2, FailureInv
<1>3. CASE Goto(next)
  <2>1. pc = "contexts" => Cardinality(lcores) >= num_queues
    BY DEF Inv, LaunchProgress
  <2> QED
    BY <1>1, <1>3, <2>1, GotoInv DEF Parameters, clientStartVars
<1> QED BY <1>2, <1>3 DEF AllocateContexts

\* From here on there is an lcore for each queue, or the program has ended.
LEMMA CountLcoresInv ==
  ASSUME Inv, NEW next, NEW here, CountLcores(here, next), UNCHANGED Parameters,
         \/ here = "main" /\ next = "contexts"
         \/ here = "lcores" /\ next = "launch" /\ program # "packet_gen_client_fast"
  PROVE  Inv'
<1>1. pc = here /\ UNCHANGED port
  BY DEF CountLcores
<1>2. CASE Exit("lcores")
  BY <1>1, <1>2, FailureInv
<1>3. CASE ~(Cardinality(lcores) < num_queues) /\ Goto(next)
  <2>1. Cardinality(lcores) \in Nat /\ num_queues \in 1..MAX_CORES /\ MAX_CORES \in Nat
    BY LcoresFinite, StartupAssumption DEF Inv, Basics
  <2>2. Cardinality(lcores) >= num_queues
    BY <1>3, <2>1
  <2> QED
    BY <1>1, <1>3, <2>2, GotoInv DEF Parameters, clientStartVars
<1> QED BY <1>2, <1>3 DEF CountLcores

------------------------------------------------------------------------------
(* The servers.                                                            *)

\* Parsing touches neither the port nor the workers.
LEMMA ParseServerInv ==
  ASSUME Inv, ParseServerArgs, program = "echo_server",
         UNCHANGED <<clientStartVars, program, lcores>>
  PROVE  Inv'
<1> USE DEF serverArgVars, clientStartVars, clientArgVars
<1>1. /\ pc \in {"parse", "args"} /\ UNCHANGED port
      /\ \/ Exit("usage")
         \/ Goto("args") /\ UNCHANGED num_queues
         \/ Goto("port") /\ num_queues' = worker_arg.count
  BY DEF ParseServerArgs, BadNumberOfArgs, CheckNumberOfArgs, ParseMode, ParseWord, Parsed
<1>2. args' \in Seq(Args)
  <2>1. args \in Seq(Args)
    BY DEF Inv, Basics
  <2>2. args' = args \/ (args # <<>> /\ args' = Tail(args))
    BY DEF ParseServerArgs, BadNumberOfArgs, CheckNumberOfArgs, ParseMode, ParseWord, Parsed
  <2> QED BY <2>1, <2>2
<1>3. num_queues' \in 1..MAX_CORES
  BY DEF ParseServerArgs, BadNumberOfArgs, CheckNumberOfArgs, ParseMode, ParseWord,
         Parsed, Inv, Basics
<1>4. worker_arg' \in CountArgs \union {NoWorker}
  <2>1. CASE ParseWord
    <3>1. Head(args) \in Args /\ ~Head(args).is_mode
      BY <2>1 DEF ParseWord, Inv, Basics
    <3>2. Head(args) \in CountArgs
      BY <3>1 DEF Args, ModeArgs
    <3> QED BY <2>1, <3>2 DEF ParseWord, Inv, Basics
  <2> QED
    BY <2>1 DEF ParseServerArgs, BadNumberOfArgs, CheckNumberOfArgs, ParseMode, Parsed,
                Inv, Basics
<1>5. selected_checksum_mode' \in ChecksumModes
  BY DEF ParseServerArgs, BadNumberOfArgs, CheckNumberOfArgs, ParseMode, ParseWord,
         Parsed, Inv, Basics
<1>6. pc' \in {"args", "port", "exited"}
  BY <1>1 DEF Exit, Goto
<1>7. Basics'
  BY <1>1, <1>2, <1>3, <1>4, <1>5, <1>6 DEF Inv, Basics, FlowsOk
<1>8. PortProgress'
  BY <1>1, <1>6 DEF Inv, PortProgress
<1>9. LaunchProgress'
  BY <1>1, <1>6 DEF Inv, LaunchProgress, Exit, Goto
<1>10. ClientProgress'
  <2>1. program \notin Clients
    BY ClientAssumption
  <2> QED BY <2>1, <1>1, <1>6 DEF Inv, ClientProgress
<1> QED BY <1>7, <1>8, <1>9, <1>10 DEF Inv

\* The echo servers.
LEMMA ServerInv ==
  ASSUME Inv, ServerNext, UNCHANGED clientStartVars
  PROVE  Inv'
<1>1. CASE ParseServerArgs
  BY <1>1, ParseServerInv DEF ServerNext
<1>2. CASE ServerMain /\ UNCHANGED <<serverArgVars, num_queues>>
  <2>0. UNCHANGED Parameters
    BY <1>2 DEF ServerNext, Parameters
  <2>1. CASE BringUp(RequestedTxOffloads) \/ BringUpFails
    BY <2>0, <2>1, BringUpInv
  <2>2. CASE AllocateContexts("main", "lcores")
    BY <2>0, <2>2, AllocateInv
  <2>3. CASE CountLcores("lcores", "launch")
    <3>1. program # "packet_gen_client_fast"
      BY DEF ServerNext
    <3> QED BY <2>0, <2>3, <3>1, CountLcoresInv
  <2>4. CASE TxBufferFails
    BY <2>0, <2>4, FailureInv DEF TxBufferFails
  <2> QED
    BY <1>2, <2>1, <2>2, <2>3, <2>4 DEF ServerMain
<1> QED BY <1>1, <1>2 DEF ServerNext

------------------------------------------------------------------------------
(* The clients.                                                            *)

\* A client that parses its arguments has not touched the port yet.
LEMMA ParseClientInv ==
  ASSUME Inv, ParseClientArgs, program \in Clients,
         UNCHANGED <<serverArgVars, templates, program, lcores>>
  PROVE  Inv'
<1> USE DEF serverArgVars
<1>1. pc = "parse" /\ UNCHANGED <<port, argv>> /\ templates = {}
  BY DEF ParseClientArgs, Inv, ClientProgress
<1>2. CASE /\ Acceptable /\ Goto("port")
           /\ payload_len' = argv.size - HEADER_LEN
           /\ num_flows' = (IF ReadsFlows THEN argv.flows ELSE DEFAULT_NUM_FLOWS)
           /\ num_queues' = (IF argc = 5 THEN argv.workers ELSE 1)
  <2>1. FlowsOk(num_flows')
    BY <1>2, ClientAssumption DEF Acceptable, FlowsOk
  <2>2. num_queues' \in 1..MAX_CORES
    BY <1>2, StartupAssumption DEF Acceptable, WorkersOk
  <2>3. payload_len' \in Nat
    <3>1. argv.size \in Int /\ HEADER_LEN \in Nat /\ argv.size >= HEADER_LEN
      <4>1. argv.size \in Sizes /\ argv.size >= HEADER_LEN
        BY <1>2 DEF Acceptable, Inv, Basics
      <4> QED BY <4>1, ClientAssumption
    <3> QED BY <1>2, <3>1
  <2>4. pc' = "port" /\ UNCHANGED <<workers, status>>
    BY <1>2 DEF Goto
  <2>5. Basics'
    BY <1>1, <2>1, <2>2, <2>3, <2>4 DEF Inv, Basics, FlowsOk
  <2>6. PortProgress' /\ LaunchProgress' /\ ClientProgress'
    BY <1>1, <2>4 DEF Inv, PortProgress, LaunchProgress, ClientProgress
  <2> QED BY <2>5, <2>6 DEF Inv
<1>3. CASE Exit("usage") /\ UNCHANGED <<payload_len, num_flows, num_queues>>
  <2>1. Basics'
    BY <1>1, <1>3 DEF Inv, Basics, Exit, FlowsOk
  <2> QED BY <1>3, <2>1, ExitInv
<1> QED BY <1>2, <1>3 DEF ParseClientArgs

\* The packet generators, whose main has the same steps in another order.
LEMMA ClientInv ==
  ASSUME Inv, ClientNext, UNCHANGED serverArgVars
  PROVE  Inv'
<1>1. CASE ParseClientArgs /\ UNCHANGED templates
  BY <1>1, ParseClientInv DEF ClientNext
<1>2. CASE ClientMain /\ UNCHANGED <<clientArgVars, num_queues>>
  <2>0. program \in Clients /\ UNCHANGED <<program, lcores>>
    BY DEF ClientNext
  <2>1. CASE UNCHANGED templates
    <3>0. UNCHANGED Parameters
      BY <1>2, <2>0, <2>1 DEF Parameters, clientStartVars
    <3>1. CASE BringUp({}) \/ BringUpFails
      <4>1. RequestedTxOffloads = {}
        BY <2>0 DEF Inv, ClientProgress, RequestedTxOffloads
      <4> QED BY <3>0, <3>1, <4>1, BringUpInv
    <3>2. CASE RunTests
      <4>1. /\ MainServes /\ pc' = "running" /\ UNCHANGED <<port, status>>
            /\ pc = "main" /\ program # "packet_gen_client_fast" /\ num_queues = 1
        BY <3>2 DEF RunTests, TestsOnMain
      <4> QED BY <3>0, <4>1, MainServesInv
    <3>3. CASE CountLcores("main", "contexts")
      BY <3>0, <3>3, CountLcoresInv
    <3>4. CASE AllocateClientContexts
      <4>1. CASE program = "packet_gen_client"
        <5>1. AllocateContexts("contexts", "launch")
          BY <3>4, <4>1 DEF AllocateClientContexts
        <5> QED BY <3>0, <4>1, <5>1, AllocateInv
      <4>2. CASE program # "packet_gen_client"
        <5>1. AllocateContexts("contexts", "templates")
          BY <3>4, <4>2 DEF AllocateClientContexts
        <5>2. program = "packet_gen_client_fast"
          BY <2>0, <4>2, ClientAssumption
        <5> QED BY <3>0, <5>1, <5>2, AllocateInv
      <4> QED BY <4>1, <4>2
    <3>5. CASE PrepareTemplates /\ Exit("templates")
      BY <3>0, <3>5, FailureInv DEF PrepareTemplates
    <3>6. CASE PrepareTemplates /\ Goto("launch") /\ templates' = 0..(num_flows - 1)
      <4>1. pc = "templates" /\ Cardinality(lcores) >= num_queues /\ UNCHANGED port
        BY <3>6 DEF PrepareTemplates, Inv, LaunchProgress
      <4> QED
        BY <3>0, <3>6, <4>1, GotoInv DEF Parameters, clientStartVars
    <3> QED
      BY <1>2, <3>1, <3>2, <3>3, <3>4, <3>5, <3>6 DEF ClientMain, PrepareTemplates
  <2>2. CASE PrepareTemplates /\ Goto("launch") /\ templates' = 0..(num_flows - 1)
    <3>1. pc = "templates" /\ Cardinality(lcores) >= num_queues /\ UNCHANGED port
      BY <2>2 DEF PrepareTemplates, Inv, LaunchProgress
    <3> QED
      BY <1>2, <2>0, <2>2, <3>1, GotoInv
  <2> QED BY <1>2, <2>1, <2>2 DEF ClientMain, PrepareTemplates
<1> QED BY <1>1, <1>2 DEF ClientNext

\* Nothing happens.
LEMMA StutterInv == Inv /\ UNCHANGED vars => Inv'
<1> SUFFICES ASSUME Inv, UNCHANGED vars PROVE Inv'
  OBVIOUS
<1> USE DEF vars, startVars, machineVars, serverArgVars, clientStartVars, clientArgVars
<1>1. Basics'
  BY DEF Inv, Basics, FlowsOk
<1>2. PortProgress'
  BY DEF Inv, PortProgress, PortConfigured, PortUp, RequestedTxOffloads
<1>3. LaunchProgress'
  <2>1. UNCHANGED <<NextQueue, LaunchedLcores, main_lcore>>
    BY DEF NextQueue, LaunchedLcores, main_lcore
  <2>2. UNCHANGED Remaining
    BY <2>1 DEF Remaining
  <2>3. UNCHANGED <<Launched, Served>>
    BY <2>1, <2>2 DEF Launched, Served
  <2> QED BY <2>3 DEF Inv, LaunchProgress
<1>4. ClientProgress'
  BY DEF Inv, ClientProgress
<1> QED BY <1>1, <1>2, <1>3, <1>4 DEF Inv

\* The invariant holds at the start and every step keeps it.
LEMMA Invariance == Spec => []Inv
<1>1. Inv /\ [Next]_vars => Inv'
  BY ServerInv, ClientInv, StutterInv DEF Next
<1> QED BY InitInv, <1>1, PTL DEF Spec

------------------------------------------------------------------------------
(* The theorems.                                                           *)

\* Every variable of the start keeps its type: never are more queues set up, or
\* workers launched, than MAX_CORES.
THEOREM StartTyping == Spec => []TypeOK
  BY Invariance, TypesFollow, PTL

\* A program that runs polls every queue of its port, each on an lcore of its
\* own, whatever the -l list and NUM_WORKERS are: no flow hashes to a queue that
\* nobody polls, and no two workers share an lcore.
THEOREM QueuesAreServed == Spec => []EveryQueueServed
<1>1. Inv => EveryQueueServed
  <2> SUFFICES ASSUME Inv, pc = "running" PROVE EveryQueueServed
    BY DEF EveryQueueServed
  <2>1. Served /\ PortUp
    BY DEF Inv, LaunchProgress, PortProgress
  <2>2. num_queues \in 1..MAX_CORES /\ MAX_CORES \in Nat
    BY StartupAssumption DEF Inv, Basics
  <2>3. num_queues > 0
    BY <2>2
  <2> QED BY <2>1, <2>3 DEF Served, PortUp, EveryQueueServed
<1> QED BY <1>1, Invariance, PTL

\* No worker runs before rte_eth_dev_start has succeeded with both rings of its
\* queue, RSS if there are several, and the offloads its checksum mode needs.
THEOREM PortPrecedesWorkers == Spec => []WorkersFindPortReady
<1>1. Inv => WorkersFindPortReady
  <2> SUFFICES ASSUME Inv, NEW q \in DOMAIN workers
               PROVE  /\ port.started
                      /\ q < port.rx_queues /\ q < port.tx_queues
                      /\ port.offloads = RequestedTxOffloads
                      /\ port.rss = (num_queues > 1)
    BY DEF WorkersFindPortReady
  <2>1. pc \in {"launch", "running"}
    <3> SUFFICES ASSUME pc \notin {"launch", "running"} PROVE FALSE
      OBVIOUS
    <3>1. workers = <<>>
      BY DEF Inv, LaunchProgress
    <3>2. DOMAIN workers = {}
      BY <3>1
    <3> QED BY <3>2
  <2>2. PortUp /\ PortConfigured
    BY <2>1 DEF Inv, PortProgress
  <2>3. num_queues \in 1..MAX_CORES /\ MAX_CORES \in Nat
    BY StartupAssumption DEF Inv, Basics
  <2>4. q < num_queues
    <3>1. CASE pc = "launch"
      <4>1. Launched
        BY <3>1 DEF Inv, LaunchProgress
      <4> DEFINE n == NextQueue
      <4>2. n \in 1..num_queues /\ q \in 1..(n - 1)
        BY <4>1 DEF Launched
      <4> HIDE DEF n
      <4> QED BY <2>3, <4>2
    <3>2. CASE pc = "running"
      <4>1. q \in 0..(num_queues - 1)
        BY <3>2 DEF Inv, LaunchProgress, Served
      <4> QED BY <2>3, <4>1
    <3> QED BY <2>1, <3>1, <3>2
  <2> QED BY <2>2, <2>4 DEF PortUp, PortConfigured
<1> QED BY <1>1, Invariance, PTL

\* The last check of main never fails: the lcores have been counted before, and
\* the loop passes by each of them but main's, so that the exit behind the loop,
\* for queues left without a worker, is never taken.
THEOREM MappingSucceeds == Spec => [](status # "only mapped")
<1>1. Inv => status # "only mapped"
  BY DEF Inv, LaunchProgress
<1> QED BY <1>1, Invariance, PTL

\* A number is reached from its remainder.
LEMMA DivisionTheorem ==
  ASSUME NEW a \in Nat, NEW b \in Nat \ {0}
  PROVE  /\ a % b \in 0..(b - 1)
         /\ a \div b \in 0..a
         /\ (a % b) + (a \div b) * b = a
         /\ a < b => a % b = a
<1>1. a % b \in 0..(b - 1) /\ a \div b \in Nat
  OBVIOUS
<1>2. a = b * (a \div b) + (a % b)
  OBVIOUS
<1>3. a \div b <= a
  BY <1>1, <1>2
<1>4. ASSUME a < b PROVE a % b = a
  BY <1>4
<1> QED BY <1>1, <1>2, <1>3, <1>4

\* No port wraps round.
LEMMA FlowPort ==
  ASSUME FlowsOk(num_flows), NEW f \in Nat
  PROVE  /\ f % num_flows \in 0..(num_flows - 1)
         /\ flow_src_port(f) = client_port + (f % num_flows)
<1>1. /\ client_port \in Nat /\ UINT16_MAX \in Nat
      /\ num_flows \in Nat \ {0} /\ client_port + num_flows <= UINT16_MAX
  BY ClientAssumption DEF FlowsOk
<1>2. f % num_flows \in 0..(num_flows - 1)
  BY <1>1, DivisionTheorem
<1> DEFINE p == client_port + (f % num_flows)
<1>3. p \in Nat /\ UINT16_MAX + 1 \in Nat \ {0} /\ p < UINT16_MAX + 1
  BY <1>1, <1>2
<1> HIDE DEF p
<1>4. p % (UINT16_MAX + 1) = p
  BY <1>3, DivisionTheorem
<1> QED BY <1>2, <1>4 DEF flow_src_port, p

\* The workers of a client that runs use exactly num_flows source ports from
\* client_port on, whatever the numbers of flows and workers: a remainder r of a
\* flow is r % Q of worker and r \div Q of round.  The fast client has prepared
\* a packet for each.
THEOREM FlowsAreSent == Spec => []EveryFlowSent
<1> DEFINE Sent == {PacketFlow(w, k) : w \in DOMAIN workers, k \in 0..(num_flows - 1)}
           ports == client_port..(client_port + num_flows - 1)
<1>1. ASSUME Inv PROVE Sent \subseteq Nat
  <2> SUFFICES ASSUME NEW w \in DOMAIN workers, NEW k \in 0..(num_flows - 1)
               PROVE  w + k * num_queues \in Nat
    BY DEF PacketFlow, InitialFlow
  <2>1. w \in 0..(MAX_CORES - 1) /\ num_queues \in 1..MAX_CORES /\ MAX_CORES \in Nat
    BY <1>1, TypesFollow, StartupAssumption DEF TypeOK
  <2>2. num_flows \in Nat
    BY <1>1, ClientAssumption DEF Inv, Basics, FlowsOk
  <2>3. k \in Nat /\ num_queues \in Nat /\ w \in Nat
    BY <2>1, <2>2
  <2>4. k * num_queues \in Nat
    BY <2>3
  <2> QED BY <2>3, <2>4
<1>2. ASSUME Inv, pc = "running"
      PROVE  {flow_src_port(f) : f \in Sent} = ports
  <2>1. FlowsOk(num_flows) /\ DOMAIN workers = 0..(num_queues - 1)
    BY <1>2 DEF Inv, Basics, LaunchProgress, Served
  <2>2. /\ num_queues \in Nat \ {0} /\ num_flows \in Nat \ {0}
        /\ client_port \in Nat
    <3>1. num_queues \in 1..MAX_CORES /\ MAX_CORES \in Nat
      BY <1>2, StartupAssumption DEF Inv, Basics
    <3>2. num_flows \in Nat \ {0} /\ client_port \in Nat
      BY <2>1, ClientAssumption DEF FlowsOk
    <3> QED BY <3>1, <3>2
  <2> HIDE DEF Sent
  <2>3. ASSUME NEW f \in Sent PROVE flow_src_port(f) \in ports
    <3>1. f \in Nat
      BY <1>1, <1>2
    <3>2. /\ f % num_flows \in 0..(num_flows - 1)
          /\ flow_src_port(f) = client_port + (f % num_flows)
      BY <2>1, <3>1, FlowPort
    <3> QED BY <2>2, <3>2
  <2>4. ASSUME NEW p \in ports PROVE \E f \in Sent : flow_src_port(f) = p
    <3> DEFINE r == p - client_port
               w == r % num_queues
               k == r \div num_queues
    <3>1. r \in Nat /\ r < num_flows /\ client_port + r = p
      BY <2>2
    <3> HIDE DEF r
    <3>2. w \in 0..(num_queues - 1) /\ k \in 0..r /\ w + k * num_queues = r
      BY <2>2, <3>1, DivisionTheorem
    <3> HIDE DEF w, k
    <3>3. k \in 0..(num_flows - 1)
      BY <2>2, <3>1, <3>2
    <3>4. PacketFlow(w, k) = r
      BY <3>2 DEF PacketFlow, InitialFlow
    <3>5. r \in Sent
      BY <2>1, <3>2, <3>3, <3>4 DEF Sent
    <3>6. r % num_flows = r
      BY <2>2, <3>1, DivisionTheorem
    <3>7. flow_src_port(r) = p
      BY <2>1, <3>1, <3>6, FlowPort
    <3> QED BY <3>5, <3>7
  <2> HIDE DEF ports
  <2> QED BY <2>3, <2>4
<1> HIDE DEF Sent, ports
<1>3. ASSUME Inv, program = "packet_gen_client_fast", NEW f \in Sent
      PROVE  f % num_flows \in templates
  <2>1. pc \in {"launch", "running"}
    <3> SUFFICES ASSUME pc \notin {"launch", "running"} PROVE FALSE
      OBVIOUS
    <3>1. workers = <<>>
      BY <1>3 DEF Inv, LaunchProgress
    <3>2. DOMAIN workers = {}
      BY <3>1
    <3> QED BY <1>3, <3>2 DEF Sent
  <2>2. templates = 0..(num_flows - 1) /\ FlowsOk(num_flows)
    BY <1>3, <2>1 DEF Inv, Basics, ClientProgress
  <2>3. f \in Nat
    BY <1>1, <1>3
  <2> QED BY <2>2, <2>3, FlowPort
<1>4. Inv => EveryFlowSent
  BY <1>2, <1>3 DEF EveryFlowSent, Sent, ports
<1> QED BY <1>4, Invariance, PTL

------------------------------------------------------------------------------
(* The cycle counters of a worker, for every length of a burst, a buffer   *)
(* and an interval, and however much time a step takes.                    *)

Between == {"loop", "print"}

\* Inside an iteration, what the stages have counted of it fits between
\* loop_start and now; between two iterations, the loop fits in the interval.
Accounted ==
  /\ loop_start <= now
  /\ loop_pc \in Between =>
       /\ accounted_cycles <= stats["total"]
       /\ stats["total"] + console + last_report <= now
  /\ loop_pc \notin Between =>
       /\ accounted_cycles + loop_start <= stats["total"] + now
       /\ stats["total"] + console + last_report <= loop_start
  /\ stats["total"] = stats["empty_poll"] + stats["nonempty_poll"]
  /\ loop_pc = "print" => ReportDue(now)

LoopInv == LoopTypeOK /\ Accounted

Keys == {"rx", "parse", "rewrite", "checksum", "tx", "total", "empty_poll",
         "nonempty_poll", "rx_packets", "tx_packets"}

\* A table of zeros.
LEMMA ZeroDomain == DOMAIN Zero = Keys /\ \A k \in Keys : Zero[k] = 0
  BY DEF Zero, Stages, Keys

\* A remainder is below its divisor, and not above what is divided.
LEMMA Remainder ==
  ASSUME NEW a \in Nat, NEW b \in Nat \ {0}
  PROVE  a % b \in 0..(b - 1) /\ a % b <= a
<1>1. a % b \in 0..(b - 1)
  OBVIOUS
<1>2. a % b <= a
  <2>1. CASE a < b
    <3>1. a % b = a
      BY <2>1
    <3> QED
      BY <3>1
  <2>2. CASE a >= b
    BY <1>1, <2>2
  <2> QED
    BY <2>1, <2>2
<1> QED
  BY <1>1, <1>2

\* The invariant holds at the start,
LEMMA LoopInitInv == LoopInit => LoopInv
<1> SUFFICES ASSUME LoopInit PROVE LoopInv
  OBVIOUS
<1> USE ProfileAssumption, ZeroDomain DEF Stages, Elapsed
<1>1. LoopTypeOK
  <2>1. stats \in [DOMAIN Zero -> Nat]
    BY DEF LoopInit, Keys, Zero
  <2> QED
    BY <2>1 DEF LoopInit, LoopTypeOK
<1>2. Accounted
  BY DEF LoopInit, Accounted, Between, accounted_cycles, Keys
<1> QED
  BY <1>1, <1>2 DEF LoopInv

\* The steps that book the time between two readings to a stage of the iteration
\* under way.
LEMMA TimedKeeps ==
  ASSUME LoopInv, loop_pc \notin Between,
         NEW which \in {"parse", "rewrite", "checksum", "tx"},
         NEW sent \in Nat, Timed(which, sent),
         UNCHANGED <<loop_start, last_report, console>>
  PROVE  /\ stats' \in [DOMAIN Zero -> Nat]
         /\ now' \in Nat
         /\ (loop_start <= now)'
         /\ (accounted_cycles + loop_start <= stats["total"] + now)'
         /\ (stats["total"] + console + last_report <= loop_start)'
         /\ (stats["total"] = stats["empty_poll"] + stats["nonempty_poll"])'
<1> USE ProfileAssumption, ZeroDomain DEF Stages, Elapsed
<1>1. PICK gap \in Elapsed, d \in Elapsed :
        /\ now' = now + gap + d
        /\ stats' = [stats EXCEPT ![which] = @ + d, !["tx_packets"] = @ + sent]
  BY DEF Timed
<1>2. stats \in [Keys -> Nat] /\ now \in Nat /\ gap \in Nat /\ d \in Nat
  BY DEF LoopInv, LoopTypeOK
<1>3. now' \in Nat
  BY <1>1, <1>2
<1>4. stats' \in [Keys -> Nat]
  BY <1>1, <1>2 DEF Keys
<1>5. /\ stats'["total"] = stats["total"]
      /\ stats'["empty_poll"] = stats["empty_poll"]
      /\ stats'["nonempty_poll"] = stats["nonempty_poll"]
  BY <1>1, <1>2 DEF Keys
<1>6. accounted_cycles' = accounted_cycles + d
  BY <1>1, <1>2 DEF Keys, accounted_cycles
<1>7. accounted_cycles \in Nat /\ loop_start \in Nat /\ stats["total"] \in Nat
  BY <1>2 DEF LoopInv, LoopTypeOK, accounted_cycles, Keys
<1>8. accounted_cycles + loop_start <= stats["total"] + now /\ loop_start <= now
  BY DEF LoopInv, Accounted
<1>9. (accounted_cycles + loop_start <= stats["total"] + now)'
  BY <1>1, <1>2, <1>5, <1>6, <1>7, <1>8
<1>10. (loop_start <= now)'
  BY <1>1, <1>2, <1>7, <1>8
<1> QED
  BY <1>3, <1>4, <1>5, <1>9, <1>10 DEF LoopInv, Accounted

\* every step keeps it,
LEMMA LoopNextInv == LoopInv /\ [LoopNext]_loopVars => LoopInv'
<1> SUFFICES ASSUME LoopInv, [LoopNext]_loopVars PROVE LoopInv'
  OBVIOUS
<1> USE ProfileAssumption, ZeroDomain DEF Stages, Elapsed
<1>1. CASE Poll
  <2>1. PICK idle \in Elapsed, gap \in Elapsed, d \in Elapsed \ {0},
             n \in 0..BURST_SIZE :
          /\ loop_start' = now + idle
          /\ now' = loop_start' + gap + d
          /\ nb_rx' = n
          /\ stats' = [stats EXCEPT !["rx"] = @ + d, !["rx_packets"] = @ + n]
          /\ loop_pc' = IF n = 0 THEN "empty" ELSE "parse"
    BY <1>1 DEF Poll
  <2>2. stats \in [Keys -> Nat] /\ now \in Nat /\ idle \in Nat /\ gap \in Nat
          /\ d \in Nat /\ n \in Nat
    BY DEF LoopInv, LoopTypeOK
  <2>3. stats' \in [Keys -> Nat]
    BY <2>1, <2>2 DEF Keys
  <2>4. LoopTypeOK'
    BY <1>1, <2>1, <2>2, <2>3 DEF LoopInv, LoopTypeOK, Poll
  <2>5. /\ stats'["total"] = stats["total"]
        /\ stats'["empty_poll"] = stats["empty_poll"]
        /\ stats'["nonempty_poll"] = stats["nonempty_poll"]
        /\ accounted_cycles' = accounted_cycles + d
    BY <2>1, <2>2 DEF Keys, accounted_cycles
  <2>6. accounted_cycles \in Nat /\ stats["total"] \in Nat
          /\ console \in Nat /\ last_report \in Nat
    BY <2>2 DEF LoopInv, LoopTypeOK, accounted_cycles, Keys
  <2>7. /\ accounted_cycles <= stats["total"]
        /\ stats["total"] + console + last_report <= now
        /\ stats["total"] = stats["empty_poll"] + stats["nonempty_poll"]
    BY <1>1 DEF LoopInv, Accounted, Poll, Between
  <2>8. /\ (loop_start <= now)'
        /\ (accounted_cycles + loop_start <= stats["total"] + now)'
        /\ (stats["total"] + console + last_report <= loop_start)'
    BY <1>1, <2>1, <2>2, <2>5, <2>6, <2>7 DEF Poll
  <2>9. Accounted'
    BY <2>1, <2>5, <2>7, <2>8 DEF Accounted, Between
  <2> QED
    BY <2>4, <2>9 DEF LoopInv
<1>2. ASSUME NEW which \in {"parse", "rewrite", "checksum"},
             NEW next \in {"rewrite", "checksum", "tx"},
             Stage(which, next)
      PROVE  LoopInv'
  <2>1. Timed(which, 0) /\ loop_pc \notin Between
    BY <1>2 DEF Stage, Between
  <2>2. /\ stats' \in [DOMAIN Zero -> Nat]
        /\ now' \in Nat
        /\ (loop_start <= now)'
        /\ (accounted_cycles + loop_start <= stats["total"] + now)'
        /\ (stats["total"] + console + last_report <= loop_start)'
        /\ (stats["total"] = stats["empty_poll"] + stats["nonempty_poll"])'
    BY <1>2, <2>1, TimedKeeps DEF Stage
  <2>3. LoopTypeOK'
    BY <1>2, <2>2 DEF LoopInv, LoopTypeOK, Stage
  <2>4. Accounted'
    BY <1>2, <2>2 DEF Accounted, Stage, Between
  <2> QED
    BY <2>3, <2>4 DEF LoopInv
<1>3. CASE Tx
  <2>1. parked' \in 0..(TX_BUFFER_SIZE - 1) /\ parked' <= parked + nb_rx
    <3>1. parked + nb_rx \in Nat /\ TX_BUFFER_SIZE \in Nat \ {0}
      BY DEF LoopInv, LoopTypeOK
    <3>2. /\ (parked + nb_rx) % TX_BUFFER_SIZE \in 0..(TX_BUFFER_SIZE - 1)
          /\ (parked + nb_rx) % TX_BUFFER_SIZE <= parked + nb_rx
      BY <3>1, Remainder
    <3> QED
      BY <1>3, <3>1, <3>2 DEF Tx
  <2>2. PICK sent \in 0..(parked + nb_rx - parked') : Timed("tx", sent)
    BY <1>3 DEF Tx
  <2>3. sent \in Nat /\ loop_pc \notin Between
    BY <1>3, <2>1, <2>2 DEF Tx, Between, LoopInv, LoopTypeOK
  <2>4. /\ stats' \in [DOMAIN Zero -> Nat]
        /\ now' \in Nat
        /\ (loop_start <= now)'
        /\ (accounted_cycles + loop_start <= stats["total"] + now)'
        /\ (stats["total"] + console + last_report <= loop_start)'
        /\ (stats["total"] = stats["empty_poll"] + stats["nonempty_poll"])'
    BY <1>3, <2>2, <2>3, TimedKeeps DEF Tx
  <2>5. LoopTypeOK'
    BY <1>3, <2>1, <2>4 DEF LoopInv, LoopTypeOK, Tx
  <2>6. Accounted'
    BY <1>3, <2>4 DEF Accounted, Tx, Between
  <2> QED
    BY <2>5, <2>6 DEF LoopInv
<1>4. CASE LookAtTimer
  <2>1. PICK gap \in Elapsed : now' = now + gap
    BY <1>4 DEF LookAtTimer
  <2>2. now \in Nat /\ gap \in Nat
    BY DEF LoopInv, LoopTypeOK
  <2>3. LoopTypeOK'
    BY <1>4, <2>1, <2>2 DEF LookAtTimer, LoopInv, LoopTypeOK
  <2>4. accounted_cycles \in Nat /\ stats["total"] \in Nat /\ loop_start \in Nat
    BY DEF LoopInv, LoopTypeOK, accounted_cycles, Keys
  <2>5. accounted_cycles' = accounted_cycles
    BY <1>4 DEF LookAtTimer, accounted_cycles
  <2>6. /\ (loop_start <= now)'
        /\ (accounted_cycles + loop_start <= stats["total"] + now)'
    BY <1>4, <2>1, <2>2, <2>4, <2>5 DEF LookAtTimer, LoopInv, Accounted, Between
  <2>7. Accounted'
    BY <1>4, <2>6 DEF LookAtTimer, LoopInv, Accounted, Between
  <2> QED
    BY <2>3, <2>7 DEF LoopInv
<1>5. CASE Flush
  <2>1. loop_pc \notin Between /\ loop_pc' \notin Between /\ loop_pc' = "loop_end"
    BY <1>5 DEF Flush, Between
  <2>2. CASE parked = 0
    <3>1. LoopTypeOK'
      BY <1>5, <2>2 DEF Flush, LoopInv, LoopTypeOK
    <3>2. Accounted'
      BY <1>5, <2>1, <2>2 DEF Flush, LoopInv, Accounted, accounted_cycles
    <3> QED
      BY <3>1, <3>2 DEF LoopInv
  <2>3. CASE parked # 0
    <3>1. PICK sent \in 0..parked : Timed("tx", sent)
      BY <1>5, <2>3 DEF Flush
    <3>2. sent \in Nat
      BY DEF LoopInv, LoopTypeOK
    <3>3. /\ stats' \in [DOMAIN Zero -> Nat]
          /\ now' \in Nat
          /\ (loop_start <= now)'
          /\ (accounted_cycles + loop_start <= stats["total"] + now)'
          /\ (stats["total"] + console + last_report <= loop_start)'
          /\ (stats["total"] = stats["empty_poll"] + stats["nonempty_poll"])'
      BY <1>5, <2>1, <3>1, <3>2, TimedKeeps DEF Flush
    <3>4. LoopTypeOK'
      BY <1>5, <3>3 DEF Flush, LoopInv, LoopTypeOK
    <3>5. Accounted'
      BY <2>1, <3>3 DEF Accounted, Between
    <3> QED
      BY <3>4, <3>5 DEF LoopInv
  <2> QED
    BY <2>2, <2>3
<1>6. CASE LoopEnd
  <2> DEFINE poll == IF nb_rx = 0 THEN "empty_poll" ELSE "nonempty_poll"
             spent == now' - loop_start
  <2>1. PICK gap \in Elapsed : now' = now + gap
    BY <1>6 DEF LoopEnd
  <2>2. stats' = [stats EXCEPT !["total"] = @ + spent, ![poll] = @ + spent]
    BY <1>6 DEF LoopEnd
  <2>3. /\ stats \in [Keys -> Nat] /\ now \in Nat /\ gap \in Nat
        /\ loop_start \in Nat /\ console \in Nat /\ last_report \in Nat
    BY DEF LoopInv, LoopTypeOK
  <2>4. /\ accounted_cycles + loop_start <= stats["total"] + now
        /\ stats["total"] + console + last_report <= loop_start
        /\ stats["total"] = stats["empty_poll"] + stats["nonempty_poll"]
    BY <1>6 DEF LoopInv, Accounted, LoopEnd, Between
  <2>5. accounted_cycles \in Nat /\ stats["total"] \in Nat
    BY <2>3 DEF accounted_cycles, Keys
  <2>6. spent \in Nat /\ spent = now + gap - loop_start
    BY <2>1, <2>3 DEF LoopInv, Accounted
  <2>7. stats' \in [Keys -> Nat]
    BY <2>2, <2>3, <2>6 DEF Keys
  <2>8. LoopTypeOK'
    BY <1>6, <2>1, <2>3, <2>7 DEF LoopEnd, LoopInv, LoopTypeOK
  <2>9. stats'["total"] = stats["total"] + spent
    BY <2>2, <2>3 DEF Keys
  <2>10. accounted_cycles' = accounted_cycles
    BY <2>2, <2>3 DEF Keys, accounted_cycles
  <2>11. stats'["total"] = stats'["empty_poll"] + stats'["nonempty_poll"]
    <3>1. CASE nb_rx = 0
      BY <2>2, <2>3, <2>4, <2>6, <2>9, <3>1 DEF Keys
    <3>2. CASE nb_rx # 0
      BY <2>2, <2>3, <2>4, <2>6, <2>9, <3>2 DEF Keys
    <3> QED
      BY <3>1, <3>2
  <2>12. /\ (accounted_cycles <= stats["total"])'
         /\ (stats["total"] + console + last_report <= now)'
         /\ (loop_start <= now)'
    BY <1>6, <2>1, <2>3, <2>4, <2>5, <2>6, <2>9, <2>10 DEF LoopEnd
  <2>13. loop_pc' = (IF ReportDue(now') THEN "print" ELSE "loop")
    BY <1>6 DEF LoopEnd
  <2>14. loop_pc' \in Between /\ (loop_pc' = "print" => ReportDue(now)')
    BY <1>6, <2>13 DEF LoopEnd, Between, ReportDue
  <2>15. Accounted'
    BY <2>11, <2>12, <2>14 DEF Accounted
  <2> QED
    BY <2>8, <2>15 DEF LoopInv
<1>7. CASE PrintProfile
  <2>1. PICK d \in Elapsed : now' = now + d /\ console' = d
    BY <1>7 DEF PrintProfile
  <2>2. stats' = Zero /\ last_report' = now /\ loop_pc' = "loop"
    BY <1>7 DEF PrintProfile
  <2>3. now \in Nat /\ d \in Nat /\ loop_start \in Nat /\ loop_start <= now
    BY DEF LoopInv, LoopTypeOK, Accounted
  <2>4. stats' \in [DOMAIN Zero -> Nat]
    BY <2>2 DEF Zero
  <2>5. LoopTypeOK'
    BY <1>7, <2>1, <2>2, <2>3, <2>4 DEF PrintProfile, LoopInv, LoopTypeOK
  <2>6. Accounted'
    BY <1>7, <2>1, <2>2, <2>3
       DEF PrintProfile, Accounted, Between, accounted_cycles, Keys
  <2> QED
    BY <2>5, <2>6 DEF LoopInv
<1>8. CASE UNCHANGED loopVars
  <2>1. LoopTypeOK'
    BY <1>8 DEF loopVars, LoopInv, LoopTypeOK
  <2>2. Accounted'
    BY <1>8 DEF loopVars, LoopInv, Accounted, accounted_cycles, ReportDue
  <2> QED
    BY <2>1, <2>2 DEF LoopInv
<1> QED
  BY <1>1, <1>2, <1>3, <1>4, <1>5, <1>6, <1>7, <1>8 DEF LoopNext

\* and so it always holds.
LEMMA LoopAlways == LoopSpec => []LoopInv
  BY LoopInitInv, LoopNextInv, PTL DEF LoopSpec

\* The stages never exceed the loop, in either server, so that what the clamp
\* of other_cycles hides is nothing.
THEOREM StagesFit == LoopSpec => []StagesWithinLoop
<1>1. LoopInv => StagesWithinLoop
  BY DEF LoopInv, Accounted, StagesWithinLoop, Between
<1> QED
  BY <1>1, LoopAlways, PTL

\* The loop never counts more than its interval, less the printing in it.
THEOREM LoopFits == LoopSpec => []BusyWithoutConsole
<1>1. ASSUME LoopInv PROVE BusyWithoutConsole
  <2>1. /\ stats["total"] \in Nat /\ console \in Nat
        /\ last_report \in Nat /\ now \in Nat
    BY <1>1, ZeroDomain DEF LoopInv, LoopTypeOK, Keys
  <2> QED
    BY <1>1, <2>1 DEF LoopInv, Accounted, BusyWithoutConsole, Between
<1> QED
  BY <1>1, LoopAlways, PTL

------------------------------------------------------------------------------
(* The checksums of a packet, for every width of a word and every packet   *)
(* whose sums fit the accumulator.  Whatever is summed, folding the      *)
(* carries twice gives the one number that is congruent to it modulo M - 1 *)
(* and zero only for an empty sum; the rest is arithmetic on such numbers. *)

\* r is the sum s in ones' complement: the carries of s added to its low word
\* until none is left.  Zero has two representations, and only an empty sum
\* gives the one without bits.
Folded(r, s) ==
  /\ r \in 0..(M - 1)
  /\ r = 0 <=> s = 0
  /\ \E k \in Nat : s = r + k * (M - 1)

\* A word has at least two values.
LEMMA WordSize == M \in Nat \ {0, 1}
  BY ChecksumAssumption

\* Multiples of M - 1 add up.
LEMMA AddMultiples ==
  ASSUME NEW k \in Nat, NEW l \in Nat
  PROVE  /\ k * (M - 1) \in Nat /\ l * (M - 1) \in Nat /\ k + l \in Nat
         /\ (k + l) * (M - 1) = k * (M - 1) + l * (M - 1)
<1> DEFINE N == M - 1
<1>1. N \in Nat
  BY WordSize
<1> HIDE DEF N
<1>2. k * N \in Nat /\ l * N \in Nat /\ (k + l) * N = k * N + l * N
  BY <1>1
<1> QED BY <1>2 DEF N

\* There is one such r,
LEMMA FoldedOnce ==
  ASSUME NEW s \in Nat, NEW r, NEW q, Folded(r, s), Folded(q, s)
  PROVE  r = q
<1> USE WordSize
<1>1. PICK k \in Nat : s = r + k * (M - 1)
  BY DEF Folded
<1>2. PICK l \in Nat : s = q + l * (M - 1)
  BY DEF Folded
<1>3. r \in 0..(M - 1) /\ q \in 0..(M - 1) /\ (r = 0 <=> q = 0)
  BY DEF Folded
<1> DEFINE N == M - 1
<1>4. N \in Nat \ {0} /\ r \in 0..N /\ q \in 0..N
  BY <1>3
<1>5. r + k * N = q + l * N
  BY <1>1, <1>2
<1> HIDE DEF N
<1>6. \A i, j \in Nat : i < j => i * N + N <= j * N
  <2> SUFFICES ASSUME NEW i \in Nat, NEW j \in Nat, i < j
               PROVE  i * N + N <= j * N
    OBVIOUS
  <2>1. PICK d \in Nat : j = i + 1 + d
    <3>1. j - i - 1 \in Nat /\ j = i + 1 + (j - i - 1)
      OBVIOUS
    <3> QED BY <3>1
  <2>2. j * N = i * N + N + d * N /\ d * N \in Nat /\ i * N \in Nat
    BY <1>4, <2>1
  <2> QED BY <1>4, <2>2
<1>7. k * N \in Nat /\ l * N \in Nat
  BY <1>4
<1>8. CASE k = l
  BY <1>4, <1>5, <1>7, <1>8
<1>9. CASE k < l
  <2>1. k * N + N <= l * N
    BY <1>6, <1>9
  <2> QED BY <1>3, <1>4, <1>5, <1>7, <2>1
<1>10. CASE l < k
  <2>1. l * N + N <= k * N
    BY <1>6, <1>10
  <2> QED BY <1>3, <1>4, <1>5, <1>7, <2>1
<1> QED BY <1>8, <1>9, <1>10

\* one addition of the carries keeps the sum,
LEMMA ReduceKeeps ==
  ASSUME NEW s \in Nat
  PROVE  /\ Reduce(s) \in Nat
         /\ Reduce(s) = 0 <=> s = 0
         /\ \E k \in Nat : s = Reduce(s) + k * (M - 1)
         /\ s < M * M => Reduce(s) <= 2 * (M - 1)
         /\ s <= 2 * (M - 1) => Reduce(s) <= M - 1
<1> USE WordSize
<1> DEFINE hi == s \div M
           lo == s % M
<1>1. lo \in 0..(M - 1) /\ hi \in Nat /\ lo + hi * M = s
  <2>1. s % M \in 0..(M - 1) /\ s \div M \in 0..s /\ (s % M) + (s \div M) * M = s
    BY DivisionTheorem
  <2> QED BY <2>1
<1>2. Reduce(s) = hi + lo
  BY DEF Reduce
<1> HIDE DEF hi, lo
<1>3. hi * M = hi + hi * (M - 1) /\ hi * (M - 1) \in Nat
  BY <1>1
<1>4. s = Reduce(s) + hi * (M - 1)
  BY <1>1, <1>2, <1>3
<1>5. Reduce(s) \in Nat /\ (Reduce(s) = 0 <=> s = 0)
  <2>1. hi = 0 => hi * M = 0
    BY <1>1
  <2>2. hi # 0 => hi * M # 0
    BY <1>1
  <2> QED BY <1>1, <1>2, <2>1, <2>2
<1>6. ASSUME s < M * M PROVE hi + lo <= 2 * (M - 1)
  <2>1. hi <= M - 1
    <3> SUFFICES ASSUME hi >= M PROVE FALSE
      BY <1>1
    <3>1. hi * M >= M * M
      BY <1>1
    <3> QED BY <1>1, <1>6, <3>1
  <2> QED BY <1>1, <2>1
<1>7. ASSUME s <= 2 * (M - 1) PROVE hi + lo <= M - 1
  <2>1. hi <= 1
    <3> SUFFICES ASSUME hi >= 2 PROVE FALSE
      BY <1>1
    <3>1. hi * M >= 2 * M
      BY <1>1
    <3> QED BY <1>1, <1>7, <3>1
  <2>2. CASE hi = 0
    BY <1>1, <2>2
  <2>3. CASE hi = 1
    BY <1>1, <1>7, <2>3
  <2> QED BY <1>1, <2>1, <2>2, <2>3
<1> QED BY <1>1, <1>2, <1>4, <1>5, <1>6, <1>7

\* and two are enough for what the accumulator holds.
LEMMA FoldIsFolded ==
  ASSUME NEW s \in Nat, s < M * M
  PROVE  Folded(Fold(s), s)
<1> USE WordSize
<1> DEFINE t == Reduce(s)
           r == Reduce(t)
<1>1. /\ t \in Nat /\ (t = 0 <=> s = 0) /\ t <= 2 * (M - 1)
      /\ \E k \in Nat : s = t + k * (M - 1)
  BY ReduceKeeps
<1> HIDE DEF t
<1>2. /\ r \in Nat /\ (r = 0 <=> t = 0) /\ r <= M - 1
      /\ \E k \in Nat : t = r + k * (M - 1)
  BY <1>1, ReduceKeeps
<1>3. Fold(s) = r
  BY DEF Fold, t
<1> HIDE DEF r
<1>4. PICK k \in Nat : s = t + k * (M - 1)
  BY <1>1
<1>5. PICK l \in Nat : t = r + l * (M - 1)
  BY <1>2
<1>6. s = r + (k + l) * (M - 1) /\ k + l \in Nat
  <2>1. (k + l) * (M - 1) = k * (M - 1) + l * (M - 1) /\ k + l \in Nat
    BY AddMultiples
  <2>2. k * (M - 1) \in Nat /\ l * (M - 1) \in Nat
    BY AddMultiples
  <2> QED BY <1>2, <1>4, <1>5, <2>1, <2>2
<1>7. r \in 0..(M - 1)
  BY <1>2
<1> QED BY <1>1, <1>2, <1>3, <1>6, <1>7 DEF Folded

\* Two folded sums add up to the folded sum of both,
LEMMA FoldedSum ==
  ASSUME NEW s \in Nat, NEW t \in Nat, NEW r, NEW q,
         Folded(r, s), Folded(q, t)
  PROVE  Folded(Reduce(r + q), s + t)
<1> USE WordSize
<1> DEFINE g == Reduce(r + q)
<1>1. r \in 0..(M - 1) /\ q \in 0..(M - 1) /\ (r = 0 <=> s = 0) /\ (q = 0 <=> t = 0)
  BY DEF Folded
<1>2. r + q \in Nat /\ r + q <= 2 * (M - 1)
  BY <1>1
<1>3. /\ g \in Nat /\ (g = 0 <=> r + q = 0) /\ g <= M - 1
      /\ \E k \in Nat : r + q = g + k * (M - 1)
  BY <1>2, ReduceKeeps
<1> HIDE DEF g
<1>4. PICK j \in Nat : r + q = g + j * (M - 1)
  BY <1>3
<1>5. PICK k \in Nat : s = r + k * (M - 1)
  BY DEF Folded
<1>6. PICK l \in Nat : t = q + l * (M - 1)
  BY DEF Folded
<1>7. s + t = g + (j + k + l) * (M - 1) /\ j + k + l \in Nat
  BY <1>1, <1>3, <1>4, <1>5, <1>6
<1>8. g \in 0..(M - 1) /\ (g = 0 <=> s + t = 0)
  BY <1>1, <1>3
<1> QED BY <1>7, <1>8 DEF Folded, g

\* and a part of a sum may be folded first.
LEMMA FoldedPart ==
  ASSUME NEW s \in Nat, NEW t \in Nat, NEW r, NEW q,
         Folded(q, t), Folded(r, s + q)
  PROVE  Folded(r, s + t)
<1> USE WordSize
<1>1. r \in 0..(M - 1) /\ q \in 0..(M - 1) /\ (r = 0 <=> s + q = 0) /\ (q = 0 <=> t = 0)
  BY DEF Folded
<1>2. PICK k \in Nat : s + q = r + k * (M - 1)
  BY DEF Folded
<1>3. PICK l \in Nat : t = q + l * (M - 1)
  BY DEF Folded
<1>4. s + t = r + (k + l) * (M - 1) /\ k + l \in Nat
  <2>1. (k + l) * (M - 1) = k * (M - 1) + l * (M - 1) /\ k + l \in Nat
    BY AddMultiples
  <2>2. k * (M - 1) \in Nat /\ l * (M - 1) \in Nat
    BY AddMultiples
  <2> QED BY <1>1, <1>2, <1>3, <2>1, <2>2
<1>5. r = 0 <=> s + t = 0
  BY <1>1
<1> QED BY <1>1, <1>4, <1>5 DEF Folded

\* With the complement of its folded sum, in either form of zero, a sum folds to
\* all ones.
LEMMA FoldedComplement ==
  ASSUME NEW s \in Nat, NEW r, Folded(r, s),
         NEW w \in {Not(r), NonZero(Not(r))}
  PROVE  w \in 0..(M - 1) /\ Folded(M - 1, s + w)
<1> USE WordSize
<1>1. r \in 0..(M - 1)
  BY DEF Folded
<1>2. PICK k \in Nat : s = r + k * (M - 1)
  BY DEF Folded
<1>3. w = M - 1 - r \/ (r = M - 1 /\ w = M - 1)
  BY <1>1 DEF Not, NonZero
<1>4. w \in 0..(M - 1)
  BY <1>1, <1>3
<1>5. k * (M - 1) \in Nat
  OBVIOUS
<1>6. s + w # 0
  BY <1>1, <1>2, <1>3, <1>5
<1>7. \E j \in Nat : s + w = (M - 1) + j * (M - 1)
  <2>1. CASE w = M - 1 - r
    BY <1>1, <1>2, <1>5, <2>1
  <2>2. CASE r = M - 1 /\ w = M - 1
    <3>1. s + w = (M - 1) + (k + 1) * (M - 1) /\ k + 1 \in Nat
      BY <1>2, <2>2
    <3> QED BY <3>1
  <2> QED BY <1>3, <2>1, <2>2
<1>8. M - 1 \in 0..(M - 1) /\ M - 1 # 0
  OBVIOUS
<1> QED BY <1>4, <1>6, <1>7, <1>8 DEF Folded

\* The sums of a packet without its checksum fields.
BareIp(p) == p.ip_rest + p.src_addr + p.dst_addr
BareUdp(p) == p.udp_rest + p.src_port + p.dst_port
Pseudo(p) == p.src_addr + p.dst_addr + p.phdr_rest

\* All of them fit the accumulator, with a checksum added and together.
LEMMA SumsFit ==
  ASSUME NEW p \in Packet
  PROVE  /\ BareIp(p) \in Nat /\ BareUdp(p) \in Nat /\ Pseudo(p) \in Nat
         /\ \A w \in Word : BareIp(p) + w < M * M
         /\ \A w \in Word : BareUdp(p) + w + Pseudo(p) < M * M
         /\ \A w \in Word : BareUdp(p) + w < M * M
         /\ BareIp(p) < M * M /\ BareUdp(p) < M * M /\ Pseudo(p) < M * M
<1> DEFINE sq == M * M
<1>1. /\ M \in Nat \ {0, 1} /\ MaxRest \in Nat /\ sq \in Nat
      /\ 2 * MaxRest + 5 * (M - 1) < sq
  BY ChecksumAssumption
<1>2. /\ {p.ip_rest, p.phdr_rest, p.udp_rest} \subseteq 0..MaxRest
      /\ {p.src_addr, p.dst_addr, p.src_port, p.dst_port} \subseteq 0..(M - 1)
  BY DEF Packet, Word, Rest
<1> HIDE DEF sq
<1>3. /\ BareIp(p) \in Nat /\ BareIp(p) <= MaxRest + 2 * (M - 1)
      /\ BareUdp(p) \in Nat /\ BareUdp(p) <= MaxRest + 2 * (M - 1)
      /\ Pseudo(p) \in Nat /\ Pseudo(p) <= MaxRest + 2 * (M - 1)
  BY <1>1, <1>2 DEF BareIp, BareUdp, Pseudo
<1>4. /\ \A w \in Word : BareIp(p) + w < sq
      /\ \A w \in Word : BareUdp(p) + w + Pseudo(p) < sq
      /\ \A w \in Word : BareUdp(p) + w < sq
  BY <1>1, <1>3 DEF Word
<1>5. BareIp(p) < sq /\ BareUdp(p) < sq /\ Pseudo(p) < sq
  BY <1>1, <1>3
<1> QED BY <1>3, <1>4, <1>5 DEF sq

\* The fields that are not checksums.
Body == {"ip_rest", "src_addr", "dst_addr", "phdr_rest", "udp_rest", "src_port",
         "dst_port"}

\* A packet with both checksum fields written.
Written(p, h, d) == [p EXCEPT !.hdr_checksum = h, !.dgram_cksum = d]

\* It has the body and the sums it had.
LEMMA WriteChecksums ==
  ASSUME NEW p \in Packet, NEW h \in Word, NEW d \in Word
  PROVE  /\ Written(p, h, d) \in Packet
         /\ Written(p, h, d).hdr_checksum = h
         /\ Written(p, h, d).dgram_cksum = d
         /\ \A f \in Body : Written(p, h, d)[f] = p[f]
         /\ BareIp(Written(p, h, d)) = BareIp(p)
         /\ BareUdp(Written(p, h, d)) = BareUdp(p)
         /\ Pseudo(Written(p, h, d)) = Pseudo(p)
<1> DEFINE q == Written(p, h, d)
<1> USE DEF Written
<1>1. q \in Packet /\ q.hdr_checksum = h /\ q.dgram_cksum = d
  BY DEF Packet
<1>2. /\ q.ip_rest = p.ip_rest /\ q.src_addr = p.src_addr /\ q.dst_addr = p.dst_addr
      /\ q.phdr_rest = p.phdr_rest /\ q.udp_rest = p.udp_rest
      /\ q.src_port = p.src_port /\ q.dst_port = p.dst_port
  BY DEF Packet
<1> HIDE DEF q
<1>3. BareIp(q) = BareIp(p) /\ BareUdp(q) = BareUdp(p) /\ Pseudo(q) = Pseudo(p)
  BY <1>2 DEF BareIp, BareUdp, Pseudo
<1>4. \A f \in Body : q[f] = p[f]
  BY <1>2 DEF Body
<1> QED BY <1>1, <1>3, <1>4 DEF q

\* A packet is its body and its two checksums.
LEMMA SamePacket ==
  ASSUME NEW p \in Packet, NEW q \in Packet, \A f \in Body : p[f] = q[f],
         p.hdr_checksum = q.hdr_checksum, p.dgram_cksum = q.dgram_cksum
  PROVE  p = q
<1>1. /\ q.ip_rest = p.ip_rest /\ q.src_addr = p.src_addr /\ q.dst_addr = p.dst_addr
      /\ q.phdr_rest = p.phdr_rest /\ q.udp_rest = p.udp_rest
      /\ q.src_port = p.src_port /\ q.dst_port = p.dst_port
  BY DEF Body
<1> QED BY <1>1 DEF Packet

\* What was in the checksum fields does not matter when they are written.
LEMMA WriteAgain ==
  ASSUME NEW p \in Packet, NEW q \in Packet, \A f \in Body : p[f] = q[f],
         NEW h \in Word, NEW d \in Word
  PROVE  Written(p, h, d) = Written(q, h, d)
<1> DEFINE v == Written(p, h, d)
           w == Written(q, h, d)
<1>1. /\ v \in Packet /\ v.hdr_checksum = h /\ v.dgram_cksum = d
      /\ \A f \in Body : v[f] = p[f]
  BY WriteChecksums
<1>2. /\ w \in Packet /\ w.hdr_checksum = h /\ w.dgram_cksum = d
      /\ \A f \in Body : w[f] = q[f]
  BY WriteChecksums
<1> HIDE DEF v, w
<1>3. v = w
  BY <1>1, <1>2, SamePacket
<1> QED BY <1>3 DEF v, w

\* The sums with the checksum fields.
LEMMA SumsByParts ==
  ASSUME NEW p \in Packet
  PROVE  /\ IpSum(p) = BareIp(p) + p.hdr_checksum
         /\ UdpSum(p) = BareUdp(p) + p.dgram_cksum
         /\ PhdrCksum(p) = Fold(Pseudo(p))
         /\ UdpSum(p) + p.src_addr + p.dst_addr + p.phdr_rest
              = BareUdp(p) + p.dgram_cksum + Pseudo(p)
<1>1. /\ p.ip_rest \in Nat /\ p.phdr_rest \in Nat /\ p.udp_rest \in Nat
      /\ p.src_addr \in Nat /\ p.dst_addr \in Nat /\ p.src_port \in Nat
      /\ p.dst_port \in Nat /\ p.hdr_checksum \in Nat /\ p.dgram_cksum \in Nat
  BY ChecksumAssumption DEF Packet, Word, Rest
<1> QED
  BY <1>1 DEF IpSum, UdpSum, PhdrCksum, BareIp, BareUdp, Pseudo

\* The checksums that belong to a body: the header's, and the datagram's over the
\* folded sum of it and its pseudo header.
HdrOf(p) == Not(Fold(BareIp(p)))
DgramOf(p) == NonZero(Not(Reduce(Fold(BareUdp(p)) + Fold(Pseudo(p)))))

\* They are words, the datagram's not zero, and with them the sums are all ones.
LEMMA RightChecksums ==
  ASSUME NEW p \in Packet
  PROVE  /\ HdrOf(p) \in Word /\ Fold(BareIp(p) + HdrOf(p)) = M - 1
         /\ DgramOf(p) \in Word \ {0}
         /\ Fold(BareUdp(p) + DgramOf(p) + Pseudo(p)) = M - 1
<1> DEFINE h == HdrOf(p)
           d == DgramOf(p)
           g == Reduce(Fold(BareUdp(p)) + Fold(Pseudo(p)))
<1>1. /\ BareIp(p) \in Nat /\ BareUdp(p) \in Nat /\ Pseudo(p) \in Nat
      /\ BareIp(p) < M * M /\ BareUdp(p) < M * M /\ Pseudo(p) < M * M
      /\ \A w \in Word : BareIp(p) + w < M * M
      /\ \A w \in Word : BareUdp(p) + w + Pseudo(p) < M * M
  BY SumsFit
<1>2. h \in 0..(M - 1) /\ Folded(M - 1, BareIp(p) + h)
  BY <1>1, FoldIsFolded, FoldedComplement DEF HdrOf
<1>3. Folded(g, BareUdp(p) + Pseudo(p))
  BY <1>1, FoldIsFolded, FoldedSum
<1>4. BareUdp(p) + Pseudo(p) \in Nat
  BY <1>1
<1>5. d = NonZero(Not(g))
  BY DEF DgramOf
<1> HIDE DEF g
<1>6. d \in 0..(M - 1) /\ Folded(M - 1, BareUdp(p) + Pseudo(p) + d)
  BY <1>3, <1>4, <1>5, FoldedComplement
<1>7. d # 0
  BY <1>5, WordSize DEF NonZero
<1> HIDE DEF h, d
<1>8. ASSUME NEW s \in Nat, s < M * M, Folded(M - 1, s) PROVE Fold(s) = M - 1
  BY <1>8, FoldIsFolded, FoldedOnce
<1>9. Fold(BareIp(p) + h) = M - 1
  <2>1. BareIp(p) + h \in Nat /\ BareIp(p) + h < M * M
    BY <1>1, <1>2, WordSize DEF Word
  <2> QED BY <1>2, <1>8, <2>1
<1>10. Fold(BareUdp(p) + d + Pseudo(p)) = M - 1
  <2>1. /\ BareUdp(p) + d + Pseudo(p) \in Nat
        /\ BareUdp(p) + d + Pseudo(p) < M * M
        /\ BareUdp(p) + d + Pseudo(p) = BareUdp(p) + Pseudo(p) + d
    BY <1>1, <1>6, WordSize DEF Word
  <2> QED BY <1>6, <1>8, <2>1
<1> QED BY <1>2, <1>6, <1>7, <1>9, <1>10 DEF Word, h, d

\* The CPU writes them,
LEMMA SoftwareWrites ==
  ASSUME NEW p \in Packet
  PROVE  Software(p) = Written(p, HdrOf(p), DgramOf(p))
<1> DEFINE c == Cleared(p)
<1>1. 0 \in Word /\ c = Written(p, 0, 0)
  BY WordSize DEF Word, Cleared, Written
<1>2. /\ c \in Packet /\ c.hdr_checksum = 0 /\ c.dgram_cksum = 0
      /\ BareIp(c) = BareIp(p) /\ BareUdp(c) = BareUdp(p) /\ Pseudo(c) = Pseudo(p)
      /\ \A f \in Body : c[f] = p[f]
  <2> HIDE DEF c
  <2> QED BY <1>1, WriteChecksums
<1>3. Software(p) = Written(c, Ipv4Cksum(c), UdpCksum(c))
  BY DEF Software, Written
<1> HIDE DEF c
<1>4. IpSum(c) = BareIp(p) /\ UdpSum(c) = BareUdp(p) /\ PhdrCksum(c) = Fold(Pseudo(p))
  <2>1. BareIp(p) \in Nat /\ BareUdp(p) \in Nat
    BY SumsFit
  <2> QED BY <1>2, <2>1, SumsByParts
<1>5. Ipv4Cksum(c) = HdrOf(p) /\ UdpCksum(c) = DgramOf(p)
  BY <1>4 DEF Ipv4Cksum, UdpCksum, HdrOf, DgramOf
<1>6. HdrOf(p) \in Word /\ DgramOf(p) \in Word
  BY RightChecksums
<1>7. Written(c, HdrOf(p), DgramOf(p)) = Written(p, HdrOf(p), DgramOf(p))
  BY <1>2, <1>6, WriteAgain
<1> QED BY <1>3, <1>5, <1>7

\* and so does the NIC with what the server has prepared.
LEMMA NicWrites ==
  ASSUME NEW p \in Packet
  PROVE  Prepare(p) \in Packet /\ Finish(Prepare(p)) = Software(p)
<1> DEFINE c == Prepare(p)
           ph == Fold(Pseudo(p))
           u == BareUdp(p)
<1>1. /\ u \in Nat /\ Pseudo(p) \in Nat /\ BareIp(p) \in Nat /\ u < M * M
      /\ Pseudo(p) < M * M /\ \A w \in Word : u + w < M * M
  BY SumsFit
<1>2. Folded(ph, Pseudo(p))
  BY <1>1, FoldIsFolded
<1>3. ph \in Word /\ ph \in Nat /\ 0 \in Word
  BY <1>2, WordSize DEF Folded, Word
<1>4. /\ c \in Packet /\ c.hdr_checksum = 0 /\ c.dgram_cksum = ph
      /\ BareIp(c) = BareIp(p) /\ BareUdp(c) = u /\ Pseudo(c) = Pseudo(p)
      /\ \A f \in Body : c[f] = p[f]
  <2>1. c = Written(p, 0, ph)
    BY SumsByParts DEF Prepare, Written
  <2> HIDE DEF c, ph, u
  <2>2. BareUdp(c) = BareUdp(p)
    BY <1>3, <2>1, WriteChecksums
  <2> QED BY <1>3, <2>1, <2>2, WriteChecksums DEF u
<1>5. Finish(c) = Written(c, Not(Fold(IpSum(c))), NonZero(Not(Fold(UdpSum(c)))))
  BY DEF Finish, Written
<1>6. Folded(Fold(u), u)
  BY <1>1, FoldIsFolded
<1> HIDE DEF c, ph, u
<1>7. IpSum(c) = BareIp(p) /\ UdpSum(c) = u + ph
  BY <1>1, <1>4, SumsByParts
<1>8. Folded(Fold(u + ph), u + ph)
  BY <1>1, <1>3, FoldIsFolded
<1>9. Folded(Fold(u + ph), u + Pseudo(p))
  BY <1>1, <1>2, <1>8, FoldedPart
<1>10. Folded(Reduce(Fold(u) + ph), u + Pseudo(p))
  BY <1>1, <1>2, <1>6, FoldedSum
<1>11. Fold(u + ph) = Reduce(Fold(u) + ph)
  <2>1. u + Pseudo(p) \in Nat
    BY <1>1
  <2> QED BY <1>9, <1>10, <2>1, FoldedOnce
<1>12. Not(Fold(IpSum(c))) = HdrOf(p) /\ NonZero(Not(Fold(UdpSum(c)))) = DgramOf(p)
  BY <1>7, <1>11 DEF HdrOf, DgramOf, u, ph
<1>13. HdrOf(p) \in Word /\ DgramOf(p) \in Word
  BY RightChecksums
<1>14. Written(c, HdrOf(p), DgramOf(p)) = Written(p, HdrOf(p), DgramOf(p))
  BY <1>4, <1>13, WriteAgain
<1>15. Finish(c) = Software(p)
  BY <1>5, <1>12, <1>14, SoftwareWrites
<1> QED BY <1>4, <1>15 DEF c

\* What the CPU writes is accepted.
LEMMA SoftwareIsValid ==
  ASSUME NEW p \in Packet
  PROVE  Software(p) \in Packet /\ Valid(Software(p))
<1> DEFINE q == Software(p)
<1>1. HdrOf(p) \in Word /\ DgramOf(p) \in Word
  BY RightChecksums
<1>2. /\ q \in Packet /\ q.hdr_checksum = HdrOf(p) /\ q.dgram_cksum = DgramOf(p)
      /\ BareIp(q) = BareIp(p) /\ BareUdp(q) = BareUdp(p) /\ Pseudo(q) = Pseudo(p)
  <2>1. q = Written(p, HdrOf(p), DgramOf(p))
    BY SoftwareWrites
  <2> HIDE DEF q
  <2> QED BY <1>1, <2>1, WriteChecksums
<1> HIDE DEF q
<1>3. ValidIp(q)
  BY <1>2, RightChecksums, SumsByParts DEF ValidIp
<1>4. ValidUdp(q)
  BY <1>2, RightChecksums, SumsByParts DEF ValidUdp
<1> QED BY <1>2, <1>3, <1>4 DEF Valid, q

\* The exchange of the endpoints changes no sum,
LEMMA SwapKeepsSums ==
  ASSUME NEW p \in Packet
  PROVE  LET q == Swap(p)
         IN  /\ q \in Packet
             /\ q.hdr_checksum = p.hdr_checksum /\ q.dgram_cksum = p.dgram_cksum
             /\ BareIp(q) = BareIp(p) /\ BareUdp(q) = BareUdp(p)
             /\ Pseudo(q) = Pseudo(p)
<1> DEFINE q == Swap(p)
<1>1. q \in Packet /\ q.hdr_checksum = p.hdr_checksum /\ q.dgram_cksum = p.dgram_cksum
  BY DEF Packet, Swap
<1>2. /\ q.ip_rest = p.ip_rest /\ q.src_addr = p.dst_addr /\ q.dst_addr = p.src_addr
      /\ q.phdr_rest = p.phdr_rest /\ q.udp_rest = p.udp_rest
      /\ q.src_port = p.dst_port /\ q.dst_port = p.src_port
  BY DEF Packet, Swap
<1>3. /\ p.ip_rest \in Nat /\ p.phdr_rest \in Nat /\ p.udp_rest \in Nat
      /\ p.src_addr \in Nat /\ p.dst_addr \in Nat /\ p.src_port \in Nat
      /\ p.dst_port \in Nat
  BY ChecksumAssumption DEF Packet, Word, Rest
<1> HIDE DEF q
<1>4. BareIp(q) = BareIp(p) /\ BareUdp(q) = BareUdp(p) /\ Pseudo(q) = Pseudo(p)
  BY <1>2, <1>3 DEF BareIp, BareUdp, Pseudo
<1> QED BY <1>1, <1>4 DEF q

\* so that a packet is accepted exactly if the exchanged one is,
LEMMA SwapKeepsVerdict ==
  ASSUME NEW p \in Packet
  PROVE  Valid(Swap(p)) <=> Valid(p)
<1> DEFINE q == Swap(p)
<1>1. /\ q \in Packet
      /\ q.hdr_checksum = p.hdr_checksum /\ q.dgram_cksum = p.dgram_cksum
      /\ BareIp(q) = BareIp(p) /\ BareUdp(q) = BareUdp(p) /\ Pseudo(q) = Pseudo(p)
  BY SwapKeepsSums
<1> HIDE DEF q
<1>2. IpSum(q) = IpSum(p)
  BY <1>1, SumsByParts
<1>3. UdpSum(q) + q.src_addr + q.dst_addr + q.phdr_rest
        = UdpSum(p) + p.src_addr + p.dst_addr + p.phdr_rest
  BY <1>1, SumsByParts
<1> QED BY <1>1, <1>2, <1>3 DEF Valid, ValidIp, ValidUdp, q

\* and one with the checksums of its body has them after the exchange as well.
LEMMA SwapKeepsSoftware ==
  ASSUME NEW p \in Packet, p = Software(p)
  PROVE  Swap(p) = Software(Swap(p))
<1> DEFINE q == Swap(p)
<1>1. /\ q \in Packet
      /\ q.hdr_checksum = p.hdr_checksum /\ q.dgram_cksum = p.dgram_cksum
      /\ BareIp(q) = BareIp(p) /\ BareUdp(q) = BareUdp(p) /\ Pseudo(q) = Pseudo(p)
  BY SwapKeepsSums
<1>2. p.hdr_checksum = HdrOf(p) /\ p.dgram_cksum = DgramOf(p)
  <2>1. HdrOf(p) \in Word /\ DgramOf(p) \in Word
    BY RightChecksums
  <2>2. p = Written(p, HdrOf(p), DgramOf(p))
    BY SoftwareWrites
  <2> QED BY <2>1, <2>2, WriteChecksums
<1> HIDE DEF q
<1>3. q.hdr_checksum = HdrOf(q) /\ q.dgram_cksum = DgramOf(q)
  BY <1>1, <1>2 DEF HdrOf, DgramOf
<1>4. HdrOf(q) \in Word /\ DgramOf(q) \in Word
  BY <1>1, RightChecksums
<1>5. q = Software(q)
  <2> DEFINE r == Written(q, HdrOf(q), DgramOf(q))
  <2>1. /\ r \in Packet /\ r.hdr_checksum = HdrOf(q) /\ r.dgram_cksum = DgramOf(q)
        /\ \A f \in Body : r[f] = q[f]
    BY <1>1, <1>4, WriteChecksums
  <2>2. Software(q) = r
    BY <1>1, SoftwareWrites
  <2> HIDE DEF r
  <2> QED BY <1>1, <1>3, <2>1, <2>2, SamePacket
<1> QED BY <1>5 DEF q

\* What a stage makes of the packet as it leaves the server.
Leaving(m, p) ==
  CASE m = "software" -> Software(p)
    [] m = "offload"  -> Prepare(p)
    [] m = "preserve" -> p
    [] m = "none"     -> Cleared(p)

\* How far the packet has got is all there is to know about it.
PathInv ==
  /\ mode \in Modes /\ arrived \in Packet
  /\ stage \in {"received", "rewritten", "tx", "sent"}
  /\ stage = "received" => packet = arrived /\ ol_flags = FALSE
  /\ stage = "rewritten" => packet = Swap(arrived) /\ ol_flags = FALSE
  /\ stage \in {"tx", "sent"} => ol_flags = (mode = "offload")
  /\ stage = "tx" => packet = Leaving(mode, Swap(arrived))
  /\ stage = "sent" =>
       packet = IF mode = "offload" THEN Finish(Prepare(Swap(arrived)))
                                    ELSE Leaving(mode, Swap(arrived))

\* It holds at the start and every step keeps it.
LEMMA PathAlways == PathSpec => []PathInv
<1>1. PathInit => PathInv
  <2> SUFFICES ASSUME PathInit PROVE PathInv
    OBVIOUS
  <2>1. arrived \in Packet
    BY ChecksumAssumption, SoftwareIsValid DEF PathInit
  <2> QED BY <2>1 DEF PathInit, PathInv
<1>2. PathInv /\ [PathNext]_pathVars => PathInv'
  <2> SUFFICES ASSUME PathInv, [PathNext]_pathVars PROVE PathInv'
    OBVIOUS
  <2>1. CASE Rewrite
    BY <2>1 DEF Rewrite, PathInv
  <2>2. CASE Checksum
    BY <2>2 DEF Checksum, PathInv, Leaving
  <2>3. CASE Nic
    <3>1. CASE mode = "offload"
      BY <2>3, <3>1 DEF Nic, PathInv, Leaving
    <3>2. CASE mode # "offload"
      BY <2>3, <3>2 DEF Nic, PathInv
    <3> QED BY <3>1, <3>2
  <2>4. CASE UNCHANGED pathVars
    BY <2>4 DEF pathVars, PathInv
  <2> QED BY <2>1, <2>2, <2>3, <2>4 DEF PathNext
<1> QED BY <1>1, <1>2, PTL DEF PathSpec

\* Whatever reaches the server, the client accepts what "software" and "offload"
\* send it: the sum of a packet with the complement of its own sum is all ones.
THEOREM ChecksumsAreValid == PathSpec => []ComputedIsValid
<1>1. PathInv => ComputedIsValid
  <2> SUFFICES ASSUME PathInv, stage = "sent", mode \in {"software", "offload"}
               PROVE  Valid(packet)
    BY DEF ComputedIsValid
  <2>1. Swap(arrived) \in Packet
    BY SwapKeepsSums DEF PathInv
  <2>2. packet = Software(Swap(arrived))
    BY <2>1, NicWrites DEF PathInv, Leaving
  <2> QED BY <2>1, <2>2, SoftwareIsValid
<1> QED BY <1>1, PathAlways, PTL

\* The NIC arrives at the very bits the CPU would have written, though it sums
\* the datagram with the pseudo header already folded, and "preserve" keeps
\* them.
THEOREM ModesSendTheSame == PathSpec => []ModesAgree
<1>1. PathInv => ModesAgree
  <2> SUFFICES ASSUME PathInv, stage = "sent",
                      mode = "offload" \/ (mode = "preserve" /\ arrived = Software(arrived))
               PROVE  packet = Software(Swap(arrived))
    BY DEF ModesAgree
  <2>1. arrived \in Packet /\ Swap(arrived) \in Packet
    BY SwapKeepsSums DEF PathInv
  <2>2. CASE mode = "offload"
    BY <2>1, <2>2, NicWrites DEF PathInv
  <2>3. CASE mode = "preserve" /\ arrived = Software(arrived)
    <3>1. packet = Swap(arrived)
      BY <2>3 DEF PathInv, Leaving
    <3> QED BY <2>1, <2>3, <3>1, SwapKeepsSoftware
  <2> QED BY <2>2, <2>3
<1> QED BY <1>1, PathAlways, PTL

\* "preserve" neither spoils a packet nor hides that it is spoilt.
THEOREM PreserveIsNeutral == PathSpec => []PreserveKeepsVerdict
<1>1. PathInv => PreserveKeepsVerdict
  <2> SUFFICES ASSUME PathInv, stage = "sent", mode = "preserve"
               PROVE  Valid(packet) <=> Valid(arrived)
    BY DEF PreserveKeepsVerdict
  <2>1. packet = Swap(arrived) /\ arrived \in Packet
    BY DEF PathInv, Leaving
  <2> QED BY <2>1, SwapKeepsVerdict
<1> QED BY <1>1, PathAlways, PTL

------------------------------------------------------------------------------
(* The log of the workers and the rounds that the analysis makes of it,    *)
(* for every number of queues and however long the server runs.            *)

\* Max picks the greatest of a set of numbers that has a bound.
LEMMA MaxIsGreatest ==
  ASSUME NEW S \in SUBSET Nat, S # {}, NEW b \in Nat, \A x \in S : x <= b
  PROVE  Max(S) \in S /\ \A y \in S : Max(S) >= y
<1> DEFINE T == {b - x : x \in S}
<1>1. T \in SUBSET Nat /\ T # {}
  <2>1. \A x \in S : b - x \in Nat
    OBVIOUS
  <2>2. PICK x \in S : TRUE
    OBVIOUS
  <2> QED BY <2>1, <2>2
<1>2. Min(T) \in T /\ \A t \in T : Min(T) <= t
  <2> HIDE DEF T
  <2> QED BY <1>1, MinIsLeast
<1>3. PICK x \in S : Min(T) = b - x
  BY <1>2
<1>4. \A y \in S : b - x <= b - y
  BY <1>2, <1>3
<1>5. \A y \in S : x >= y
  BY <1>4
<1> QED BY <1>5 DEF Max

\* What collect_rounds has gathered after all samples: the rounds and the samples
\* of an incomplete one.
Empty == [rounds |-> <<>>, current |-> <<>>]
Collected(s) == FoldLeft(Add, Empty, s)

\* One step of the fold, which takes the sample with the greatest index last, and
\* the function that the steps define.
CollectStep(s, g, I) == IF I = {} THEN Empty ELSE Add(g[I \ {Max(I)}], s[Max(I)])
Collects(s) == CHOOSE g : g = [I \in SUBSET DOMAIN s |-> CollectStep(s, g, I)]

\* The fold by its recursion.
LEMMA CollectedByFold ==
  ASSUME NEW s
  PROVE  Collected(s) = Collects(s)[DOMAIN s]
BY DEF Collected, FoldLeft, MapThenFoldSet, CollectStep, Collects

\* The recursion has a solution: one that serves the sets of up to n indices is
\* extended to those of n + 1.
LEMMA CollectsExist ==
  ASSUME NEW s \in Seq(Line)
  PROVE  Collects(s) = [I \in SUBSET DOMAIN s |-> CollectStep(s, Collects(s), I)]
<1> DEFINE D == DOMAIN s
           Small(n) == {I \in SUBSET D : Cardinality(I) <= n}
           Upto(n, g) == g = [I \in Small(n) |-> CollectStep(s, g, I)]
           G == {n \in Nat : \E g : Upto(n, g)}
<1>a. D = 1..Len(s) /\ Len(s) \in Nat
  BY LenProperties
<1>b. IsFiniteSet(D)
  BY <1>a, FS_Interval
<1>0. \A I \in SUBSET D : IsFiniteSet(I) /\ Cardinality(I) \in Nat
  BY <1>b, FS_Subset, FS_CardinalityType
<1>1. \A I \in SUBSET D : I # {} =>
         /\ Max(I) \in I
         /\ I \ {Max(I)} \in SUBSET D
         /\ Cardinality(I \ {Max(I)}) = Cardinality(I) - 1
  <2> SUFFICES ASSUME NEW I \in SUBSET D, I # {}
               PROVE  /\ Max(I) \in I
                      /\ I \ {Max(I)} \in SUBSET D
                      /\ Cardinality(I \ {Max(I)}) = Cardinality(I) - 1
    OBVIOUS
  <2>1. I \in SUBSET Nat /\ \A x \in I : x <= Len(s)
    BY <1>a
  <2>2. Max(I) \in I
    BY <1>a, <2>1, MaxIsGreatest
  <2> QED BY <1>0, <2>2, FS_RemoveElement
<1> HIDE DEF D
<1>2. 0 \in G
  <2> DEFINE g == [I \in Small(0) |-> Empty]
  <2>1. \A I \in Small(0) : I = {}
    BY <1>0, FS_EmptySet
  <2>2. Upto(0, g)
    BY <2>1 DEF CollectStep
  <2> QED BY <2>2
<1>3. ASSUME NEW n \in Nat, n \in G PROVE n + 1 \in G
  <2>1. PICK g : Upto(n, g)
    BY <1>3
  <2> DEFINE h == [I \in Small(n + 1) |-> CollectStep(s, g, I)]
  <2>2. \A I \in Small(n + 1) : I # {} => I \ {Max(I)} \in Small(n)
    BY <1>0, <1>1
  <2>3. \A I \in Small(n) : I \in Small(n + 1) /\ h[I] = g[I]
    <3>1. \A I \in Small(n) : I \in Small(n + 1)
      BY <1>0
    <3>2. \A I \in Small(n) : g[I] = CollectStep(s, g, I)
      BY <2>1
    <3> QED BY <3>1, <3>2
  <2>4. \A I \in Small(n + 1) : CollectStep(s, g, I) = CollectStep(s, h, I)
    <3> HIDE DEF h, Small
    <3> QED BY <2>2, <2>3 DEF CollectStep
  <2>5. Upto(n + 1, h)
    <3> HIDE DEF Small
    <3>1. /\ DOMAIN h = Small(n + 1)
          /\ \A I \in Small(n + 1) : h[I] = CollectStep(s, h, I)
      BY <2>4
    <3>2. h = [I \in Small(n + 1) |-> h[I]]
      OBVIOUS
    <3> HIDE DEF h
    <3> QED BY <3>1, <3>2
  <2>6. \E k : Upto(n + 1, k)
    <3> HIDE DEF h, Small
    <3> QED BY <2>5
  <2> HIDE DEF Upto
  <2> QED BY <2>6
<1>4. Nat \subseteq G
  <2> HIDE DEF G
  <2> QED BY <1>2, <1>3, NatsByInduction
<1>5. Small(Cardinality(D)) = SUBSET D /\ Cardinality(D) \in Nat
  BY <1>b, FS_Subset, FS_CardinalityType
<1>6. \E g : g = [I \in SUBSET D |-> CollectStep(s, g, I)]
  BY <1>4, <1>5
<1> QED BY <1>6 DEF Collects, D

\* One step of the recursion, over the first k + 1 samples.
LEMMA CollectsUnfold ==
  ASSUME NEW s \in Seq(Line)
  PROVE  /\ Collects(s)[1..0] = Empty
         /\ \A k \in Nat : k + 1 <= Len(s) =>
              Collects(s)[1..(k + 1)] = Add(Collects(s)[1..k], s[k + 1])
<1> DEFINE g == Collects(s)
<1>1. g = [I \in SUBSET DOMAIN s |-> CollectStep(s, g, I)]
  BY CollectsExist
<1>2. DOMAIN s = 1..Len(s) /\ Len(s) \in Nat
  BY LenProperties
<1> HIDE DEF g
<1>3. g[1..0] = Empty
  <2>1. 1..0 = {} /\ 1..0 \in SUBSET DOMAIN s
    OBVIOUS
  <2>2. g[1..0] = CollectStep(s, g, 1..0)
    BY <1>1, <2>1
  <2> QED BY <2>1, <2>2 DEF CollectStep
<1>4. ASSUME NEW k \in Nat, k + 1 <= Len(s)
      PROVE  g[1..(k + 1)] = Add(g[1..k], s[k + 1])
  <2> DEFINE I == 1..(k + 1)
  <2>1. I \in SUBSET DOMAIN s /\ I # {} /\ k + 1 \in I
    <3>1. k + 1 \in I
      OBVIOUS
    <3>2. \A j \in I : j \in 1..Len(s)
      BY <1>2, <1>4
    <3> HIDE DEF I
    <3> QED BY <1>2, <3>1, <3>2
  <2>2. I \in SUBSET Nat /\ \A x \in I : x <= k + 1
    OBVIOUS
  <2>3. Max(I) \in I /\ \A y \in I : Max(I) >= y
    <3> HIDE DEF I
    <3> QED BY <2>1, <2>2, MaxIsGreatest
  <2>4. Max(I) = k + 1
    BY <2>1, <2>3
  <2>5. I \ {k + 1} = 1..k
    OBVIOUS
  <2>6. g[I] = CollectStep(s, g, I)
    BY <1>1, <2>1
  <2> HIDE DEF I
  <2>7. g[I] = Add(g[I \ {k + 1}], s[k + 1])
    BY <2>1, <2>4, <2>6 DEF CollectStep
  <2> QED BY <2>5, <2>7 DEF I
<1> QED BY <1>3, <1>4 DEF g

\* So a sample more is a step of the loop more.
LEMMA CollectOneMore ==
  ASSUME NEW s \in Seq(Line), NEW x \in Line
  PROVE  Collected(Append(s, x)) = Add(Collected(s), x)
<1> DEFINE t == Append(s, x)
           n == Len(s)
           G == {k \in Nat : k <= n => Collects(t)[1..k] = Collects(s)[1..k]}
<1>1. /\ t \in Seq(Line) /\ n \in Nat /\ Len(t) = n + 1 /\ t[n + 1] = x
      /\ \A i \in 1..n : t[i] = s[i]
      /\ DOMAIN s = 1..n /\ DOMAIN t = 1..(n + 1)
  BY AppendProperties, LenProperties
<1> HIDE DEF t, n
<1>2. 0 \in G
  BY <1>1, CollectsUnfold
<1>3. ASSUME NEW k \in Nat, k \in G PROVE k + 1 \in G
  <2> SUFFICES ASSUME k + 1 <= n
               PROVE  Collects(t)[1..(k + 1)] = Collects(s)[1..(k + 1)]
    OBVIOUS
  <2>1. k <= n /\ k + 1 <= Len(t) /\ k + 1 \in 1..n
    BY <1>1
  <2>2. Collects(t)[1..(k + 1)] = Add(Collects(t)[1..k], t[k + 1])
    BY <1>1, <2>1, CollectsUnfold
  <2>3. Collects(s)[1..(k + 1)] = Add(Collects(s)[1..k], s[k + 1])
    BY CollectsUnfold DEF n
  <2> QED BY <1>1, <1>3, <2>1, <2>2, <2>3
<1>4. n \in G
  <2> HIDE DEF G
  <2> QED BY <1>1, <1>2, <1>3, NatsByInduction
<1>5. Collects(t)[1..(n + 1)] = Add(Collects(t)[1..n], t[n + 1])
  BY <1>1, CollectsUnfold
<1>6. Collected(t) = Collects(t)[1..(n + 1)] /\ Collected(s) = Collects(s)[1..n]
  BY <1>1, CollectedByFold
<1>7. Collected(t) = Add(Collected(s), x)
  BY <1>1, <1>4, <1>5, <1>6
<1> QED BY <1>7 DEF t

\* Without samples there is nothing.
LEMMA CollectNothing == Collected(<<>>) = Empty
<1>1. <<>> \in Seq(Line) /\ DOMAIN <<>> = 1..0
  OBVIOUS
<1> QED BY <1>1, CollectsUnfold, CollectedByFold

\* The number of lines of a round.
RoundSize == Cardinality(Queues)

\* The queues are numbered from 0 on, so that there are finitely many.
LEMMA QueuesFinite == IsFiniteSet(Queues) /\ Cardinality(Queues) \in Nat
  BY LogAssumption, FS_CardinalityType

\* Lines of different queues.
Distinct(lines) ==
  \A i, j \in DOMAIN lines : i # j => lines[i].queue_id # lines[j].queue_id

\* The lines of a round are next to each other in the log s.
RoundAt(lines, s, start) ==
  /\ start + RoundSize <= Len(s)
  /\ Len(lines) = RoundSize /\ QueuesOf(lines) = Queues /\ Distinct(lines)
  /\ \A i \in 1..RoundSize : lines[i] = s[start + i]

\* What is gathered are pieces of the log one after the other: the rounds, and then
\* the incomplete one, at its end.
Partitioned(acc, s) ==
  LET front == Len(s) - Len(acc.current) IN
    /\ acc \in [rounds : Seq(Seq(Line)), current : Seq(Line)]
    /\ front \in Nat
    /\ Distinct(acc.current)
    /\ \A i \in DOMAIN acc.current : acc.current[i] = s[front + i]
    /\ \E start \in [DOMAIN acc.rounds -> 0..Len(s)] :
         /\ \A r \in DOMAIN acc.rounds :
              /\ RoundAt(acc.rounds[r], s, start[r])
              /\ start[r] + RoundSize <= front
         /\ \A r, t \in DOMAIN acc.rounds : r < t => start[r] + RoundSize <= start[t]

\* Within the length of a round a queue comes twice in s, the second time behind
\* line k and no further from it.
Repeats(s, k) ==
  \E i, j \in DOMAIN s :
    /\ i < j /\ k < j /\ j < i + RoundSize /\ j < k + RoundSize
    /\ s[i].queue_id = s[j].queue_id

\* Line k is in a round, or had to be passed over.
Counted(acc, s, k) ==
  \/ \E r \in DOMAIN acc.rounds : s[k] \in Range(acc.rounds[r])
  \/ Repeats(s, k)

\* What collect_rounds has when it takes the next sample: the lines before the
\* incomplete round are done with, and that round is not complete.
Gathered(acc, s) ==
  /\ Partitioned(acc, s)
  /\ \A k \in 1..(Len(s) - Len(acc.current)) : Counted(acc, s, k)
  /\ QueuesOf(acc.current) # Queues

\* The longest time between two reports of a worker.
Period == interval + Iteration

\* How many lines of a queue have been formed since the last one in the log, at
\* most.
Unread(q) ==
  lost[q] + (IF \E line \in printing : line.queue_id = q THEN 1 ELSE 0)

\* No line of the queue of line i is among the lines from i + 1 to j.
NoneUntil(i, j) == \A k \in (i + 1)..j : log[k].queue_id # log[i].queue_id

\* The lines of a queue are in the order of its reports: in the log, then in
\* printing.
InOrder ==
  /\ \A line \in printing : line.loop_end = last_reports[line.queue_id]
  /\ \A i \in DOMAIN log : log[i].loop_end <= last_reports[log[i].queue_id]
  /\ \A line \in printing : \A i \in DOMAIN log :
       log[i].queue_id = line.queue_id => log[i].loop_end < line.loop_end
  /\ \A i, j \in DOMAIN log :
       i < j /\ log[i].queue_id = log[j].queue_id => log[i].loop_end < log[j].loop_end

\* No worker is late with its next report, or with the writing of the last one.
InTime ==
  /\ \A q \in Queues :
       /\ last_reports[q] <= clock
       /\ last_reports[q] >= 0 => clock <= last_reports[q] + Period
  /\ \A line \in printing : clock <= line.loop_end + Printing
  /\ \A i \in DOMAIN log : NoneUntil(i, Len(log)) =>
       last_reports[log[i].queue_id]
         <= log[i].loop_end + Unread(log[i].queue_id) * Period

\* How far the log is from the order of time.
NearlySorted ==
  \A i, j \in DOMAIN log : i < j =>
    /\ log[i].loop_end <= log[j].loop_end + Printing
    /\ NoneUntil(i, j) =>
         log[j].loop_end
           <= log[i].loop_end + (1 + lost[log[i].queue_id]) * Period + Printing

LogInv ==
  /\ LogTypeOK
  /\ Gathered(Collected(log), log)
  /\ InOrder
  /\ InTime
  /\ NearlySorted

\* A line of another queue joins lines of different queues.
LEMMA DistinctGrows ==
  ASSUME NEW lines \in Seq(Line), NEW x \in Line, Distinct(lines),
         x.queue_id \notin QueuesOf(lines)
  PROVE  Distinct(Append(lines, x))
<1> DEFINE more == Append(lines, x)
           n == Len(lines)
<1>1. /\ DOMAIN lines = 1..n /\ DOMAIN more = 1..(n + 1) /\ n \in Nat
      /\ more[n + 1] = x /\ \A i \in 1..n : more[i] = lines[i]
  BY AppendProperties, LenProperties
<1>2. \A i \in 1..n : lines[i].queue_id # x.queue_id
  BY <1>1 DEF QueuesOf
<1> HIDE DEF more, n
<1>3. ASSUME NEW i \in DOMAIN more, NEW j \in DOMAIN more, i # j
      PROVE  more[i].queue_id # more[j].queue_id
  <2>1. CASE i \in 1..n /\ j \in 1..n
    BY <1>1, <1>3, <2>1 DEF Distinct
  <2>2. CASE i = n + 1 /\ j \in 1..n
    BY <1>1, <1>2, <2>2
  <2>3. CASE j = n + 1 /\ i \in 1..n
    BY <1>1, <1>2, <2>3
  <2> QED BY <1>1, <1>3, <2>1, <2>2, <2>3
<1> QED BY <1>3 DEF Distinct, more

\* Lines of different queues are as many as their queues.
LEMMA DistinctLen ==
  ASSUME NEW lines \in Seq(Line), Distinct(lines)
  PROVE  Len(lines) = Cardinality(QueuesOf(lines))
<1> DEFINE n == Len(lines)
           f == [i \in 1..n |-> lines[i].queue_id]
<1>1. DOMAIN lines = 1..n /\ n \in Nat
  BY LenProperties
<1> HIDE DEF n
<1>2. \A i \in 1..n : f[i] \in QueuesOf(lines)
  BY <1>1 DEF QueuesOf
<1>3. \A q \in QueuesOf(lines) : \E i \in 1..n : f[i] = q
  BY <1>1 DEF QueuesOf
<1>4. \A i, j \in 1..n : f[i] = f[j] => i = j
  BY <1>1 DEF Distinct
<1>5. f \in Bijection(1..n, QueuesOf(lines))
  <2>1. f \in [1..n -> QueuesOf(lines)]
    BY <1>2
  <2> HIDE DEF f
  <2> QED BY <1>3, <1>4, <2>1 DEF Bijection, Injection, Surjection, IsInjective
<1>6. ExistsBijection(1..n, QueuesOf(lines))
  BY <1>5 DEF ExistsBijection
<1> QED BY <1>1, <1>6, FS_CountingElements DEF n

\* So those of all queues are a round,
LEMMA AllQueuesOnce ==
  ASSUME NEW lines \in Seq(Line), Distinct(lines), QueuesOf(lines) = Queues
  PROVE  Len(lines) = RoundSize
BY DistinctLen DEF RoundSize

\* and those of an incomplete round are fewer.
LEMMA IncompleteIsShort ==
  ASSUME NEW lines \in Seq(Line), Distinct(lines), QueuesOf(lines) # Queues
  PROVE  Len(lines) < RoundSize
<1>1. QueuesOf(lines) \subseteq Queues
  <2>1. \A i \in DOMAIN lines : lines[i] \in Line
    BY ElementOfSeq, LenProperties
  <2> QED BY <2>1 DEF QueuesOf, Line
<1>2. IsFiniteSet(Queues) /\ Cardinality(Queues) \in Nat
  BY QueuesFinite
<1>3. /\ Cardinality(QueuesOf(lines)) \in Nat
      /\ Cardinality(QueuesOf(lines)) <= Cardinality(Queues)
      /\ Cardinality(QueuesOf(lines)) # Cardinality(Queues)
  BY <1>1, <1>2, FS_Subset, FS_CardinalityType
<1> QED BY <1>2, <1>3, DistinctLen DEF RoundSize

\* A round stays where it is when the log grows.
LEMMA RoundStays ==
  ASSUME NEW s \in Seq(Line), NEW x \in Line, NEW lines, NEW a \in Nat,
         RoundAt(lines, s, a)
  PROVE  RoundAt(lines, Append(s, x), a)
<1> DEFINE t == Append(s, x)
<1>1. Len(s) \in Nat /\ Len(t) = Len(s) + 1 /\ \A i \in 1..Len(s) : t[i] = s[i]
  BY AppendProperties, LenProperties
<1> HIDE DEF t
<1>2. a + RoundSize <= Len(s) /\ Len(lines) = RoundSize
  BY DEF RoundAt
<1>3. CASE RoundSize \in Nat
  <2>1. \A i \in 1..RoundSize : a + i \in 1..Len(s)
    BY <1>1, <1>2, <1>3
  <2> QED BY <1>1, <1>2, <1>3, <2>1 DEF RoundAt, t
<1> QED BY <1>3, QueuesFinite DEF RoundSize

\* Keeping a complete round moves nothing.
LEMMA CloseKeeps ==
  ASSUME NEW s \in Seq(Line), NEW acc, Partitioned(acc, s)
  PROVE  Partitioned(Close(acc), s)
<1> DEFINE n == Len(s)
           c == Len(acc.current)
           front == n - c
           R == Len(acc.rounds)
           rs == Append(acc.rounds, acc.current)
           new == [rounds |-> rs, current |-> <<>>]
<1>1. SUFFICES ASSUME QueuesOf(acc.current) = Queues
               PROVE  Partitioned(new, s)
  BY DEF Close
<1>2. /\ acc \in [rounds : Seq(Seq(Line)), current : Seq(Line)]
      /\ front \in Nat
      /\ Distinct(acc.current)
      /\ \A i \in DOMAIN acc.current : acc.current[i] = s[front + i]
  BY DEF Partitioned
<1>3. /\ acc.rounds \in Seq(Seq(Line)) /\ acc.current \in Seq(Line)
      /\ c \in Nat /\ DOMAIN acc.current = 1..c /\ n \in Nat
      /\ R \in Nat /\ DOMAIN acc.rounds = 1..R
  BY <1>2, LenProperties
<1>4. PICK start \in [1..R -> 0..n] :
        /\ \A r \in 1..R : RoundAt(acc.rounds[r], s, start[r])
                           /\ start[r] + RoundSize <= front
        /\ \A r, u \in 1..R : r < u => start[r] + RoundSize <= start[u]
  BY <1>3 DEF Partitioned
<1>5. RoundSize = c /\ front + c = n /\ front <= n
  BY <1>1, <1>2, <1>3, AllQueuesOnce
<1>6. RoundAt(acc.current, s, front)
  <2>1. front + RoundSize <= n /\ c = RoundSize
    BY <1>3, <1>5
  <2>2. \A i \in 1..RoundSize : acc.current[i] = s[front + i]
    BY <1>2, <1>3, <1>5
  <2> HIDE DEF front
  <2> QED BY <1>1, <1>2, <2>1, <2>2 DEF RoundAt
<1>7. /\ rs \in Seq(Seq(Line)) /\ rs[R + 1] = acc.current /\ DOMAIN rs = 1..(R + 1)
      /\ \A r \in 1..R : rs[r] = acc.rounds[r]
  BY <1>3, AppendProperties, LenProperties
<1>8. /\ new \in [rounds : Seq(Seq(Line)), current : Seq(Line)]
      /\ new.rounds = rs /\ Len(new.current) = 0 /\ DOMAIN new.current = {}
  BY <1>7
<1> DEFINE st == [r \in 1..(R + 1) |-> IF r = R + 1 THEN front ELSE start[r]]
<1> HIDE DEF new, rs, n, c, R
<1>9. /\ st \in [1..(R + 1) -> 0..n] /\ st[R + 1] = front
      /\ \A r \in 1..R : st[r] = start[r]
  BY <1>2, <1>3, <1>4, <1>5
<1> HIDE DEF st
<1>10. ASSUME NEW r \in 1..(R + 1)
       PROVE  RoundAt(rs[r], s, st[r]) /\ st[r] + RoundSize <= n
  <2>1. CASE r = R + 1
    <3>1. rs[r] = acc.current /\ st[r] = front
      BY <1>7, <1>9, <2>1
    <3>2. front + RoundSize <= n
      BY <1>3, <1>5
    <3> QED BY <1>6, <3>1, <3>2
  <2>2. CASE r \in 1..R
    <3>1. /\ RoundAt(acc.rounds[r], s, start[r]) /\ start[r] \in 0..n
          /\ start[r] + RoundSize <= front
      BY <1>4, <2>2
    <3>2. rs[r] = acc.rounds[r] /\ st[r] = start[r]
      BY <1>7, <1>9, <2>2
    <3>3. start[r] + RoundSize <= n
      <4> HIDE DEF front
      <4> QED BY <1>2, <1>3, <1>5, <3>1
    <3> QED BY <3>1, <3>2, <3>3
  <2> QED BY <1>3, <2>1, <2>2
<1>11. ASSUME NEW r \in 1..(R + 1), NEW u \in 1..(R + 1), r < u
       PROVE  st[r] + RoundSize <= st[u]
  <2>1. r \in 1..R
    BY <1>3, <1>11
  <2>2. CASE u = R + 1
    BY <1>4, <1>9, <2>1, <2>2
  <2>3. CASE u \in 1..R
    BY <1>4, <1>9, <1>11, <2>1, <2>3
  <2> QED BY <1>3, <2>2, <2>3
<1> DEFINE tip == Len(s) - Len(new.current)
<1>12. tip = n /\ n = Len(s)
  BY <1>3, <1>8 DEF n
<1> HIDE DEF tip
<1>13. Distinct(new.current)
  BY <1>8 DEF Distinct
<1>14. /\ st \in [DOMAIN new.rounds -> 0..Len(s)]
       /\ \A r \in DOMAIN new.rounds : RoundAt(new.rounds[r], s, st[r])
                                       /\ st[r] + RoundSize <= tip
       /\ \A r, u \in DOMAIN new.rounds : r < u => st[r] + RoundSize <= st[u]
  BY <1>7, <1>8, <1>9, <1>10, <1>11, <1>12
<1>15. tip \in Nat /\ \A i \in DOMAIN new.current : new.current[i] = s[tip + i]
  BY <1>3, <1>8, <1>12
<1>16. \E v \in [DOMAIN new.rounds -> 0..Len(s)] :
         /\ \A r \in DOMAIN new.rounds : RoundAt(new.rounds[r], s, v[r])
                                         /\ v[r] + RoundSize <= tip
         /\ \A r, u \in DOMAIN new.rounds : r < u => v[r] + RoundSize <= v[u]
  BY <1>14
<1> QED BY <1>8, <1>13, <1>15, <1>16 DEF Partitioned, tip

\* The incomplete round of a longer log: either the old one with its new line, or
\* the new line alone.
LEMMA CurrentGrows ==
  ASSUME NEW s \in Seq(Line), NEW x \in Line, NEW acc, Partitioned(acc, s),
         NEW lines \in Seq(Line), Distinct(lines),
         \/ lines = <<x>>
         \/ lines = Append(acc.current, x)
  PROVE  Partitioned([acc EXCEPT !.current = lines], Append(s, x))
<1> DEFINE t == Append(s, x)
           n == Len(s)
           c == Len(acc.current)
           front == n - c
           R == Len(acc.rounds)
           new == [acc EXCEPT !.current = lines]
           rear == (n + 1) - Len(lines)
<1>1. /\ t \in Seq(Line) /\ n \in Nat /\ Len(t) = n + 1 /\ t[n + 1] = x
      /\ \A i \in 1..n : t[i] = s[i]
  BY AppendProperties, LenProperties
<1>2. /\ acc \in [rounds : Seq(Seq(Line)), current : Seq(Line)]
      /\ front \in Nat
      /\ \A i \in DOMAIN acc.current : acc.current[i] = s[front + i]
  BY DEF Partitioned
<1>3. /\ acc.rounds \in Seq(Seq(Line)) /\ acc.current \in Seq(Line)
      /\ c \in Nat /\ DOMAIN acc.current = 1..c
      /\ R \in Nat /\ DOMAIN acc.rounds = 1..R
      /\ Len(lines) \in Nat /\ DOMAIN lines = 1..Len(lines)
  BY <1>2, LenProperties
<1>4. PICK start \in [1..R -> 0..n] :
        /\ \A r \in 1..R : RoundAt(acc.rounds[r], s, start[r])
                           /\ start[r] + RoundSize <= front
        /\ \A r, u \in 1..R : r < u => start[r] + RoundSize <= start[u]
  BY <1>3 DEF Partitioned
<1>5. RoundSize \in Nat
  BY QueuesFinite DEF RoundSize
<1>6. /\ new \in [rounds : Seq(Seq(Line)), current : Seq(Line)]
      /\ new.rounds = acc.rounds /\ new.current = lines
  BY <1>2
<1> HIDE DEF new, t, n, c, R
<1>7. rear \in Nat /\ front <= rear /\ \A i \in 1..Len(lines) : lines[i] = t[rear + i]
  <2>1. CASE lines = <<x>>
    <3>1. Len(lines) = 1 /\ lines[1] = x
      BY <2>1
    <3> QED BY <1>1, <1>2, <1>3, <3>1
  <2>2. CASE lines = Append(acc.current, x)
    <3>1. /\ Len(lines) = c + 1 /\ lines[c + 1] = x
          /\ \A i \in 1..c : lines[i] = acc.current[i]
      BY <1>3, <2>2, AppendProperties DEF c
    <3>2. rear = front /\ rear + (c + 1) = n + 1
      BY <1>1, <1>2, <1>3, <3>1
    <3>3. \A i \in 1..c : rear + i \in 1..n
      <4>1. front \in Nat /\ n \in Nat /\ c \in Nat
        BY <1>1, <1>2, <1>3
      <4> HIDE DEF rear, front
      <4> QED BY <3>2, <4>1
    <3>4. \A i \in 1..c : lines[i] = t[rear + i]
      BY <1>1, <1>2, <1>3, <3>1, <3>2, <3>3
    <3>5. lines[c + 1] = t[rear + (c + 1)]
      BY <1>1, <3>1, <3>2
    <3>6. ASSUME NEW i \in 1..Len(lines) PROVE lines[i] = t[rear + i]
      <4>1. i \in 1..c \/ i = c + 1
        BY <1>3, <3>1
      <4> QED BY <3>4, <3>5, <4>1
    <3>7. rear \in Nat /\ front <= rear
      BY <1>2, <3>2
    <3> QED BY <3>6, <3>7
  <2> QED BY <2>1, <2>2
<1> HIDE DEF rear, front
<1>8. ASSUME NEW r \in 1..R
      PROVE  RoundAt(acc.rounds[r], t, start[r]) /\ start[r] + RoundSize <= rear
  <2>1. /\ RoundAt(acc.rounds[r], s, start[r]) /\ start[r] + RoundSize <= front
        /\ start[r] \in Nat
    BY <1>1, <1>4
  <2> QED BY <1>2, <1>5, <1>7, <2>1, RoundStays DEF t
<1>9. start \in [1..R -> 0..Len(t)]
  BY <1>1, <1>4
<1>10. \E v \in [DOMAIN new.rounds -> 0..Len(t)] :
         /\ \A r \in DOMAIN new.rounds : RoundAt(new.rounds[r], t, v[r])
                                         /\ v[r] + RoundSize <= rear
         /\ \A r, u \in DOMAIN new.rounds : r < u => v[r] + RoundSize <= v[u]
  BY <1>3, <1>4, <1>6, <1>8, <1>9
<1>11. Len(t) - Len(new.current) = rear
  BY <1>1, <1>6 DEF rear
<1> QED BY <1>3, <1>6, <1>7, <1>10, <1>11 DEF Partitioned, t, new

\* A line that is done with stays so when the log grows, in the incomplete round or
\* by a new one.
LEMMA CountedStays ==
  ASSUME NEW s \in Seq(Line), NEW x \in Line, NEW acc, NEW lines, NEW k \in 1..Len(s),
         acc \in [rounds : Seq(Seq(Line)), current : Seq(Line)],
         Counted(acc, s, k)
  PROVE  Counted([acc EXCEPT !.current = lines], Append(s, x), k)
<1> DEFINE t == Append(s, x)
           new == [acc EXCEPT !.current = lines]
<1>1. /\ Len(s) \in Nat /\ DOMAIN s = 1..Len(s) /\ DOMAIN t = 1..(Len(s) + 1)
      /\ \A i \in 1..Len(s) : t[i] = s[i]
  BY AppendProperties, LenProperties
<1>2. new.rounds = acc.rounds
  OBVIOUS
<1> HIDE DEF t, new
<1>3. DOMAIN s \subseteq DOMAIN t
  BY <1>1
<1>4. CASE \E r \in DOMAIN acc.rounds : s[k] \in Range(acc.rounds[r])
  BY <1>1, <1>2, <1>4 DEF Counted, t, new
<1>5. CASE Repeats(s, k)
  <2>1. Repeats(t, k)
    BY <1>1, <1>3, <1>5 DEF Repeats
  <2> QED BY <2>1 DEF Counted, t
<1> QED BY <1>4, <1>5 DEF Counted

\* Keeping a complete round counts its lines.
LEMMA CloseCounts ==
  ASSUME NEW s \in Seq(Line), NEW acc, Partitioned(acc, s),
         \A k \in 1..(Len(s) - Len(acc.current)) : Counted(acc, s, k)
  PROVE  Gathered(Close(acc), s)
<1> DEFINE n == Len(s)
           c == Len(acc.current)
           front == n - c
           R == Len(acc.rounds)
           rs == Append(acc.rounds, acc.current)
           new == [rounds |-> rs, current |-> <<>>]
<1>1. Partitioned(Close(acc), s)
  BY CloseKeeps
<1>2. CASE QueuesOf(acc.current) # Queues
  BY <1>1, <1>2 DEF Close, Gathered
<1>3. CASE QueuesOf(acc.current) = Queues
  <2>1. /\ acc \in [rounds : Seq(Seq(Line)), current : Seq(Line)]
        /\ front \in Nat
        /\ \A i \in DOMAIN acc.current : acc.current[i] = s[front + i]
    BY DEF Partitioned
  <2>2. /\ acc.rounds \in Seq(Seq(Line)) /\ acc.current \in Seq(Line)
        /\ c \in Nat /\ DOMAIN acc.current = 1..c /\ n \in Nat
        /\ R \in Nat /\ DOMAIN acc.rounds = 1..R
    BY <2>1, LenProperties
  <2>3. /\ rs[R + 1] = acc.current /\ DOMAIN rs = 1..(R + 1)
        /\ \A r \in 1..R : rs[r] = acc.rounds[r]
    BY <2>2, AppendProperties, LenProperties
  <2>4. Close(acc) = new /\ new.rounds = rs /\ new.current = <<>>
    BY <1>3 DEF Close
  <2>5. Len(new.current) = 0 /\ QueuesOf(new.current) # Queues
    BY <2>4, LogAssumption DEF QueuesOf
  <2> HIDE DEF n, c, R, rs, new
  <2>6. ASSUME NEW k \in 1..n PROVE Counted(new, s, k)
    <3>1. CASE k \in 1..front
      <4>1. Counted(acc, s, k)
        BY <3>1 DEF n, c
      <4>2. \A r \in 1..R : r \in 1..(R + 1)
        BY <2>2
      <4> QED BY <2>2, <2>3, <2>4, <4>1, <4>2 DEF Counted
    <3>2. CASE k \notin 1..front
      <4> DEFINE i == k - front
      <4>1. i \in 1..c /\ front + i = k
        BY <2>1, <2>2, <3>2
      <4> HIDE DEF i, front
      <4>2. s[k] = acc.current[i] /\ i \in DOMAIN acc.current
        BY <2>1, <2>2, <4>1
      <4>3. s[k] \in Range(acc.current)
        BY <4>2 DEF Range
      <4>4. R + 1 \in DOMAIN rs
        BY <2>2, <2>3
      <4> QED BY <2>3, <2>4, <4>3, <4>4 DEF Counted
    <3> QED BY <3>1, <3>2
  <2>7. n - Len(new.current) = n
    BY <2>2, <2>5
  <2> QED BY <1>1, <2>4, <2>5, <2>6, <2>7 DEF Gathered, n
<1> QED BY <1>2, <1>3

\* One sample more: a queue that comes again is what its group is passed over for.
LEMMA GatherOneMore ==
  ASSUME NEW s \in Seq(Line), NEW x \in Line, NEW acc, Gathered(acc, s)
  PROVE  Gathered(Add(acc, x), Append(s, x))
<1> DEFINE t == Append(s, x)
           n == Len(s)
           c == Len(acc.current)
           front == n - c
<1>1. /\ Partitioned(acc, s) /\ QueuesOf(acc.current) # Queues
      /\ \A k \in 1..front : Counted(acc, s, k)
  BY DEF Gathered
<1>2. /\ acc \in [rounds : Seq(Seq(Line)), current : Seq(Line)]
      /\ front \in Nat /\ Distinct(acc.current)
      /\ \A i \in DOMAIN acc.current : acc.current[i] = s[front + i]
  BY <1>1 DEF Partitioned
<1>3. /\ acc.current \in Seq(Line) /\ c \in Nat /\ DOMAIN acc.current = 1..c
      /\ n \in Nat
  BY <1>2, LenProperties
<1>4. /\ t \in Seq(Line) /\ Len(t) = n + 1 /\ DOMAIN t = 1..(n + 1) /\ t[n + 1] = x
      /\ \A i \in 1..n : t[i] = s[i]
  BY AppendProperties, LenProperties
<1>5. c < RoundSize /\ RoundSize \in Nat
  BY <1>1, <1>2, <1>3, IncompleteIsShort, QueuesFinite DEF RoundSize
<1>6. \A k \in 1..front : k \in 1..n
  BY <1>2, <1>3
<1> HIDE DEF t, n, c
<1>7. \A lines : \A k \in 1..front : Counted([acc EXCEPT !.current = lines], t, k)
  BY <1>1, <1>2, <1>6, CountedStays DEF t, n
<1>8. CASE x.queue_id \in QueuesOf(acc.current)
  <2> DEFINE one == <<x>>
             new == [acc EXCEPT !.current = one]
  <2>1. Add(acc, x) = new
    BY <1>1, <1>8 DEF Add, Close
  <2>2. /\ one \in Seq(Line) /\ Len(one) = 1 /\ DOMAIN one = 1..1 /\ one[1] = x
    OBVIOUS
  <2>3. new.current = one /\ new.rounds = acc.rounds
    BY <1>2
  <2> HIDE DEF one
  <2>4. Distinct(one)
    BY <2>2 DEF Distinct
  <2>5. Partitioned(new, t)
    BY <1>1, <2>2, <2>4, CurrentGrows DEF one, t
  <2>6. PICK p \in DOMAIN acc.current : acc.current[p].queue_id = x.queue_id
    BY <1>8 DEF QueuesOf
  <2> DEFINE i == front + p
  <2>7. i \in 1..n /\ t[i].queue_id = x.queue_id /\ n + 1 < i + RoundSize
    <3>1. i \in 1..n
      BY <1>2, <1>3, <2>6
    <3>2. n + 1 < i + RoundSize
      BY <1>2, <1>3, <1>5, <2>6
    <3>3. t[i] = acc.current[p]
      BY <1>2, <1>4, <2>6, <3>1
    <3> QED BY <2>6, <3>1, <3>2, <3>3
  <2>8. ASSUME NEW k \in 1..n PROVE Counted(new, t, k)
    <3>1. CASE k \in 1..front
      BY <1>7, <3>1
    <3>2. CASE k \notin 1..front
      <4>1. k < n + 1 /\ n + 1 < k + RoundSize
        BY <1>2, <1>3, <1>5, <3>2
      <4>2. i \in DOMAIN t /\ n + 1 \in DOMAIN t /\ i < n + 1
        BY <1>3, <1>4, <2>7
      <4>3. Repeats(t, k)
        <5> HIDE DEF i
        <5> QED BY <1>4, <2>7, <4>1, <4>2 DEF Repeats
      <4> QED BY <4>3 DEF Counted
    <3> QED BY <3>1, <3>2
  <2>9. QueuesOf(one) # Queues
    <3>1. QueuesOf(one) = {x.queue_id}
      BY <2>2 DEF QueuesOf
    <3>2. QueuesOf(acc.current) \subseteq Queues
      <4>1. \A j \in DOMAIN acc.current : acc.current[j] \in Line
        BY <1>3, ElementOfSeq, LenProperties
      <4> QED BY <4>1 DEF QueuesOf, Line
    <3> QED BY <1>1, <1>8, <3>1, <3>2
  <2> HIDE DEF new
  <2>10. Len(t) - Len(new.current) = n
    <3>1. Len(new.current) = 1
      BY <2>2, <2>3
    <3> QED BY <1>3, <1>4, <3>1
  <2>11. Gathered(new, t)
    BY <2>3, <2>5, <2>8, <2>9, <2>10 DEF Gathered
  <2> QED BY <2>1, <2>11 DEF t
<1>9. CASE x.queue_id \notin QueuesOf(acc.current)
  <2> DEFINE more == Append(acc.current, x)
             new == [acc EXCEPT !.current = more]
  <2>1. more \in Seq(Line) /\ Len(more) = c + 1
    BY <1>3, AppendProperties DEF c
  <2>2. Distinct(more)
    BY <1>2, <1>3, <1>9, DistinctGrows
  <2>3. Partitioned(new, t)
    BY <1>1, <2>1, <2>2, CurrentGrows DEF t
  <2>4. new.current = more
    BY <1>2
  <2>5. Len(t) - Len(new.current) = front
    BY <1>2, <1>3, <1>4, <2>1, <2>4
  <2>6. \A k \in 1..(Len(t) - Len(new.current)) : Counted(new, t, k)
    BY <1>7, <2>5
  <2>7. Gathered(Close(new), t)
    <3> HIDE DEF new
    <3> QED BY <1>4, <2>3, <2>6, CloseCounts
  <2> QED BY <1>9, <2>7 DEF Add, t
<1> QED BY <1>8, <1>9

\* The multiples of the longest time between two reports.
LEMMA PeriodTimes ==
  /\ Period \in Nat
  /\ \A a \in Nat : a * Period \in Nat /\ (a + 1) * Period = a * Period + Period
                    /\ (1 + a) * Period = a * Period + Period
<1>1. interval \in Nat /\ Iteration \in Nat
  BY LogAssumption
<1>2. Period \in Nat
  BY <1>1 DEF Period
<1> HIDE DEF Period
<1> QED BY <1>2

\* What the invariant says of the kinds of the values.
LEMMA LogKinds ==
  ASSUME LogTypeOK
  PROVE  /\ clock \in Nat /\ log \in Seq(Line) /\ Len(log) \in Nat
         /\ DOMAIN log = 1..Len(log) /\ printing \subseteq Line
         /\ last_reports \in [Queues -> Int] /\ lost \in [Queues -> Nat]
         /\ \A i \in DOMAIN log :
              log[i] \in Line /\ log[i].queue_id \in Queues /\ log[i].loop_end \in Nat
         /\ \A line \in printing : line.queue_id \in Queues /\ line.loop_end \in Nat
         /\ \A q \in Queues : Unread(q) \in Nat
         /\ Printing \in Nat /\ interval \in Nat /\ Iteration \in Nat
<1>1. /\ interval \in Nat /\ {Iteration, Printing, Spread, MaxLost, MaxClock} \subseteq Nat
  BY LogAssumption
<1>2. /\ clock \in Nat /\ log \in Seq(Line) /\ printing \subseteq Line
      /\ last_reports \in [Queues -> Int] /\ lost \in [Queues -> Nat]
  BY <1>1 DEF LogTypeOK
<1>3. Len(log) \in Nat /\ DOMAIN log = 1..Len(log)
  BY <1>2, LenProperties
<1>4. \A i \in DOMAIN log : log[i] \in Line
  BY <1>2, ElementOfSeq, <1>3
<1>5. \A line \in Line : line.queue_id \in Queues /\ line.loop_end \in Nat
  BY DEF Line
<1>6. \A q \in Queues : Unread(q) \in Nat
  BY <1>2 DEF Unread
<1> QED BY <1>1, <1>2, <1>3, <1>4, <1>5, <1>6

\* The log is empty.
LEMMA LogStarts == LogInit => LogInv
<1> SUFFICES ASSUME LogInit PROVE LogInv
  OBVIOUS
<1>1. LogTypeOK
  <2>1. /\ interval \in Nat /\ {Iteration, Printing, Spread, MaxLost, MaxClock} \subseteq Nat
    BY LogAssumption
  <2>2. last_reports \in [Queues -> (-Spread)..MaxClock]
    <3>1. (-Spread)..0 \subseteq (-Spread)..MaxClock
      BY <2>1
    <3> QED BY <3>1 DEF LogInit
  <2>3. log \in Seq(Line)
    BY DEF LogInit
  <2> QED BY <2>1, <2>2, <2>3 DEF LogInit, LogTypeOK
<1>2. log = <<>> /\ Len(log) = 0 /\ DOMAIN log = {} /\ printing = {}
  BY DEF LogInit
<1>3. Gathered(Collected(log), log)
  <2>1. Collected(log) = Empty
    BY <1>2, CollectNothing
  <2>2. /\ Empty \in [rounds : Seq(Seq(Line)), current : Seq(Line)]
        /\ Len(Empty.current) = 0 /\ DOMAIN Empty.current = {} /\ DOMAIN Empty.rounds = {}
    BY DEF Empty
  <2> DEFINE st == [r \in {} |-> 0]
  <2>3. st \in [{} -> 0..Len(log)]
    OBVIOUS
  <2>4. Partitioned(Empty, log)
    <3> HIDE DEF st
    <3> QED BY <1>2, <2>2, <2>3 DEF Partitioned, Distinct
  <2>5. QueuesOf(Empty.current) # Queues
    BY <2>2, LogAssumption DEF QueuesOf
  <2>6. 1..(Len(log) - Len(Empty.current)) = {}
    BY <1>2, <2>2
  <2> QED BY <2>1, <2>4, <2>5, <2>6 DEF Gathered
<1>4. InOrder /\ NearlySorted
  BY <1>2 DEF InOrder, NearlySorted
<1>5. InTime
  <2>1. \A q \in Queues : last_reports[q] \in Int /\ last_reports[q] <= 0
    <3>1. Spread \in Nat
      BY LogAssumption
    <3> QED BY <3>1 DEF LogInit
  <2>2. clock = 0
    BY DEF LogInit
  <2> QED BY <1>2, <2>1, <2>2, PeriodTimes DEF InTime
<1> QED BY <1>1, <1>3, <1>4, <1>5 DEF LogInv

\* A worker prints: its line is the last of its queue, and as no worker is late
\* with a report, a period more covers the time since the one before.
LEMMA ReportKeeps ==
  ASSUME LogInv, NEW q \in Queues, Report(q)
  PROVE  LogInv'
<1> DEFINE new == [queue_id |-> q, loop_end |-> clock]
<1>1. /\ LogTypeOK /\ Gathered(Collected(log), log) /\ InOrder /\ InTime
      /\ NearlySorted
  BY DEF LogInv
<1>2. /\ clock \in Nat /\ Len(log) \in Nat
      /\ DOMAIN log = 1..Len(log) /\ printing \subseteq Line
      /\ last_reports \in [Queues -> Int] /\ lost \in [Queues -> Nat]
      /\ \A i \in DOMAIN log :
           log[i] \in Line /\ log[i].queue_id \in Queues /\ log[i].loop_end \in Nat
      /\ \A line \in printing : line.queue_id \in Queues /\ line.loop_end \in Nat
      /\ \A p \in Queues : Unread(p) \in Nat
      /\ Printing \in Nat /\ interval \in Nat
  BY <1>1, LogKinds
<1>3. /\ clock - last_reports[q] >= interval
      /\ \A line \in printing : line.queue_id # q
      /\ printing' = printing \union {new}
      /\ last_reports' = [last_reports EXCEPT ![q] = clock]
      /\ clock' = clock /\ log' = log /\ lost' = lost
  BY DEF Report
<1>4. new.queue_id = q /\ new.loop_end = clock /\ new \in Line
  BY <1>2 DEF Line
<1> HIDE DEF new
<1>5. /\ last_reports'[q] = clock
      /\ \A p \in Queues : p # q => last_reports'[p] = last_reports[p]
  BY <1>2, <1>3
<1>6. LogTypeOK'
  <2>1. clock \in (-Spread)..MaxClock
    <3>1. Spread \in Nat /\ MaxClock \in Nat
      BY LogAssumption
    <3> QED BY <1>1, <1>2, <3>1 DEF LogTypeOK
  <2> QED BY <1>1, <1>3, <1>4, <2>1 DEF LogTypeOK
<1>7. Gathered(Collected(log), log)'
  BY <1>1, <1>3
<1>8. InOrder'
  <2>1. \A line \in printing' : line.loop_end = last_reports'[line.queue_id]
    BY <1>1, <1>2, <1>3, <1>4, <1>5 DEF InOrder
  <2>2. \A i \in DOMAIN log : log[i].loop_end <= last_reports'[log[i].queue_id]
    <3>1. last_reports[q] <= clock
      BY <1>1 DEF InTime
    <3>2. ASSUME NEW i \in DOMAIN log
          PROVE  log[i].loop_end <= last_reports'[log[i].queue_id]
      <4>1. /\ log[i].queue_id \in Queues /\ log[i].loop_end \in Nat
            /\ log[i].loop_end <= last_reports[log[i].queue_id]
        BY <1>1, <1>2 DEF InOrder
      <4>2. CASE log[i].queue_id = q
        <5>1. last_reports[q] \in Int
          BY <1>2
        <5> QED BY <1>2, <1>5, <3>1, <4>1, <4>2, <5>1
      <4>3. CASE log[i].queue_id # q
        BY <1>5, <4>1, <4>3
      <4> QED BY <4>2, <4>3
    <3> QED BY <3>2
  <2>3. \A line \in printing' : \A i \in DOMAIN log :
          log[i].queue_id = line.queue_id => log[i].loop_end < line.loop_end
    <3>1. last_reports[q] < clock
      <4>1. interval > 0 /\ last_reports[q] \in Int
        BY <1>2, LogAssumption
      <4> QED BY <1>2, <1>3, <4>1
    <3>2. \A i \in DOMAIN log : log[i].queue_id = q => log[i].loop_end < clock
      BY <1>1, <1>2, <3>1 DEF InOrder
    <3> QED BY <1>1, <1>3, <1>4, <3>2 DEF InOrder
  <2> QED BY <1>1, <1>3, <2>1, <2>2, <2>3 DEF InOrder
<1>9. InTime'
  <2>1. ASSUME NEW p \in Queues
        PROVE  /\ last_reports'[p] <= clock
               /\ last_reports'[p] >= 0 => clock <= last_reports'[p] + Period
    <3>1. CASE p = q
      BY <1>2, <1>5, <3>1, PeriodTimes
    <3>2. CASE p # q
      BY <1>1, <1>5, <3>2 DEF InTime
    <3> QED BY <3>1, <3>2
  <2>2. \A line \in printing' : clock <= line.loop_end + Printing
    BY <1>1, <1>2, <1>3, <1>4 DEF InTime
  <2>3. ASSUME NEW i \in DOMAIN log, NoneUntil(i, Len(log))
        PROVE  last_reports'[log[i].queue_id]
                 <= log[i].loop_end + Unread(log[i].queue_id)' * Period
    <3> DEFINE p == log[i].queue_id
               e == log[i].loop_end
    <3>1. /\ p \in Queues /\ e \in Nat /\ last_reports[p] <= e + Unread(p) * Period
          /\ e <= last_reports[p] /\ last_reports[p] \in Int
      BY <1>1, <1>2, <2>3 DEF InTime, InOrder
    <3>2. last_reports[p] >= 0 /\ clock <= last_reports[p] + Period
      BY <1>1, <3>1 DEF InTime
    <3>0. p' = p
      BY <1>3
    <3> HIDE DEF p, e
    <3>3. CASE p = q
      <4>1. Unread(p) = lost[p] /\ Unread(p)' = lost[p] + 1 /\ lost[p] \in Nat
        <5>1. ~ \E line \in printing : line.queue_id = p
          BY <1>3, <3>3
        <5>2. \E line \in printing' : line.queue_id = p
          BY <1>3, <1>4, <3>3
        <5>3. lost'[p] = lost[p] /\ lost[p] \in Nat
          BY <1>2, <1>3, <3>1
        <5> QED BY <3>0, <5>1, <5>2, <5>3 DEF Unread
      <4>2. lost[p] * Period \in Nat /\ (lost[p] + 1) * Period = lost[p] * Period + Period
        BY <4>1, PeriodTimes
      <4>3. clock <= e + (lost[p] * Period + Period)
        <5> DEFINE m == lost[p] * Period
        <5>1. last_reports[p] <= e + m /\ m \in Nat
          BY <3>1, <4>1, <4>2
        <5> HIDE DEF m
        <5>2. clock <= e + (m + Period)
          BY <1>2, <3>1, <3>2, <5>1, PeriodTimes
        <5> QED BY <5>2 DEF m
      <4>4. last_reports'[p] = clock
        BY <1>5, <3>3
      <4> QED BY <4>1, <4>2, <4>3, <4>4 DEF p, e
    <3>4. CASE p # q
      <4>1. Unread(p)' = Unread(p)
        <5>1. (\E line \in printing' : line.queue_id = p)
                <=> (\E line \in printing : line.queue_id = p)
          BY <1>3, <1>4, <3>4
        <5> QED BY <1>3, <3>0, <5>1 DEF Unread
      <4>2. last_reports'[p] = last_reports[p]
        BY <1>5, <3>1, <3>4
      <4> QED BY <3>1, <4>1, <4>2 DEF p, e
    <3> QED BY <3>3, <3>4
  <2>4. \A i, j : NoneUntil(i, j)' = NoneUntil(i, j)
    BY <1>3 DEF NoneUntil
  <2> QED BY <1>3, <2>1, <2>2, <2>3, <2>4 DEF InTime
<1>10. NearlySorted'
  BY <1>1, <1>3 DEF NearlySorted, NoneUntil
<1> QED BY <1>6, <1>7, <1>8, <1>9, <1>10 DEF LogInv

\* Time passes, but not beyond what the guards allow a worker.
LEMMA TickKeeps ==
  ASSUME LogInv, Tick
  PROVE  LogInv'
<1>1. /\ LogTypeOK /\ Gathered(Collected(log), log) /\ InOrder /\ InTime
      /\ NearlySorted
  BY DEF LogInv
<1>2. /\ clock \in Nat /\ last_reports \in [Queues -> Int]
      /\ \A line \in printing : line.loop_end \in Nat
      /\ Printing \in Nat /\ interval \in Nat /\ Iteration \in Nat
  BY <1>1, LogKinds
<1>3. /\ \A q \in Queues : clock - last_reports[q] < interval + Iteration
      /\ \A line \in printing : clock - line.loop_end < Printing
      /\ clock' = clock + 1 /\ clock < MaxClock
      /\ last_reports' = last_reports /\ printing' = printing /\ log' = log
      /\ lost' = lost
  BY DEF Tick
<1>4. LogTypeOK'
  <2>1. MaxClock \in Nat
    BY LogAssumption
  <2>2. clock' \in 0..MaxClock
    BY <1>2, <1>3, <2>1
  <2> QED BY <1>1, <1>3, <2>2 DEF LogTypeOK
<1>5. Gathered(Collected(log), log)' /\ InOrder' /\ NearlySorted'
  BY <1>1, <1>3 DEF InOrder, NearlySorted, NoneUntil
<1>6. InTime'
  <2>1. \A q \in Queues : /\ last_reports[q] <= clock + 1
                          /\ clock + 1 <= last_reports[q] + Period
    BY <1>1, <1>2, <1>3 DEF InTime, Period
  <2>2. \A line \in printing : clock + 1 <= line.loop_end + Printing
    BY <1>2, <1>3
  <2>3. (\A q : Unread(q)' = Unread(q)) /\ \A i, j : NoneUntil(i, j)' = NoneUntil(i, j)
    BY <1>3 DEF Unread, NoneUntil
  <2> QED BY <1>1, <1>3, <2>1, <2>2, <2>3 DEF InTime
<1> QED BY <1>4, <1>5, <1>6 DEF LogInv

\* A queue has one line in printing at most: that of its last report.
LEMMA OneInPrinting ==
  ASSUME LogTypeOK, InOrder, NEW a \in printing, NEW b \in printing,
         a.queue_id = b.queue_id
  PROVE  a = b
<1>1. a \in Line /\ b \in Line /\ a.loop_end = b.loop_end
  BY DEF LogTypeOK, InOrder
<1> QED BY <1>1 DEF Line

\* A line gets lost: it counts as lost instead of as printing.
LEMMA LoseKeeps ==
  ASSUME LogInv, NEW line \in printing, printing' = printing \ {line},
         lost[line.queue_id] < MaxLost,
         lost' = [lost EXCEPT ![line.queue_id] = @ + 1],
         log' = log, clock' = clock, last_reports' = last_reports
  PROVE  LogInv'
<1> DEFINE p == line.queue_id
<1>1. /\ LogTypeOK /\ Gathered(Collected(log), log) /\ InOrder /\ InTime
      /\ NearlySorted
  BY DEF LogInv
<1>2. /\ DOMAIN log = 1..Len(log) /\ printing \subseteq Line /\ p \in Queues
      /\ lost \in [Queues -> Nat]
      /\ \A i \in DOMAIN log : log[i].queue_id \in Queues /\ log[i].loop_end \in Nat
      /\ Printing \in Nat
  BY <1>1, LogKinds
<1> HIDE DEF p
<1>3. /\ lost'[p] = lost[p] + 1 /\ \A q \in Queues : q # p => lost'[q] = lost[q]
      /\ \A q \in Queues : lost[q] \in Nat
  BY <1>2 DEF p
<1>4. LogTypeOK'
  <2>1. MaxLost \in Nat
    BY LogAssumption
  <2>2. lost[p] + 1 \in 0..MaxLost
    BY <1>2, <1>3, <2>1 DEF p
  <2> QED BY <1>1, <1>2, <2>2 DEF LogTypeOK, p
<1>5. Gathered(Collected(log), log)' /\ InOrder'
  BY <1>1 DEF InOrder
<1>6. \A i, j : NoneUntil(i, j)' = NoneUntil(i, j)
  BY DEF NoneUntil
<1>7. ASSUME NEW q \in Queues PROVE Unread(q)' = Unread(q)
  <2>1. CASE q = p
    <3>1. \E other \in printing : other.queue_id = q
      BY <2>1 DEF p
    <3>2. ~ \E other \in printing' : other.queue_id = q
      BY <1>1, <2>1, OneInPrinting DEF p
    <3> QED BY <1>3, <2>1, <3>1, <3>2 DEF Unread
  <2>2. CASE q # p
    BY <1>3, <2>2 DEF Unread, p
  <2> QED BY <2>1, <2>2
<1>8. InTime'
  BY <1>1, <1>2, <1>6, <1>7 DEF InTime
<1>9. NearlySorted'
  <2>1. ASSUME NEW i \in DOMAIN log, NEW j \in DOMAIN log, i < j, NoneUntil(i, j)
        PROVE  log[j].loop_end
                 <= log[i].loop_end + (1 + lost'[log[i].queue_id]) * Period + Printing
    <3> DEFINE q == log[i].queue_id
               m == (1 + lost[q]) * Period
               k == (1 + lost'[q]) * Period
    <3>1. log[j].loop_end <= log[i].loop_end + m + Printing
      BY <1>1, <2>1 DEF NearlySorted
    <3>2. q \in Queues /\ log[i].loop_end \in Nat /\ log[j].loop_end \in Nat
      BY <1>2
    <3> HIDE DEF q
    <3>3. m \in Nat /\ k \in Nat /\ m <= k
      <4>1. CASE q # p
        <5>1. lost'[q] = lost[q] /\ 1 + lost[q] \in Nat
          BY <1>3, <3>2, <4>1
        <5> QED BY <5>1, PeriodTimes
      <4>2. CASE q = p
        <5>1. lost'[q] = 1 + lost[q] /\ 1 + lost[q] \in Nat
          BY <1>3, <3>2, <4>2
        <5> DEFINE a == 1 + lost[q]
        <5> HIDE DEF a
        <5>2. a * Period \in Nat /\ (1 + a) * Period = a * Period + Period /\ Period \in Nat
          BY <5>1, PeriodTimes DEF a
        <5> DEFINE x == a * Period
        <5>3. m = x /\ k = x + Period
          BY <5>1, <5>2 DEF a
        <5> HIDE DEF m, k, x
        <5>4. x \in Nat /\ Period \in Nat
          BY <5>2 DEF x
        <5> QED BY <5>3, <5>4
      <4> QED BY <4>1, <4>2
    <3> HIDE DEF m, k
    <3>4. log[j].loop_end <= log[i].loop_end + k + Printing
      <4>1. \A x, y, u, v, w \in Nat : x <= y + u + w /\ u <= v => x <= y + v + w
        OBVIOUS
      <4>2. /\ log[i].loop_end \in Nat /\ log[j].loop_end \in Nat
            /\ m \in Nat /\ k \in Nat /\ Printing \in Nat
        BY <1>2, <3>2, <3>3
      <4> QED BY <3>1, <3>3, <4>1, <4>2
    <3> QED BY <3>4 DEF k, q
  <2> QED BY <1>1, <1>6, <2>1 DEF NearlySorted
<1> QED BY <1>4, <1>5, <1>8, <1>9 DEF LogInv

\* A line reaches the log: no line of its queue is left in printing, and the last
\* line of each other queue in the log is as late as its worker may make it.
LEMMA AppendKeeps ==
  ASSUME LogInv, NEW line \in printing, printing' = printing \ {line},
         log' = Append(log, line),
         clock' = clock, last_reports' = last_reports, lost' = lost
  PROVE  LogInv'
<1> DEFINE p == line.queue_id
<1>n. PICK n \in Nat : n = Len(log)
  <2>1. LogTypeOK
    BY DEF LogInv
  <2> QED BY <2>1, LogKinds
<1>1. /\ LogTypeOK /\ Gathered(Collected(log), log) /\ InOrder /\ InTime
      /\ NearlySorted
  BY DEF LogInv
<1>2. /\ clock \in Nat /\ log \in Seq(Line)
      /\ DOMAIN log = 1..n /\ printing \subseteq Line
      /\ last_reports \in [Queues -> Int] /\ lost \in [Queues -> Nat]
      /\ \A i \in DOMAIN log :
           log[i] \in Line /\ log[i].queue_id \in Queues /\ log[i].loop_end \in Nat
      /\ \A other \in printing : other.queue_id \in Queues /\ other.loop_end \in Nat
      /\ Printing \in Nat
  BY <1>1, <1>n, LogKinds
<1>3. line \in Line /\ p \in Queues /\ line.loop_end \in Nat
  BY <1>2
<1>4. /\ log' \in Seq(Line) /\ Len(log') = n + 1 /\ DOMAIN log' = 1..(n + 1)
      /\ log'[n + 1] = line /\ \A i \in 1..n : log'[i] = log[i]
  BY <1>2, <1>3, <1>n, AppendProperties, LenProperties
<1> HIDE DEF p
<1>5. \A other \in printing' : other \in printing /\ other.queue_id # p
  BY <1>1, OneInPrinting DEF p
<1>6. line.loop_end = last_reports[p] /\ last_reports[p] \in Int
  BY <1>1, <1>2, <1>3 DEF InOrder, p
<1>7. LogTypeOK'
  BY <1>1, <1>4 DEF LogTypeOK
<1>8. Gathered(Collected(log), log)'
  <2>1. Gathered(Add(Collected(log), line), Append(log, line))
    BY <1>1, <1>2, <1>3, GatherOneMore
  <2>2. Collected(Append(log, line)) = Add(Collected(log), line)
    BY <1>2, <1>3, CollectOneMore
  <2>3. Gathered(Collected(Append(log, line)), Append(log, line))
    BY <2>1, <2>2
  <2> QED BY <2>3
<1>9. \A i \in 1..(n + 1) : i \in 1..n \/ i = n + 1
  BY <1>2
<1>10. InOrder'
  <2>1. \A other \in printing' : other.loop_end = last_reports[other.queue_id]
    BY <1>1, <1>5 DEF InOrder
  <2>2. ASSUME NEW i \in 1..(n + 1)
        PROVE  log'[i].loop_end <= last_reports[log'[i].queue_id]
    <3>1. CASE i \in 1..n
      BY <1>1, <1>2, <1>4, <3>1 DEF InOrder
    <3>2. CASE i = n + 1
      BY <1>3, <1>4, <1>6, <3>2 DEF p
    <3> QED BY <1>9, <3>1, <3>2
  <2>3. ASSUME NEW other \in printing', NEW i \in 1..(n + 1),
               log'[i].queue_id = other.queue_id
        PROVE  log'[i].loop_end < other.loop_end
    <3>1. i # n + 1
      BY <1>4, <1>5, <2>3 DEF p
    <3>2. i \in 1..n /\ other \in printing
      BY <1>5, <1>9, <3>1
    <3> QED BY <1>1, <1>2, <1>4, <2>3, <3>2 DEF InOrder
  <2>4. ASSUME NEW i \in 1..(n + 1), NEW j \in 1..(n + 1), i < j,
               log'[i].queue_id = log'[j].queue_id
        PROVE  log'[i].loop_end < log'[j].loop_end
    <3>1. i \in 1..n
      BY <1>2, <2>4
    <3>2. CASE j \in 1..n
      BY <1>1, <1>2, <1>4, <2>4, <3>1, <3>2 DEF InOrder
    <3>3. CASE j = n + 1
      BY <1>1, <1>2, <1>4, <2>4, <3>1, <3>3 DEF InOrder
    <3> QED BY <1>9, <3>2, <3>3
  <2> QED BY <1>4, <2>1, <2>2, <2>3, <2>4 DEF InOrder
<1>11. ASSUME NEW i \in 1..n, NoneUntil(i, n + 1)'
       PROVE  NoneUntil(i, n) /\ log[i].queue_id # p
  <2>1. \A k \in (i + 1)..(n + 1) : log'[k].queue_id # log'[i].queue_id
    BY <1>11 DEF NoneUntil
  <2>2. n + 1 \in (i + 1)..(n + 1) /\ (i + 1)..n \subseteq (i + 1)..(n + 1)
        /\ (i + 1)..n \subseteq 1..n
    BY <1>2
  <2>3. \A k \in (i + 1)..n : log[k].queue_id # log[i].queue_id
    BY <1>4, <2>1, <2>2
  <2>4. log'[n + 1].queue_id # log'[i].queue_id
    BY <2>1, <2>2
  <2> QED BY <1>4, <2>3, <2>4 DEF NoneUntil, p
<1>12. InTime'
  <2>1. \A q \in Queues : q # p => Unread(q)' = Unread(q)
    <3> SUFFICES ASSUME NEW q \in Queues, q # p PROVE Unread(q)' = Unread(q)
      OBVIOUS
    <3>1. (\E other \in printing' : other.queue_id = q)
            <=> (\E other \in printing : other.queue_id = q)
      BY DEF p
    <3> QED BY <3>1 DEF Unread
  <2>2. ASSUME NEW i \in 1..(n + 1), NoneUntil(i, n + 1)'
        PROVE  last_reports[log'[i].queue_id]
                 <= log'[i].loop_end + Unread(log[i].queue_id)' * Period
    <3>1. CASE i \in 1..n
      <4>1. NoneUntil(i, n) /\ log[i].queue_id # p
        BY <1>11, <2>2, <3>1
      <4>2. Unread(log[i].queue_id)' = Unread(log[i].queue_id)
        BY <1>2, <1>4, <2>1, <3>1, <4>1
      <4>3. last_reports[log[i].queue_id]
              <= log[i].loop_end + Unread(log[i].queue_id) * Period
        BY <1>1, <1>2, <3>1, <4>1, <1>n DEF InTime
      <4> QED BY <1>4, <3>1, <4>2, <4>3
    <3>2. CASE i = n + 1
      <4> DEFINE u == Unread(log[i].queue_id)'
      <4>1. u \in Nat
        <5>1. log'[i].queue_id = p
          BY <1>4, <3>2 DEF p
        <5>2. lost[p] \in Nat
          BY <1>2, <1>3
        <5> QED BY <5>1, <5>2 DEF Unread
      <4>2. u * Period \in Nat
        <5> HIDE DEF u
        <5> QED BY <4>1, PeriodTimes
      <4>3. log'[i].loop_end = last_reports[log'[i].queue_id]
            /\ log'[i].loop_end \in Nat
        BY <1>3, <1>4, <1>6, <3>2 DEF p
      <4>4. \A x, y \in Nat : x <= x + y
        OBVIOUS
      <4> HIDE DEF u
      <4>5. log'[i].loop_end <= log'[i].loop_end + u * Period
        BY <4>2, <4>3, <4>4
      <4> QED BY <4>3, <4>5 DEF u
    <3> QED BY <1>9, <3>1, <3>2
  <2>3. \A other \in printing' : clock <= other.loop_end + Printing
    BY <1>1, <1>5 DEF InTime
  <2>4. \A i : NoneUntil(i, Len(log))' <=> NoneUntil(i, n + 1)'
    BY <1>4 DEF NoneUntil
  <2>5. \A i \in DOMAIN log' : NoneUntil(i, Len(log))' =>
          last_reports'[log'[i].queue_id]
            <= log'[i].loop_end + Unread(log[i].queue_id)' * Period
    BY <1>4, <2>2, <2>4
  <2>6. \A q \in Queues :
          /\ last_reports'[q] <= clock'
          /\ last_reports'[q] >= 0 => clock' <= last_reports'[q] + Period
    BY <1>1 DEF InTime
  <2> QED BY <2>3, <2>5, <2>6 DEF InTime
<1>13. NearlySorted'
  <2>1. ASSUME NEW i \in 1..n
        PROVE  /\ log[i].loop_end <= line.loop_end + Printing
               /\ NoneUntil(i, n + 1)' =>
                    line.loop_end
                      <= log[i].loop_end + (1 + lost[log[i].queue_id]) * Period + Printing
    <3> DEFINE q == log[i].queue_id
               e == log[i].loop_end
               m == lost[q] * Period
    <3>1. /\ q \in Queues /\ e \in Nat /\ e <= last_reports[q]
          /\ last_reports[q] \in Int /\ lost[q] \in Nat
      BY <1>1, <1>2 DEF InOrder
    <3>2. /\ last_reports[q] <= clock /\ clock <= last_reports[q] + Period
          /\ clock <= line.loop_end + Printing /\ line.loop_end <= clock
      BY <1>1, <1>2, <1>3, <1>6, <3>1 DEF InTime
    <3>3. /\ m \in Nat /\ Period \in Nat /\ (1 + lost[q]) * Period = m + Period
          /\ (lost[q] + 1) * Period = m + Period
      BY <3>1, PeriodTimes
    <3>k. /\ clock \in Nat /\ line.loop_end \in Nat /\ Printing \in Nat
          /\ last_reports[q] \in Int /\ e \in Nat /\ m \in Nat /\ Period \in Nat
      BY <1>2, <1>3, <3>1, <3>3
    <3>4. e <= line.loop_end + Printing
      <4> HIDE DEF e, q
      <4> QED BY <1>2, <1>3, <3>1, <3>2
    <3>5. ASSUME NoneUntil(i, n + 1)'
          PROVE  line.loop_end <= e + (m + Period) + Printing
      <4>1. last_reports[q] <= e + Unread(q) * Period
        BY <1>1, <1>2, <1>11, <1>n, <3>5 DEF InTime
      <4>2. CASE \E other \in printing : other.queue_id = q
        <5>1. Unread(q) = lost[q] + 1
          BY <4>2 DEF Unread
        <5>2. clock <= last_reports[q] + Printing
          BY <1>1, <4>2 DEF InTime, InOrder
        <5>3. last_reports[q] <= e + (m + Period)
          BY <3>3, <4>1, <5>1
        <5> HIDE DEF e, m, q
        <5> QED BY <3>2, <3>k, <5>2, <5>3
      <4>3. CASE ~ \E other \in printing : other.queue_id = q
        <5>1. Unread(q) = lost[q]
          BY <3>1, <4>3 DEF Unread
        <5>2. last_reports[q] <= e + m
          BY <4>1, <5>1
        <5> HIDE DEF e, m, q
        <5> QED BY <3>2, <3>k, <5>2
      <4> QED BY <4>2, <4>3
    <3> HIDE DEF m
    <3> QED BY <3>3, <3>4, <3>5
  <2>2. ASSUME NEW i \in 1..n, NEW j \in 1..n
        PROVE  NoneUntil(i, j)' => NoneUntil(i, j)
    <3>1. (i + 1)..j \subseteq 1..n
      BY <1>2
    <3> QED BY <1>4, <3>1 DEF NoneUntil
  <2>3. ASSUME NEW i \in 1..(n + 1), NEW j \in 1..(n + 1), i < j
        PROVE  /\ log'[i].loop_end <= log'[j].loop_end + Printing
               /\ NoneUntil(i, j)' =>
                    log'[j].loop_end
                      <= log'[i].loop_end + (1 + lost[log'[i].queue_id]) * Period + Printing
    <3>1. i \in 1..n
      BY <1>2, <2>3
    <3>2. CASE j \in 1..n
      BY <1>1, <1>2, <1>4, <2>2, <2>3, <3>1, <3>2 DEF NearlySorted
    <3>3. CASE j = n + 1
      BY <1>4, <2>1, <3>1, <3>3
    <3> QED BY <1>9, <3>2, <3>3
  <2> QED BY <1>4, <2>3 DEF NearlySorted
<1> QED BY <1>7, <1>8, <1>10, <1>12, <1>13 DEF LogInv

\* The invariant holds at the start and every step keeps it.
LEMMA LogInvariance == LogSpec => []LogInv
<1>1. ASSUME LogInv, [LogNext]_logVars PROVE LogInv'
  <2>1. CASE Tick
    BY <1>1, <2>1, TickKeeps
  <2>2. CASE \E q \in Queues : Report(q)
    BY <1>1, <2>2, ReportKeeps
  <2>3. CASE \E line \in printing : Write(line)
    <3>1. PICK line \in printing : Write(line)
      BY <2>3
    <3>2. CASE log' = Append(log, line) /\ lost' = lost
      BY <1>1, <3>1, <3>2, AppendKeeps DEF Write
    <3>3. CASE /\ lost[line.queue_id] < MaxLost
               /\ lost' = [lost EXCEPT ![line.queue_id] = @ + 1]
               /\ log' = log
      BY <1>1, <3>1, <3>3, LoseKeeps DEF Write
    <3> QED BY <3>1, <3>2, <3>3 DEF Write
  <2>4. CASE UNCHANGED logVars
    BY <1>1, <2>4 DEF logVars, LogInv, LogTypeOK, InOrder, InTime, NearlySorted,
                      Unread, NoneUntil
  <2> QED BY <1>1, <2>1, <2>2, <2>3, <2>4 DEF LogNext
<1> QED BY <1>1, LogStarts, PTL DEF LogSpec

\* The rounds that collect_rounds makes of a log have each queue once, and share no
\* line, however the lines of the workers follow each other and whichever of them
\* cannot be read: the sums of a round and the median over the rounds count nothing
\* twice.
THEOREM RoundsPartition == LogSpec => []RoundsArePartition
<1>1. ASSUME LogInv PROVE RoundsArePartition
  <2> DEFINE rounds == collect_rounds(log)
  <2>1. rounds = Collected(log).rounds
    BY DEF collect_rounds, Collected, Empty
  <2>2. /\ LogTypeOK /\ Partitioned(Collected(log), log) /\ InOrder
    BY <1>1 DEF LogInv, Gathered
  <2>3. /\ Len(log) \in Nat /\ DOMAIN log = 1..Len(log)
        /\ \A i \in DOMAIN log : log[i].loop_end \in Nat
    BY <2>2, LogKinds
  <2>4. RoundSize \in Nat
    BY QueuesFinite DEF RoundSize
  <2> HIDE DEF rounds
  <2>5. PICK start \in [DOMAIN rounds -> 0..Len(log)] :
          /\ \A r \in DOMAIN rounds : RoundAt(rounds[r], log, start[r])
          /\ \A r, t \in DOMAIN rounds : r < t => start[r] + RoundSize <= start[t]
    BY <2>1, <2>2 DEF Partitioned
  <2>6. DOMAIN rounds \subseteq Nat
    <3>1. rounds \in Seq(Seq(Line))
      BY <2>1, <2>2 DEF Partitioned
    <3> QED BY <3>1, LenProperties
  <2>7. \A r \in DOMAIN rounds : Len(rounds[r]) = RoundSize /\ QueuesOf(rounds[r]) = Queues
    BY <2>5 DEF RoundAt
  <2>8. ASSUME NEW r \in DOMAIN rounds, NEW i \in 1..RoundSize
        PROVE  rounds[r][i] = log[start[r] + i] /\ start[r] + i \in DOMAIN log
               /\ start[r] \in Nat
    <3>1. start[r] \in Nat /\ RoundAt(rounds[r], log, start[r])
      BY <2>3, <2>5
    <3>2. start[r] + RoundSize <= Len(log) /\ rounds[r][i] = log[start[r] + i]
      BY <3>1 DEF RoundAt
    <3> QED BY <2>3, <2>4, <3>1, <3>2
  <2>9. ASSUME NEW i \in DOMAIN log, NEW j \in DOMAIN log, log[i] = log[j]
        PROVE  i = j
    <3>1. ~ log[i].loop_end < log[j].loop_end /\ ~ log[j].loop_end < log[i].loop_end
      BY <2>3, <2>9
    <3> QED BY <2>2, <2>3, <2>9, <3>1 DEF InOrder
  <2>10. ASSUME NEW r \in DOMAIN rounds, NEW s \in DOMAIN rounds,
                NEW i \in 1..RoundSize, NEW j \in 1..RoundSize,
                rounds[r][i] = rounds[s][j]
         PROVE  r = s /\ i = j
    <3>1. start[r] + i = start[s] + j /\ start[r] \in Nat /\ start[s] \in Nat
      BY <2>8, <2>9, <2>10
    <3>2. ~ r < s
      <4>1. r < s => start[r] + RoundSize <= start[s]
        BY <2>5
      <4> QED BY <2>4, <3>1, <4>1
    <3>3. ~ s < r
      <4>1. s < r => start[s] + RoundSize <= start[r]
        BY <2>5
      <4> QED BY <2>4, <3>1, <4>1
    <3>4. r = s
      BY <2>6, <3>2, <3>3
    <3> QED BY <3>1, <3>4
  <2> QED BY <2>7, <2>10 DEF RoundsArePartition, rounds, RoundSize
<1> QED BY <1>1, LogInvariance, PTL

\* The analysis passes over a line only where a queue comes twice within the length
\* of a round, or at the end of the log: for any number of queues, whatever the order
\* of the lines and whichever are missing.
THEOREM LinesCounted == LogSpec => []LinesAreCounted
<1>1. ASSUME LogInv PROVE LinesAreCounted
  <2> DEFINE acc == Collected(log)
             front == Len(log) - Len(acc.current)
  <2>1. collect_rounds(log) = acc.rounds
    BY DEF collect_rounds, Collected, Empty
  <2>2. LogTypeOK /\ Gathered(acc, log)
    BY <1>1 DEF LogInv
  <2>3. Len(log) \in Nat /\ DOMAIN log = 1..Len(log)
    BY <2>2, LogKinds
  <2>4. /\ \A k \in 1..front : Counted(acc, log, k)
        /\ QueuesOf(acc.current) # Queues
        /\ acc.current \in Seq(Line) /\ Distinct(acc.current)
        /\ front \in Nat
    BY <2>2 DEF Gathered, Partitioned
  <2>5. Len(acc.current) \in Nat /\ Len(acc.current) < RoundSize /\ RoundSize \in Nat
    BY <2>4, IncompleteIsShort, LenProperties, QueuesFinite DEF RoundSize
  <2> HIDE DEF acc
  <2>6. ASSUME NEW k \in DOMAIN log
        PROVE  k + RoundSize > Len(log) + 1 \/ Counted(acc, log, k)
    <3>1. CASE k \in 1..front
      BY <2>4, <3>1
    <3>2. CASE k \notin 1..front
      BY <2>3, <2>4, <2>5, <3>2
    <3> QED BY <3>1, <3>2
  <2> QED BY <2>1, <2>6 DEF LinesAreCounted, Counted, Repeats, RoundSize
<1> QED BY <1>1, LogInvariance, PTL

\* The lines of a round end within an interval, an iteration and the time of the
\* printing, and an interval more for each line of the queue that could not be read:
\* between two lines of a round there is none of the earlier one's queue.
THEOREM RoundsAreNear == LogSpec => []RoundsNear
<1>1. ASSUME LogInv PROVE RoundsNear
  <2> DEFINE rounds == collect_rounds(log)
  <2>1. rounds = Collected(log).rounds
    BY DEF collect_rounds, Collected, Empty
  <2>2. /\ LogTypeOK /\ Partitioned(Collected(log), log) /\ NearlySorted
    BY <1>1 DEF LogInv, Gathered
  <2>3. /\ Len(log) \in Nat /\ DOMAIN log = 1..Len(log) /\ lost \in [Queues -> Nat]
        /\ \A i \in DOMAIN log : log[i].queue_id \in Queues /\ log[i].loop_end \in Nat
        /\ Printing \in Nat
    BY <2>2, LogKinds
  <2>4. RoundSize \in Nat
    BY QueuesFinite DEF RoundSize
  <2> HIDE DEF rounds
  <2>5. PICK start \in [DOMAIN rounds -> 0..Len(log)] :
          \A r \in DOMAIN rounds : RoundAt(rounds[r], log, start[r])
    BY <2>1, <2>2 DEF Partitioned
  <2>6. ASSUME NEW r \in DOMAIN rounds, NEW i \in 1..RoundSize, NEW k \in 1..RoundSize
        PROVE  rounds[r][k].loop_end - rounds[r][i].loop_end
                 <= (1 + lost[rounds[r][i].queue_id]) * Period + Printing
    <3> DEFINE a == start[r] + i
               b == start[r] + k
    <3>1. start[r] \in Nat /\ RoundAt(rounds[r], log, start[r])
      BY <2>3, <2>5
    <3>2. start[r] + RoundSize <= Len(log)
          /\ \A j \in 1..RoundSize : rounds[r][j] = log[start[r] + j]
      BY <3>1 DEF RoundAt
    <3>3. a \in DOMAIN log /\ b \in DOMAIN log
      BY <2>3, <2>4, <3>1, <3>2
    <3>4. rounds[r][i] = log[a] /\ rounds[r][k] = log[b]
      BY <3>2
    <3>5. NoneUntil(a, b)
      <4>1. ASSUME NEW m \in (a + 1)..b PROVE log[m].queue_id # log[a].queue_id
        <5> DEFINE j == m - start[r]
        <5>1. j \in 1..RoundSize /\ j # i /\ start[r] + j = m
          BY <2>4, <3>1
        <5> HIDE DEF j, a
        <5>2. DOMAIN rounds[r] = 1..RoundSize
          <6>1. rounds[r] \in Seq(Line)
            <7>1. rounds \in Seq(Seq(Line))
              BY <2>1, <2>2 DEF Partitioned
            <7> QED BY <7>1, ElementOfSeq, LenProperties
          <6> QED BY <3>1, <6>1, LenProperties DEF RoundAt
        <5>3. rounds[r][j].queue_id # rounds[r][i].queue_id
          BY <3>1, <5>1, <5>2 DEF RoundAt, Distinct
        <5> QED BY <3>2, <3>4, <5>1, <5>3
      <4> QED BY <4>1 DEF NoneUntil
    <3>6. /\ log[a].loop_end \in Nat /\ log[b].loop_end \in Nat
          /\ lost[log[a].queue_id] \in Nat
      BY <2>3, <3>3
    <3>7. (1 + lost[log[a].queue_id]) * Period \in Nat
      <4>1. \A x \in Nat : (1 + x) * Period \in Nat
        <5>1. \A x \in Nat : 1 + x \in Nat
          OBVIOUS
        <5> QED BY <5>1, PeriodTimes
      <4> HIDE DEF a
      <4> QED BY <3>6, <4>1
    <3>8. a < b \/ b < a \/ a = b
      BY <2>3, <3>3
    <3> HIDE DEF a, b
    <3> DEFINE m == (1 + lost[log[a].queue_id]) * Period
    <3>9. log[b].loop_end <= log[a].loop_end + m + Printing
      <4>1. CASE a < b
        BY <2>2, <3>3, <3>5, <4>1 DEF NearlySorted
      <4>2. CASE b < a
        <5>1. log[b].loop_end <= log[a].loop_end + Printing
          BY <2>2, <3>3, <4>2 DEF NearlySorted
        <5>2. \A x, y, u, v \in Nat : x <= y + v => x <= y + u + v
          OBVIOUS
        <5>3. Printing \in Nat /\ m \in Nat
          BY <2>3, <3>7
        <5> HIDE DEF m
        <5> QED BY <3>6, <5>1, <5>2, <5>3
      <4>3. CASE a = b
        <5>1. \A x, u, v \in Nat : x <= x + u + v
          OBVIOUS
        <5>2. Printing \in Nat /\ m \in Nat
          BY <2>3, <3>7
        <5> HIDE DEF m
        <5> QED BY <3>6, <4>3, <5>1, <5>2
      <4> QED BY <3>8, <4>1, <4>2, <4>3
    <3>10. log[b].loop_end - log[a].loop_end <= m + Printing
      <4>1. \A x, y, u, v \in Nat : x <= y + u + v => x - y <= u + v
        OBVIOUS
      <4>2. Printing \in Nat /\ m \in Nat
        BY <2>3, <3>7
      <4> HIDE DEF m
      <4> QED BY <3>6, <3>9, <4>1, <4>2
    <3> QED BY <3>4, <3>10
  <2>7. ASSUME NEW r \in DOMAIN rounds PROVE DOMAIN rounds[r] = 1..RoundSize
    <3>1. rounds[r] \in Seq(Line)
      <4>1. rounds \in Seq(Seq(Line))
        BY <2>1, <2>2 DEF Partitioned
      <4> QED BY <4>1, ElementOfSeq, LenProperties
    <3>2. Len(rounds[r]) = RoundSize
      BY <2>5 DEF RoundAt
    <3> QED BY <3>1, <3>2, LenProperties
  <2> QED BY <2>6, <2>7 DEF RoundsNear, rounds, Range, Period
<1> QED BY <1>1, LogInvariance, PTL
==============================================================================
