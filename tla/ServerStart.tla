----------------------------- MODULE ServerStart -----------------------------
(***************************************************************************)
(* How an echo server comes up: parse_echo_args, port_init_checksum_exp    *)
(* and main of the checksum servers.  echo_server.c does the same without  *)
(* a checksum mode, that is, in mode "software" with one argument, and     *)
(* with the port_init of dpdk.h.                                           *)
(***************************************************************************)
EXTENDS Startup

CONSTANT NoWorker  \* the lack of a worker argument

ChecksumModes == {"software", "offload", "preserve", "none"}

\* An argument: --checksum-mode=..., with a name that may be unknown, or any
\* other word, of which strtol makes a number.
ModeArgs == [is_mode : {TRUE}, mode : ChecksumModes \union {"unknown"}, count : {0}]
CountArgs == [is_mode : {FALSE}, mode : {"unknown"}, count : Counts]
Args == ModeArgs \union CountArgs

VARIABLES
  args,                   \* the arguments not parsed yet
  worker_arg,             \* the argument that is the number of workers
  selected_checksum_mode

serverArgVars == <<args, worker_arg, selected_checksum_mode>>

ServerArgInit ==
  /\ worker_arg = NoWorker
  /\ selected_checksum_mode = "software"

ServerInit ==
  /\ StartupInit
  /\ program = "echo_server"
  /\ args \in UNION {[1..n -> Args] : n \in 0..3}
  /\ ServerArgInit

------------------------------------------------------------------------------
(* parse_echo_args.                                                        *)

\* Too few or too many arguments.  The test comes before the loop.
BadNumberOfArgs ==
  /\ pc = "parse" /\ Len(args) \notin 1..2
  /\ Exit("usage")
  /\ UNCHANGED <<serverArgVars, num_queues>>

CheckNumberOfArgs ==
  /\ pc = "parse" /\ Len(args) \in 1..2
  /\ Goto("args")
  /\ UNCHANGED <<serverArgVars, num_queues>>

\* The mode of the last --checksum-mode counts.
ParseMode ==
  /\ pc = "args" /\ args # <<>>
  /\ Head(args).is_mode
  /\ args' = Tail(args)
  /\ IF Head(args).mode \in ChecksumModes
       THEN Goto("args") /\ selected_checksum_mode' = Head(args).mode
       ELSE Exit("usage") /\ UNCHANGED selected_checksum_mode
  /\ UNCHANGED <<worker_arg, num_queues>>

ParseWord ==
  /\ pc = "args" /\ args # <<>>
  /\ ~Head(args).is_mode
  /\ args' = Tail(args)
  /\ IF worker_arg = NoWorker
       THEN Goto("args") /\ worker_arg' = Head(args)
       ELSE Exit("usage") /\ UNCHANGED worker_arg
  /\ UNCHANGED <<selected_checksum_mode, num_queues>>

Parsed ==
  /\ pc = "args" /\ args = <<>>
  /\ IF worker_arg # NoWorker /\ worker_arg.count \in 1..MAX_CORES
       THEN Goto("port") /\ num_queues' = worker_arg.count
       ELSE Exit("usage") /\ UNCHANGED num_queues
  /\ UNCHANGED serverArgVars

ParseServerArgs ==
  /\ BadNumberOfArgs \/ CheckNumberOfArgs \/ ParseMode \/ ParseWord \/ Parsed
  /\ UNCHANGED port

------------------------------------------------------------------------------
(* main.                                                                   *)

RequestedTxOffloads ==
  IF selected_checksum_mode = "offload" THEN Offloads ELSE {}

\* A worker of the buffered servers starts by allocating its tx_buffer; without
\* memory for it the worker ends the program, whatever main is doing.
TxBufferFails ==
  /\ pc \in {"launch", "running"} /\ DOMAIN workers # {}
  /\ Exit("tx buffer")
  /\ UNCHANGED port

ServerMain ==
  \/ BringUp(RequestedTxOffloads) \/ BringUpFails
  \/ AllocateContexts("main", "lcores") \/ CountLcores("lcores", "launch")
  \/ TxBufferFails

ServerNext ==
  /\ program = "echo_server"
  /\ \/ ParseServerArgs
     \/ ServerMain /\ UNCHANGED <<serverArgVars, num_queues>>
  /\ UNCHANGED <<program, lcores>>

\* The steps of a server none of whose calls fails.
ServerBoot ==
  /\ ServerNext
  /\ status' \in {"running", "usage", "offload", "rss", "lcores"}
==============================================================================
