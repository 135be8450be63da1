----------------------------- MODULE LoopProfile -----------------------------
(***************************************************************************)
(* The cycle counters of a worker of the checksum servers, and the clock   *)
(* they are read off: the stage timers of run_server_worker, the timer of  *)
(* the whole iteration, the interval between two reports, and what         *)
(* print_profile makes of them.  What the stages do to the packets is in   *)
(* EchoWorker and TxBufWorker; here a packet is only counted.              *)
(*                                                                         *)
(* The clock, rte_get_timer_cycles, never goes back.  Any time may pass    *)
(* between two readings of it.                                             *)
(***************************************************************************)
EXTENDS Naturals

CONSTANTS
  BURST_SIZE, TX_BUFFER_SIZE,
  report_cycles,  \* the length of the report interval
  MaxStep,        \* bound of the model: the time between two readings
  MaxTime         \* bound of the model: the time at which a last poll starts

ASSUME ProfileAssumption ==
  /\ {BURST_SIZE, TX_BUFFER_SIZE, report_cycles, MaxStep} \subseteq Nat \ {0}
  /\ MaxTime \in Nat

VARIABLES
  loop_pc,
  buffered,     \* whether it is a txbuf server
  now,          \* the clock
  loop_start,
  last_report,
  nb_rx,
  parked,       \* the number of packets in tx_buffer
  stats,        \* cycles per stage and per kind of poll, and packets
  console       \* history: the time print_profile took since last_report

loopVars == <<loop_pc, buffered, now, loop_start, last_report, nb_rx, parked,
              stats, console>>

Stages == {"rx", "parse", "rewrite", "checksum", "tx"}

Zero == [s \in Stages \union {"total", "empty_poll", "nonempty_poll",
                              "rx_packets", "tx_packets"} |-> 0]

Elapsed == 0..MaxStep

LoopInit ==
  /\ loop_pc = "loop"
  /\ buffered \in BOOLEAN
  /\ now = 0
  /\ loop_start = 0
  /\ last_report = 0
  /\ nb_rx = 0
  /\ parked = 0
  /\ stats = Zero
  /\ console = 0

------------------------------------------------------------------------------
(* An iteration.                                                           *)

\* loop_start is read, and then both ends of the RX stage.  Bound of the model: the
\* RX stage takes a tick at least, so that only so many packets come before MaxTime.
Poll ==
  /\ loop_pc = "loop" /\ now <= MaxTime
  /\ \E idle, gap \in Elapsed, d \in Elapsed \ {0}, n \in 0..BURST_SIZE :
       /\ loop_start' = now + idle
       /\ now' = loop_start' + gap + d
       /\ nb_rx' = n
       /\ stats' = [stats EXCEPT !["rx"] = @ + d, !["rx_packets"] = @ + n]
       /\ loop_pc' = IF n = 0 THEN "empty" ELSE "parse"
  /\ UNCHANGED <<buffered, last_report, parked, console>>

\* A stage that the reading of t0 and t1 encloses.
Timed(stage, sent) ==
  \E gap, d \in Elapsed :
    /\ now' = now + gap + d
    /\ stats' = [stats EXCEPT ![stage] = @ + d, !["tx_packets"] = @ + sent]

Stage(stage, next) ==
  /\ loop_pc = stage
  /\ Timed(stage, 0)
  /\ loop_pc' = next
  /\ UNCHANGED <<buffered, loop_start, last_report, nb_rx, parked, console>>

\* The unbuffered server hands over the batch, the buffered one all buffers
\* that it fills; the NIC takes what it likes.
Tx ==
  /\ loop_pc = "tx"
  /\ parked' = IF buffered THEN (parked + nb_rx) % TX_BUFFER_SIZE ELSE 0
  /\ \E sent \in 0..(parked + nb_rx - parked') : Timed("tx", sent)
  /\ loop_pc' = IF buffered THEN "timer" ELSE "loop_end"
  /\ UNCHANGED <<buffered, loop_start, last_report, nb_rx, console>>

ReportDue(time) == time - last_report >= report_cycles

\* The buffered server looks at the clock to see if it has to flush.
LookAtTimer ==
  /\ loop_pc = "timer"
  /\ \E gap \in Elapsed : now' = now + gap
  /\ loop_pc' = IF ReportDue(now') THEN "flush" ELSE "loop_end"
  /\ UNCHANGED <<buffered, loop_start, last_report, nb_rx, parked, stats, console>>

\* Mutant: the flush is timed from the start of the iteration.
FlushFromLoopStart ==
  /\ loop_pc \in {"empty", "flush"}
  /\ IF parked = 0
       THEN UNCHANGED <<now, stats>>
       ELSE \E gap, d \in Elapsed, sent \in 0..parked :
              /\ now' = now + gap + d
              /\ stats' = [stats EXCEPT !["tx"] = @ + (now' - loop_start),
                                        !["tx_packets"] = @ + sent]
  /\ parked' = 0
  /\ loop_pc' = "loop_end"
  /\ UNCHANGED <<buffered, loop_start, last_report, nb_rx, console>>

\* flush_tx_buffer, after an empty poll or when a report is due; it looks at the
\* clock only if there is something to send.
Flush ==
  /\ loop_pc \in {"empty", "flush"}
  /\ IF parked = 0
       THEN UNCHANGED <<now, stats>>
       ELSE \E sent \in 0..parked : Timed("tx", sent)
  /\ parked' = 0
  /\ loop_pc' = "loop_end"
  /\ UNCHANGED <<buffered, loop_start, last_report, nb_rx, console>>

\* loop_end is read.
LoopEnd ==
  /\ loop_pc = "loop_end"
  /\ \E gap \in Elapsed : now' = now + gap
  /\ LET poll == IF nb_rx = 0 THEN "empty_poll" ELSE "nonempty_poll" IN
       stats' = [stats EXCEPT !["total"] = @ + (now' - loop_start),
                              ![poll] = @ + (now' - loop_start)]
  /\ loop_pc' = IF ReportDue(now') THEN "print" ELSE "loop"
  /\ UNCHANGED <<buffered, loop_start, last_report, nb_rx, parked, console>>

\* Mutant: the next interval starts after the printing.
PrintThenReadTimer ==
  /\ loop_pc = "print"
  /\ \E d \in Elapsed : now' = now + d /\ console' = d
  /\ stats' = Zero
  /\ last_report' = now'
  /\ loop_pc' = "loop"
  /\ UNCHANGED <<buffered, loop_start, nb_rx, parked>>

\* print_profile; the next interval starts at loop_end, before the printing.
PrintProfile ==
  /\ loop_pc = "print"
  /\ \E d \in Elapsed : now' = now + d /\ console' = d
  /\ stats' = Zero
  /\ last_report' = now
  /\ loop_pc' = "loop"
  /\ UNCHANGED <<buffered, loop_start, nb_rx, parked>>

LoopNext ==
  \/ Poll
  \/ Stage("parse", "rewrite")
  \/ Stage("rewrite", "checksum")
  \/ Stage("checksum", "tx")
  \/ Tx \/ LookAtTimer \/ Flush
  \/ LoopEnd \/ PrintProfile

LoopSpec == LoopInit /\ [][LoopNext]_loopVars

------------------------------------------------------------------------------
(* What print_profile makes of the counters.                               *)

accounted_cycles ==
  stats["rx"] + stats["parse"] + stats["rewrite"] + stats["checksum"] + stats["tx"]

\* The number of packets that cycles_per_packet divides a stage by.
PerPacketBase(stage) ==
  IF stage = "tx" THEN stats["tx_packets"] ELSE stats["rx_packets"]

------------------------------------------------------------------------------
(* Properties.                                                             *)

LoopTypeOK ==
  /\ loop_pc \in Stages \union {"loop", "empty", "timer", "flush", "loop_end", "print"}
  /\ loop_pc # "rx"
  /\ buffered \in BOOLEAN
  /\ {now, loop_start, last_report, console} \subseteq Nat
  /\ nb_rx \in 0..BURST_SIZE
  /\ parked \in 0..(TX_BUFFER_SIZE - 1)
  /\ stats \in [DOMAIN Zero -> Nat]

\* In a printed line the stages never exceed the loop, so that the clamp of
\* other_cycles never hides anything: no time is counted by two stages, the
\* flushes of the buffered servers included, and none outside an iteration.
\* Empty and nonempty polls share the loop between them.
StagesWithinLoop ==
  loop_pc \in {"loop", "print"} =>
    /\ accounted_cycles <= stats["total"]
    /\ stats["total"] = stats["empty_poll"] + stats["nonempty_poll"]

\* The loop never counts more than the time of its interval, without what the
\* console took of it: printing is in no cycle counter, but it is in the
\* interval, which is therefore never shorter than what is counted in it.
BusyWithoutConsole ==
  /\ loop_pc \in {"loop", "print"} => stats["total"] + console <= now - last_report
  /\ loop_pc = "print" => ReportDue(now)

\* The comment in print_profile: "cycles/pkt amortizes everything over received
\* packets".
AmortizedOverReceived ==
  loop_pc = "print" =>
    \A stage \in Stages :
      stats[stage] > 0 => PerPacketBase(stage) = stats["rx_packets"]
==============================================================================
