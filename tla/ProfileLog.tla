------------------------------ MODULE ProfileLog ------------------------------
(***************************************************************************)
(* The log the workers of a server write together, and what the analysis   *)
(* scripts read from it.  Each worker prints a line per interval, on its   *)
(* own clock; nothing ties the lines of different workers together, and    *)
(* collect_rounds puts those into one round, as the load of the server in  *)
(* one second, that follow each other and are of different queues.         *)
(***************************************************************************)
EXTENDS Integers, Sequences, FiniteSets, SequencesExt

CONSTANTS
  Queues,         \* the queues of the server
  interval,       \* the length of a report interval
  Iteration,      \* how much later than that an interval may end
  Printing,       \* how long it may take until a line is in the log
  Spread,         \* the workers are launched within this time
  MaxLost,        \* bound of the model: lines of a queue that are not read
  MaxClock        \* bound of the model: how long the server runs

ASSUME LogAssumption ==
  /\ Queues # {} /\ IsFiniteSet(Queues) /\ Queues = 0..(Cardinality(Queues) - 1)
  /\ interval \in Nat \ {0}
  /\ {Iteration, Printing, Spread, MaxLost, MaxClock} \subseteq Nat
  /\ Printing < interval

VARIABLES
  clock,
  last_reports,  \* per worker
  printing,      \* the lines print_profile has formed and not yet written
  log,           \* what the analysis reads: the queue and loop_end of each line
  lost           \* per queue, how many of its lines cannot be read

logVars == <<clock, last_reports, printing, log, lost>>

Line == [queue_id : Queues, loop_end : Nat]

LogInit ==
  /\ clock = 0
  /\ last_reports \in [Queues -> (-Spread)..0]
  /\ printing = {}
  /\ log = <<>>
  /\ lost = [q \in Queues |-> 0]

------------------------------------------------------------------------------
(* The workers.                                                            *)

\* The interval of a worker has ended, and it prints; the next one starts.
Report(q) ==
  /\ clock - last_reports[q] >= interval
  /\ \A line \in printing : line.queue_id # q
  /\ printing' = printing \union {[queue_id |-> q, loop_end |-> clock]}
  /\ last_reports' = [last_reports EXCEPT ![q] = clock]
  /\ UNCHANGED <<clock, log, lost>>

\* Lines reach the log one by one, in any order; some cannot be read, the log
\* being cut off or damaged.
Write(line) ==
  /\ line \in printing
  /\ printing' = printing \ {line}
  /\ \/ log' = Append(log, line) /\ UNCHANGED lost
     \/ /\ lost[line.queue_id] < MaxLost
        /\ lost' = [lost EXCEPT ![line.queue_id] = @ + 1]
        /\ UNCHANGED log
  /\ UNCHANGED <<clock, last_reports>>

\* Time passes, but no worker stays in an iteration or in printf for long.
Tick ==
  /\ clock < MaxClock
  /\ \A q \in Queues : clock - last_reports[q] < interval + Iteration
  /\ \A line \in printing : clock - line.loop_end < Printing
  /\ clock' = clock + 1
  /\ UNCHANGED <<last_reports, printing, log, lost>>

LogNext ==
  \/ Tick
  \/ \E q \in Queues : Report(q)
  \/ \E line \in printing : Write(line)

LogSpec == LogInit /\ [][LogNext]_logVars

------------------------------------------------------------------------------
(* The analysis.                                                           *)

QueuesOf(lines) == {lines[i].queue_id : i \in DOMAIN lines}

\* A round that has all queues is kept.
Close(acc) ==
  IF QueuesOf(acc.current) = Queues
    THEN [rounds |-> Append(acc.rounds, acc.current), current |-> <<>>]
    ELSE acc

\* Mutant: a queue that comes a second time is passed over.
AddIgnoringRepeats(acc, sample) ==
  IF sample.queue_id \in QueuesOf(acc.current)
    THEN acc
    ELSE Close([acc EXCEPT !.current = Append(@, sample)])

\* Mutant: a complete round is not cleared.
AddWithoutReset(acc, sample) ==
  LET lines == IF sample.queue_id \in QueuesOf(acc.current)
                 THEN Append(Tail(acc.current), sample)
                 ELSE Append(acc.current, sample)
  IN  [Close([acc EXCEPT !.current = lines]) EXCEPT !.current = lines]

\* Mutant: the queue that comes a second time is not in the new round.
AddWithoutSample(acc, sample) ==
  IF sample.queue_id \in QueuesOf(acc.current)
    THEN [Close(acc) EXCEPT !.current = <<>>]
    ELSE Close([acc EXCEPT !.current = Append(@, sample)])

\* One sample of the loop in collect_rounds.  A queue that comes a second time
\* before the round is complete starts a new round.
Add(acc, sample) ==
  IF sample.queue_id \in QueuesOf(acc.current)
    THEN [Close(acc) EXCEPT !.current = <<sample>>]
    ELSE Close([acc EXCEPT !.current = Append(@, sample)])

collect_rounds(samples) ==
  FoldLeft(Add, [rounds |-> <<>>, current |-> <<>>], samples).rounds

------------------------------------------------------------------------------
(* Properties.                                                             *)

LogTypeOK ==
  /\ clock \in 0..MaxClock
  /\ last_reports \in [Queues -> (-Spread)..MaxClock]
  /\ printing \subseteq Line
  /\ log \in Seq(Line)
  /\ lost \in [Queues -> 0..MaxLost]

\* Every round has one line of each queue, and no line is in two rounds, so that
\* the sums over a round count each queue once and the median over the rounds
\* counts no second twice.
RoundsArePartition ==
  LET rounds == collect_rounds(log) IN
    /\ \A r \in DOMAIN rounds :
         Len(rounds[r]) = Cardinality(Queues) /\ QueuesOf(rounds[r]) = Queues
    /\ \A r, s \in DOMAIN rounds : \A i, j \in 1..Cardinality(Queues) :
         rounds[r][i] = rounds[s][j] => r = s /\ i = j

\* A line is in no round only if some worker is a line ahead just there: a queue
\* comes twice within the length of a round, the second time behind the line and
\* not further from it than that.  Or the line is one of the last, whose round may
\* not be complete.  Where the workers take turns the analysis passes over nothing.
LinesAreCounted ==
  LET rounds == collect_rounds(log)
      size == Cardinality(Queues)
  IN  \A k \in DOMAIN log :
        \/ k + size > Len(log) + 1
        \/ \E r \in DOMAIN rounds : log[k] \in Range(rounds[r])
        \/ \E i, j \in DOMAIN log :
             /\ i < j /\ k < j /\ j < i + size /\ j < k + size
             /\ log[i].queue_id = log[j].queue_id

\* The lines of a round end less than one interval apart, give or take an
\* iteration and the printing, so that they are of the same second or of
\* neighbouring ones, however far the clocks of the workers have drifted.  Each
\* line of the queue in front that cannot be read adds an interval at most.
RoundsNear ==
  LET rounds == collect_rounds(log) IN
    \A r \in DOMAIN rounds : \A a, b \in Range(rounds[r]) :
      b.loop_end - a.loop_end <=
        (1 + lost[a.queue_id]) * (interval + Iteration) + Printing
==============================================================================
