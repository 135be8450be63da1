----------------------------- MODULE EchoService -----------------------------
(***************************************************************************)
(* What an echo server promises, whatever its inner loop looks like: of    *)
(* the packets that entered a queue, the oldest ones are answered first,   *)
(* each is answered at most once, and an answer is the request with its    *)
(* endpoints exchanged.  A packet may be dropped for want of TX            *)
(* descriptors, but only as part of a group whose front was sent.          *)
(*                                                                         *)
(* The unbuffered and the buffered server are shown to implement this.     *)
(***************************************************************************)
EXTENDS Naturals, Sequences, FiniteSets

CONSTANTS
  Queues,      \* the queues of the server
  Traffic,     \* the headers [src, dst] that reach it
  Rss,         \* the queue of each header
  MaxRequests  \* bound of the model: packets that ever arrive

ASSUME ServiceAssumption == Rss \in [Traffic -> Queues]

VARIABLES
  accepted,  \* the headers of the packets that entered, in order
  pending,   \* per queue, the packets in the server, oldest first
  replied,   \* per queue, the answers given to the NIC, in order
  dropped    \* per queue, the number of packets dropped

serviceVars == <<accepted, pending, replied, dropped>>

Request(id, h) == [id |-> id, src |-> h.src, dst |-> h.dst]

\* Mutant: only the destination is replaced.
EchoHalf(r) == [id |-> r.id, src |-> r.src, dst |-> r.src]

Echo(r) == [id |-> r.id, src |-> r.dst, dst |-> r.src]

Init ==
  /\ accepted = <<>>
  /\ pending = [q \in Queues |-> <<>>]
  /\ replied = [q \in Queues |-> <<>>]
  /\ dropped = [q \in Queues |-> 0]

\* Mutant: a packet enters any queue.
AcceptAnywhere(h) ==
  /\ Len(accepted) < MaxRequests
  /\ accepted' = Append(accepted, h)
  /\ \E q \in Queues :
       pending' = [pending EXCEPT ![q] = Append(@, Request(Len(accepted) + 1, h))]
  /\ UNCHANGED <<replied, dropped>>

\* A packet enters the queue that RSS assigns to its header.
Accept(h) ==
  /\ Len(accepted) < MaxRequests
  /\ accepted' = Append(accepted, h)
  /\ pending' = [pending EXCEPT
                   ![Rss[h]] = Append(@, Request(Len(accepted) + 1, h))]
  /\ UNCHANGED <<replied, dropped>>

\* Mutant: the packets of a group leave newest first.
AnswerReversed(q) ==
  \E n \in 1..Len(pending[q]) : \E k \in 0..n :
    /\ pending' = [pending EXCEPT ![q] = SubSeq(@, n + 1, Len(@))]
    /\ replied' = [replied EXCEPT
                     ![q] = @ \o [i \in 1..k |-> Echo(pending[q][n - i + 1])]]
    /\ dropped' = [dropped EXCEPT ![q] = @ + (n - k)]
    /\ UNCHANGED accepted

\* Mutant: a group of which nothing was sent is not counted as dropped.
AnswerUncounted(q) ==
  \E n \in 1..Len(pending[q]) : \E k \in 0..n :
    /\ pending' = [pending EXCEPT ![q] = SubSeq(@, n + 1, Len(@))]
    /\ replied' = [replied EXCEPT
                     ![q] = @ \o [i \in 1..k |-> Echo(pending[q][i])]]
    /\ dropped' = [dropped EXCEPT ![q] = IF k = 0 THEN @ ELSE @ + (n - k)]
    /\ UNCHANGED accepted

\* The n oldest packets of a queue leave the server: the first k as answers.
Answer(q) ==
  \E n \in 1..Len(pending[q]) : \E k \in 0..n :
    /\ pending' = [pending EXCEPT ![q] = SubSeq(@, n + 1, Len(@))]
    /\ replied' = [replied EXCEPT
                     ![q] = @ \o [i \in 1..k |-> Echo(pending[q][i])]]
    /\ dropped' = [dropped EXCEPT ![q] = @ + (n - k)]
    /\ UNCHANGED accepted

Next ==
  \/ \E h \in Traffic : Accept(h)
  \/ \E q \in Queues : Answer(q)

Spec == Init /\ [][Next]_serviceVars

\* A packet does not stay in the server for ever.
FairSpec == Spec /\ \A q \in Queues : WF_serviceVars(Answer(q))

------------------------------------------------------------------------------
(* What follows from the promise.                                          *)

Ends == {h.src : h \in Traffic} \union {h.dst : h \in Traffic}
Message == [id : Nat, src : Ends, dst : Ends]

TypeOK ==
  /\ accepted \in Seq(Traffic)
  /\ pending \in [Queues -> Seq(Message)]
  /\ replied \in [Queues -> Seq(Message)]
  /\ dropped \in [Queues -> Nat]

\* Every answer is the echo of the packet with its id, and went out on the
\* queue that packet came in on; within a queue none overtakes another, and none
\* is given twice.
InOrder ==
  \A q \in Queues : \A i \in 1..Len(replied[q]) :
    LET id == replied[q][i].id IN
      /\ id \in 1..Len(accepted)
      /\ Rss[accepted[id]] = q
      /\ replied[q][i].src = accepted[id].dst
      /\ replied[q][i].dst = accepted[id].src
      /\ \A j \in 1..(i - 1) : replied[q][j].id < id

\* No packet disappears: what entered a queue was answered, was dropped and
\* counted, or is still there.
Conserved ==
  \A q \in Queues :
    Cardinality({id \in 1..Len(accepted) : Rss[accepted[id]] = q})
      = Len(replied[q]) + dropped[q] + Len(pending[q])
==============================================================================
