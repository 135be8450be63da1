-------------------------- MODULE EchoServiceProofs ---------------------------
(***************************************************************************)
(* What the promise of EchoService amounts to, proved for every set of     *)
(* queues, every traffic and every RSS mapping.                            *)
(***************************************************************************)
EXTENDS EchoService, SequenceTheorems, FiniteSetTheorems, TLAPS

\* What waits on a queue are requests that entered it, oldest first, all of them
\* younger than what has been answered.
Waiting(q) ==
  \A i \in 1..Len(pending[q]) :
    LET id == pending[q][i].id IN
      /\ id \in 1..Len(accepted)
      /\ Rss[accepted[id]] = q
      /\ pending[q][i].src = accepted[id].src
      /\ pending[q][i].dst = accepted[id].dst
      /\ \A j \in 1..(i - 1) : pending[q][j].id < id
      /\ \A j \in 1..Len(replied[q]) : replied[q][j].id < id

\* InOrder, for one queue.
Answered(q) ==
  \A i \in 1..Len(replied[q]) :
    LET id == replied[q][i].id IN
      /\ id \in 1..Len(accepted)
      /\ Rss[accepted[id]] = q
      /\ replied[q][i].src = accepted[id].dst
      /\ replied[q][i].dst = accepted[id].src
      /\ \A j \in 1..(i - 1) : replied[q][j].id < id

\* Conserved, for one queue.
Entered(q) == {id \in 1..Len(accepted) : Rss[accepted[id]] = q}
Balance(q) ==
  Cardinality(Entered(q)) = Len(replied[q]) + dropped[q] + Len(pending[q])

Inv == TypeOK /\ \A q \in Queues : Waiting(q) /\ Answered(q) /\ Balance(q)

------------------------------------------------------------------------------
(* One more packet enters.                                                 *)

\* One more accepted header is one more packet of its queue, and of no other.
LEMMA OneMoreEntered ==
  ASSUME accepted \in Seq(Traffic), NEW h \in Traffic, NEW q,
         accepted' = Append(accepted, h)
  PROVE  Cardinality(Entered(q)') =
           Cardinality(Entered(q)) + (IF Rss[h] = q THEN 1 ELSE 0)
<1> DEFINE new == Len(accepted) + 1
<1>1. /\ Len(accepted) \in Nat
      /\ Len(accepted') = new
      /\ \A i \in 1..Len(accepted) : accepted'[i] = accepted[i]
      /\ accepted'[new] = h
  BY AppendProperties, LenProperties
<1>2. IsFiniteSet(Entered(q)) /\ new \notin Entered(q)
  <2>1. IsFiniteSet(1..Len(accepted))
    BY <1>1, FS_Interval
  <2>2. Entered(q) \subseteq 1..Len(accepted)
    BY DEF Entered
  <2> QED
    BY <1>1, <2>1, <2>2, FS_Subset
<1>3. CASE Rss[h] = q
  <2>1. Entered(q)' = Entered(q) \union {new}
    BY <1>1, <1>3 DEF Entered
  <2> QED
    BY <1>2, <1>3, <2>1, FS_AddElement
<1>4. CASE Rss[h] # q
  <2>1. Entered(q)' = Entered(q)
    BY <1>1, <1>4 DEF Entered
  <2>2. Cardinality(Entered(q)) \in Nat
    BY <1>2, FS_CardinalityType
  <2> QED
    BY <1>4, <2>1, <2>2
<1> QED
  BY <1>3, <1>4

\* A packet that enters gets an id above all others.
LEMMA AcceptInv ==
  ASSUME Inv, NEW h \in Traffic, Accept(h)
  PROVE  Inv'
<1> DEFINE r == Request(Len(accepted) + 1, h)
<1>1. /\ accepted \in Seq(Traffic)
      /\ pending \in [Queues -> Seq(Message)]
      /\ replied \in [Queues -> Seq(Message)]
      /\ dropped \in [Queues -> Nat]
  BY DEF Inv, TypeOK
<1>2. Len(accepted) \in Nat
  BY <1>1, LenProperties
<1>3. r \in Message
  BY <1>2 DEF Request, Message, Ends
<1>4. /\ accepted' \in Seq(Traffic)
      /\ Len(accepted') = Len(accepted) + 1
      /\ \A i \in 1..Len(accepted) : accepted'[i] = accepted[i]
      /\ accepted'[Len(accepted) + 1] = h
  BY <1>1, AppendProperties DEF Accept
<1>5. /\ pending' = [pending EXCEPT ![Rss[h]] = Append(@, r)]
      /\ replied' = replied /\ dropped' = dropped
      /\ accepted' = Append(accepted, h)
  BY DEF Accept
<1> HIDE DEF r
<1>6. Rss[h] \in Queues
  BY ServiceAssumption
<1>7. TypeOK'
  <2>1. Append(pending[Rss[h]], r) \in Seq(Message)
    BY <1>1, <1>3, <1>6, AppendProperties
  <2> QED
    BY <1>1, <1>4, <1>5, <2>1 DEF TypeOK
<1>8. ASSUME NEW q \in Queues PROVE Answered(q)'
  BY <1>2, <1>4, <1>5 DEF Inv, Answered
<1>9. ASSUME NEW q \in Queues PROVE Waiting(q)'
  <2>1. /\ pending[q] \in Seq(Message) /\ Len(pending[q]) \in Nat
    BY <1>1, LenProperties
  <2>2. CASE q # Rss[h]
    <3>1. pending'[q] = pending[q]
      BY <1>1, <1>5, <2>2
    <3>2. Waiting(q)
      BY DEF Inv
    <3>3. ASSUME NEW i \in 1..Len(pending[q])
          PROVE  LET id == pending[q][i].id IN
                   /\ id \in 1..Len(accepted')
                   /\ accepted'[id] = accepted[id]
      BY <1>2, <1>4, <3>2 DEF Waiting
    <3> QED
      <4> SUFFICES ASSUME NEW i \in 1..Len(pending[q])
                   PROVE  LET id == pending[q][i].id IN
                            /\ id \in 1..Len(accepted')
                            /\ Rss[accepted'[id]] = q
                            /\ pending[q][i].src = accepted'[id].src
                            /\ pending[q][i].dst = accepted'[id].dst
                            /\ \A j \in 1..(i - 1) : pending[q][j].id < id
                            /\ \A j \in 1..Len(replied[q]) : replied[q][j].id < id
        BY <1>5, <3>1 DEF Waiting
      <4> QED
        BY <3>2, <3>3 DEF Waiting
  <2>3. CASE q = Rss[h]
    <3>1. /\ Len(pending'[q]) = Len(pending[q]) + 1
          /\ \A i \in 1..Len(pending[q]) : pending'[q][i] = pending[q][i]
          /\ pending'[q][Len(pending[q]) + 1] = r
      BY <1>1, <1>3, <1>5, <1>6, <2>1, <2>3, AppendProperties
    <3>2. r.id = Len(accepted) + 1 /\ r.src = h.src /\ r.dst = h.dst
      BY DEF r, Request
    <3>3. /\ \A j \in 1..Len(pending[q]) : pending[q][j].id \in 1..Len(accepted)
          /\ \A j \in 1..Len(replied[q]) : replied[q][j].id \in 1..Len(accepted)
      BY DEF Inv, Waiting, Answered
    <3>4. ASSUME NEW i \in 1..Len(pending'[q])
          PROVE  LET id == pending'[q][i].id IN
                   /\ id \in 1..Len(accepted')
                   /\ Rss[accepted'[id]] = q
                   /\ pending'[q][i].src = accepted'[id].src
                   /\ pending'[q][i].dst = accepted'[id].dst
                   /\ \A j \in 1..(i - 1) : pending'[q][j].id < id
                   /\ \A j \in 1..Len(replied'[q]) : replied'[q][j].id < id
      <4>1. CASE i = Len(pending[q]) + 1
        <5>1. pending'[q][i] = r
          BY <3>1, <4>1
        <5>2. \A j \in 1..(i - 1) : pending'[q][j].id < Len(accepted) + 1
          <6> SUFFICES ASSUME NEW j \in 1..(i - 1)
                       PROVE  pending'[q][j].id < Len(accepted) + 1
            OBVIOUS
          <6>1. j \in 1..Len(pending[q])
            BY <2>1, <4>1
          <6>2. pending'[q][j] = pending[q][j]
            BY <3>1, <6>1
          <6>3. pending[q][j].id \in 1..Len(accepted)
            BY <3>3, <6>1
          <6> QED
            BY <1>2, <6>2, <6>3
        <5>3. \A j \in 1..Len(replied'[q]) : replied'[q][j].id < Len(accepted) + 1
          BY <1>2, <1>5, <3>3
        <5> QED
          BY <1>2, <1>4, <2>3, <3>2, <5>1, <5>2, <5>3
      <4>2. CASE i \in 1..Len(pending[q])
        <5>1. pending'[q][i] = pending[q][i]
          BY <3>1, <4>2
        <5>2. \A j \in 1..(i - 1) : pending'[q][j] = pending[q][j]
          BY <2>1, <3>1, <4>2
        <5> QED
          <6> DEFINE id == pending[q][i].id
          <6>1. /\ id \in 1..Len(accepted)
                /\ Rss[accepted[id]] = q
                /\ pending[q][i].src = accepted[id].src
                /\ pending[q][i].dst = accepted[id].dst
                /\ \A j \in 1..(i - 1) : pending[q][j].id < id
                /\ \A j \in 1..Len(replied[q]) : replied[q][j].id < id
            BY <4>2 DEF Inv, Waiting
          <6>2. id \in 1..Len(accepted') /\ accepted'[id] = accepted[id]
            BY <1>2, <1>4, <6>1
          <6> HIDE DEF id
          <6> QED
            BY <1>5, <5>1, <5>2, <6>1, <6>2 DEF id
      <4> QED
        BY <2>1, <3>1, <4>1, <4>2
    <3> QED
      BY <3>4 DEF Waiting
  <2> QED
    BY <2>2, <2>3
<1>10. ASSUME NEW q \in Queues PROVE Balance(q)'
  <2>1. Cardinality(Entered(q)') =
          Cardinality(Entered(q)) + (IF Rss[h] = q THEN 1 ELSE 0)
    BY <1>1, <1>5, OneMoreEntered
  <2>2. /\ Len(pending[q]) \in Nat /\ Len(replied[q]) \in Nat /\ dropped[q] \in Nat
    BY <1>1, LenProperties
  <2>3. Len(pending'[q]) = Len(pending[q]) + (IF Rss[h] = q THEN 1 ELSE 0)
    <3>1. CASE Rss[h] = q
      BY <1>1, <1>3, <1>5, <3>1, AppendProperties
    <3>2. CASE Rss[h] # q
      BY <1>1, <1>5, <2>2, <3>2
    <3> QED
      BY <3>1, <3>2
  <2>4. Cardinality(Entered(q)) = Len(replied[q]) + dropped[q] + Len(pending[q])
    BY DEF Inv, Balance
  <2>5. Cardinality(Entered(q)') = Len(replied[q]) + dropped[q] + Len(pending'[q])
    <3>1. CASE Rss[h] = q
      <4>1. /\ Cardinality(Entered(q)') = Cardinality(Entered(q)) + 1
            /\ Len(pending'[q]) = Len(pending[q]) + 1
        BY <2>1, <2>3, <3>1, Zenon
      <4>2. \A a, b, c \in Nat : (a + b + c) + 1 = a + b + (c + 1)
        OBVIOUS
      <4>3. Cardinality(Entered(q)') =
              (Len(replied[q]) + dropped[q] + Len(pending[q])) + 1
        BY <2>4, <4>1, Zenon
      <4>4. (Len(replied[q]) + dropped[q] + Len(pending[q])) + 1 =
              Len(replied[q]) + dropped[q] + (Len(pending[q]) + 1)
        BY <2>2, <4>2, Zenon
      <4> QED
        BY <4>1, <4>3, <4>4, Zenon
    <3>2. CASE Rss[h] # q
      BY <2>1, <2>2, <2>3, <2>4, <3>2
    <3> QED
      BY <3>1, <3>2
  <2> QED
    BY <1>5, <2>5 DEF Balance
<1> QED
  BY <1>7, <1>8, <1>9, <1>10 DEF Inv

------------------------------------------------------------------------------
(* A group leaves.                                                         *)

\* The answers of a group are echoes of its front.
LEMMA EchoesOfFront ==
  ASSUME NEW s \in Seq(Message), NEW k \in 0..Len(s)
  PROVE  LET t == [i \in 1..k |-> Echo(s[i])] IN
           /\ t \in Seq(Message)
           /\ Len(t) = k
           /\ \A i \in 1..k : t[i] = Echo(s[i])
<1> DEFINE t == [i \in 1..k |-> Echo(s[i])]
<1>1. Len(s) \in Nat /\ k \in Nat
  BY LenProperties
<1>2. \A i \in 1..k : s[i] \in Message
  BY <1>1, ElementOfSeq
<1>3. \A i \in 1..k : Echo(s[i]) \in Message
  BY <1>2 DEF Echo, Message
<1>4. t \in [1..k -> Message]
  BY <1>3
<1>5. t \in Seq(Message)
  BY <1>1, <1>4
<1>6. Len(t) = k
  BY <1>1, <1>4, <1>5, LenProperties
<1> QED
  BY <1>4, <1>5, <1>6

\* What an answer does to the queues.
LEMMA AnswerEffect ==
  ASSUME TypeOK, NEW p \in Queues, Answer(p)
  PROVE  /\ TypeOK'
         /\ accepted' = accepted
         /\ \A q \in Queues \ {p} : /\ pending'[q] = pending[q]
                                    /\ replied'[q] = replied[q]
                                    /\ dropped'[q] = dropped[q]
         /\ \E n \in 1..Len(pending[p]) : \E k \in 0..n :
              /\ dropped'[p] = dropped[p] + (n - k)
              /\ Len(pending'[p]) = Len(pending[p]) - n
              /\ \A i \in 1..(Len(pending[p]) - n) :
                   pending'[p][i] = pending[p][n + i]
              /\ Len(replied'[p]) = Len(replied[p]) + k
              /\ \A i \in 1..Len(replied[p]) : replied'[p][i] = replied[p][i]
              /\ \A i \in 1..k :
                   replied'[p][Len(replied[p]) + i] = Echo(pending[p][i])
<1>1. /\ accepted \in Seq(Traffic)
      /\ pending \in [Queues -> Seq(Message)]
      /\ replied \in [Queues -> Seq(Message)]
      /\ dropped \in [Queues -> Nat]
  BY DEF TypeOK
<1> DEFINE old == pending[p]
<1>2. old \in Seq(Message) /\ Len(old) \in Nat
        /\ replied[p] \in Seq(Message) /\ Len(replied[p]) \in Nat
  BY <1>1, LenProperties
<1>3. PICK n \in 1..Len(old) : \E k \in 0..n :
        /\ pending' = [pending EXCEPT ![p] = SubSeq(@, n + 1, Len(@))]
        /\ replied' = [replied EXCEPT ![p] = @ \o [i \in 1..k |-> Echo(pending[p][i])]]
        /\ dropped' = [dropped EXCEPT ![p] = @ + (n - k)]
        /\ UNCHANGED accepted
  BY DEF Answer
<1>4. PICK k \in 0..n :
        /\ pending' = [pending EXCEPT ![p] = SubSeq(@, n + 1, Len(@))]
        /\ replied' = [replied EXCEPT ![p] = @ \o [i \in 1..k |-> Echo(pending[p][i])]]
        /\ dropped' = [dropped EXCEPT ![p] = @ + (n - k)]
        /\ UNCHANGED accepted
  BY <1>3
<1> DEFINE sent == [i \in 1..k |-> Echo(old[i])]
<1>5. /\ n \in Nat /\ k \in Nat /\ n <= Len(old) /\ k <= n
  BY <1>2
<1>6. /\ sent \in Seq(Message)
      /\ Len(sent) = k
      /\ \A i \in 1..k : sent[i] = Echo(old[i])
  BY <1>2, <1>5, EchoesOfFront
<1>7. /\ pending'[p] \in Seq(Message)
      /\ Len(pending'[p]) = Len(old) - n
      /\ \A i \in 1..(Len(old) - n) : pending'[p][i] = old[n + i]
  <2>1. pending'[p] = SubSeq(old, n + 1, Len(old))
    BY <1>1, <1>4
  <2>2. \A i \in (n + 1)..Len(old) : old[i] \in Message
    BY <1>2, <1>5, ElementOfSeq
  <2>3. /\ SubSeq(old, n + 1, Len(old)) \in Seq(Message)
        /\ Len(SubSeq(old, n + 1, Len(old))) =
             IF n + 1 <= Len(old) THEN Len(old) - (n + 1) + 1 ELSE 0
        /\ \A i \in 1..(Len(old) - (n + 1) + 1) :
             SubSeq(old, n + 1, Len(old))[i] = old[n + 1 + i - 1]
    BY <1>2, <1>5, <2>2, SubSeqProperties
  <2> QED
    BY <1>2, <1>5, <2>1, <2>3
<1>8. /\ replied'[p] \in Seq(Message)
      /\ Len(replied'[p]) = Len(replied[p]) + k
      /\ \A i \in 1..Len(replied[p]) : replied'[p][i] = replied[p][i]
      /\ \A i \in 1..k : replied'[p][Len(replied[p]) + i] = Echo(old[i])
  <2>1. replied'[p] = replied[p] \o sent
    BY <1>1, <1>4
  <2> HIDE DEF sent
  <2>2. /\ replied[p] \o sent \in Seq(Message)
        /\ Len(replied[p] \o sent) = Len(replied[p]) + k
        /\ \A i \in 1..(Len(replied[p]) + k) :
             (replied[p] \o sent)[i] = IF i <= Len(replied[p]) THEN replied[p][i]
                                       ELSE sent[i - Len(replied[p])]
    BY <1>2, <1>6, ConcatProperties
  <2>3. ASSUME NEW i \in 1..k
        PROVE  replied'[p][Len(replied[p]) + i] = Echo(old[i])
    BY <1>2, <1>5, <1>6, <2>1, <2>2
  <2> QED
    BY <1>2, <1>5, <2>1, <2>2, <2>3
<1>9. /\ accepted' = accepted
      /\ \A q \in Queues \ {p} : /\ pending'[q] = pending[q]
                                 /\ replied'[q] = replied[q]
                                 /\ dropped'[q] = dropped[q]
      /\ dropped'[p] = dropped[p] + (n - k)
  BY <1>1, <1>4
<1>10. TypeOK'
  <2>1. pending' \in [Queues -> Seq(Message)]
    BY <1>1, <1>4, <1>7
  <2>2. replied' \in [Queues -> Seq(Message)]
    BY <1>1, <1>4, <1>8
  <2>3. dropped' \in [Queues -> Nat]
    BY <1>1, <1>4, <1>5
  <2> QED
    BY <1>1, <1>9, <2>1, <2>2, <2>3 DEF TypeOK
<1> QED
  BY <1>7, <1>8, <1>9, <1>10

\* What leaves at the front is older than all that stays.
LEMMA AnswerInv ==
  ASSUME Inv, NEW p \in Queues, Answer(p)
  PROVE  Inv'
<1>1. /\ accepted \in Seq(Traffic)
      /\ pending \in [Queues -> Seq(Message)]
      /\ replied \in [Queues -> Seq(Message)]
      /\ dropped \in [Queues -> Nat]
  BY DEF Inv, TypeOK
<1> DEFINE old == pending[p]
<1>2. old \in Seq(Message) /\ Len(old) \in Nat
        /\ replied[p] \in Seq(Message) /\ Len(replied[p]) \in Nat
  BY <1>1, LenProperties
<1>3. /\ TypeOK'
      /\ accepted' = accepted
      /\ \A q \in Queues \ {p} : /\ pending'[q] = pending[q]
                                 /\ replied'[q] = replied[q]
                                 /\ dropped'[q] = dropped[q]
  BY AnswerEffect DEF Inv
<1>4. PICK n \in 1..Len(old), k \in 0..Len(old) :
        /\ k <= n
        /\ dropped'[p] = dropped[p] + (n - k)
        /\ Len(pending'[p]) = Len(old) - n
        /\ \A i \in 1..(Len(old) - n) : pending'[p][i] = old[n + i]
        /\ Len(replied'[p]) = Len(replied[p]) + k
        /\ \A i \in 1..Len(replied[p]) : replied'[p][i] = replied[p][i]
        /\ \A i \in 1..k : replied'[p][Len(replied[p]) + i] = Echo(old[i])
  <2>1. \A n \in 1..Len(old) : \A k \in 0..n : k \in 0..Len(old) /\ k <= n
    BY <1>2
  <2> QED
    BY <2>1, AnswerEffect DEF Inv
<1>5. /\ n \in Nat /\ k \in Nat /\ n <= Len(old) /\ k <= n
  BY <1>2, <1>4
<1>7. /\ Len(pending'[p]) = Len(old) - n
      /\ \A i \in 1..(Len(old) - n) : pending'[p][i] = old[n + i]
  BY <1>4
<1>8. /\ Len(replied'[p]) = Len(replied[p]) + k
      /\ \A i \in 1..Len(replied[p]) : replied'[p][i] = replied[p][i]
      /\ \A i \in 1..k : replied'[p][Len(replied[p]) + i] = Echo(old[i])
  BY <1>4
<1>9. /\ accepted' = accepted
      /\ \A q \in Queues \ {p} : /\ pending'[q] = pending[q]
                                 /\ replied'[q] = replied[q]
                                 /\ dropped'[q] = dropped[q]
      /\ dropped'[p] = dropped[p] + (n - k)
  BY <1>3, <1>4
<1> HIDE DEF old
<1>11. ASSUME NEW q \in Queues \ {p}
       PROVE  Waiting(q)' /\ Answered(q)' /\ Balance(q)'
  <2>1. Waiting(q) /\ Answered(q) /\ Balance(q)
    BY DEF Inv
  <2>2. /\ pending'[q] = pending[q] /\ replied'[q] = replied[q]
        /\ dropped'[q] = dropped[q] /\ accepted' = accepted
    BY <1>9
  <2>3. Waiting(q)'
    BY <2>1, <2>2 DEF Waiting
  <2>4. Answered(q)'
    BY <2>1, <2>2 DEF Answered
  <2>5. Balance(q)'
    BY <2>1, <2>2 DEF Balance, Entered
  <2> QED
    BY <2>3, <2>4, <2>5
<1>12. /\ Waiting(p) /\ Answered(p) /\ Balance(p)
  BY DEF Inv
<1>13. Waiting(p)'
  <2> SUFFICES ASSUME NEW i \in 1..Len(pending'[p])
               PROVE  LET id == pending'[p][i].id IN
                        /\ id \in 1..Len(accepted)
                        /\ Rss[accepted[id]] = p
                        /\ pending'[p][i].src = accepted[id].src
                        /\ pending'[p][i].dst = accepted[id].dst
                        /\ \A j \in 1..(i - 1) : pending'[p][j].id < id
                        /\ \A j \in 1..Len(replied'[p]) : replied'[p][j].id < id
    BY <1>9 DEF Waiting
  <2>1. /\ n + i \in 1..Len(old) /\ pending'[p][i] = old[n + i]
        /\ i \in 1..(Len(old) - n)
    BY <1>2, <1>5, <1>7
  <2>2. /\ old[n + i].id \in 1..Len(accepted)
        /\ Rss[accepted[old[n + i].id]] = p
        /\ old[n + i].src = accepted[old[n + i].id].src
        /\ old[n + i].dst = accepted[old[n + i].id].dst
        /\ \A j \in 1..(n + i - 1) : old[j].id < old[n + i].id
        /\ \A j \in 1..Len(replied[p]) : replied[p][j].id < old[n + i].id
    BY <1>12, <2>1 DEF Waiting, old
  <2>3. \A j \in 1..(i - 1) : pending'[p][j].id < old[n + i].id
    <3> SUFFICES ASSUME NEW j \in 1..(i - 1)
                 PROVE  pending'[p][j].id < old[n + i].id
      OBVIOUS
    <3>1. n + j \in 1..(n + i - 1) /\ j \in 1..(Len(old) - n)
      BY <1>2, <1>5, <2>1
    <3> QED
      BY <1>7, <2>2, <3>1
  <2>4. \A j \in 1..Len(replied'[p]) : replied'[p][j].id < old[n + i].id
    <3> SUFFICES ASSUME NEW j \in 1..Len(replied'[p])
                 PROVE  replied'[p][j].id < old[n + i].id
      OBVIOUS
    <3>1. CASE j <= Len(replied[p])
      <4>1. j \in 1..Len(replied[p])
        BY <1>2, <3>1
      <4> QED
        BY <1>8, <2>2, <4>1
    <3>2. CASE j > Len(replied[p])
      <4>1. j - Len(replied[p]) \in 1..k
        BY <1>2, <1>5, <1>8, <3>2
      <4>2. replied'[p][Len(replied[p]) + (j - Len(replied[p]))]
              = Echo(old[j - Len(replied[p])])
        BY <1>8, <4>1
      <4>3. Len(replied[p]) + (j - Len(replied[p])) = j
        BY <1>2, <1>8
      <4>4. replied'[p][j].id = old[j - Len(replied[p])].id
        BY <4>2, <4>3 DEF Echo
      <4>5. j - Len(replied[p]) \in 1..(n + i - 1)
        BY <1>5, <2>1, <4>1
      <4> QED
        BY <2>2, <4>4, <4>5
    <3> QED
      BY <1>2, <1>8, <3>1, <3>2
  <2> QED
    BY <2>1, <2>2, <2>3, <2>4
<1>14. Answered(p)'
  <2> SUFFICES ASSUME NEW i \in 1..Len(replied'[p])
               PROVE  LET id == replied'[p][i].id IN
                        /\ id \in 1..Len(accepted)
                        /\ Rss[accepted[id]] = p
                        /\ replied'[p][i].src = accepted[id].dst
                        /\ replied'[p][i].dst = accepted[id].src
                        /\ \A j \in 1..(i - 1) : replied'[p][j].id < id
    BY <1>9 DEF Answered
  <2>1. CASE i <= Len(replied[p])
    <3>1. i \in 1..Len(replied[p])
      BY <1>2, <1>8, <2>1
    <3>2. \A j \in 1..(i - 1) : j \in 1..Len(replied[p])
      BY <1>2, <3>1
    <3> QED
      BY <1>8, <1>12, <3>1, <3>2 DEF Answered
  <2>2. CASE i > Len(replied[p])
    <3> DEFINE m == i - Len(replied[p])
    <3>1. m \in 1..k /\ Len(replied[p]) + m = i /\ m \in 1..Len(old)
      <4>1. i \in 1..(Len(replied[p]) + k)
        BY <1>8
      <4> QED
        BY <1>2, <1>5, <2>2, <4>1
    <3> HIDE DEF m
    <3>2. replied'[p][i] = Echo(old[m])
      BY <1>8, <3>1
    <3>3. /\ replied'[p][i].id = old[m].id
          /\ replied'[p][i].src = old[m].dst
          /\ replied'[p][i].dst = old[m].src
      BY <3>2 DEF Echo
    <3>4. /\ old[m].id \in 1..Len(accepted)
          /\ Rss[accepted[old[m].id]] = p
          /\ old[m].src = accepted[old[m].id].src
          /\ old[m].dst = accepted[old[m].id].dst
          /\ \A j \in 1..(m - 1) : old[j].id < old[m].id
          /\ \A j \in 1..Len(replied[p]) : replied[p][j].id < old[m].id
      BY <1>12, <3>1 DEF Waiting, old
    <3>5. ASSUME NEW j \in 1..(i - 1)
          PROVE  replied'[p][j].id < old[m].id
      <4>1. CASE j <= Len(replied[p])
        <5>1. j \in 1..Len(replied[p])
          BY <1>2, <4>1
        <5> QED
          BY <1>8, <3>4, <5>1
      <4>2. CASE j > Len(replied[p])
        <5>1. /\ j - Len(replied[p]) \in 1..(m - 1)
              /\ j - Len(replied[p]) \in 1..k
              /\ Len(replied[p]) + (j - Len(replied[p])) = j
          BY <1>2, <1>5, <3>1, <4>2
        <5>2. replied'[p][j] = Echo(old[j - Len(replied[p])])
          BY <1>8, <5>1
        <5> QED
          BY <3>4, <5>1, <5>2, SMTT(30) DEF Echo
      <4> QED
        BY <1>2, <1>8, <4>1, <4>2
    <3> QED
      BY <3>3, <3>4, <3>5
  <2> QED
    BY <1>2, <1>8, <2>1, <2>2
<1>15. Balance(p)'
  <2>1. Entered(p)' = Entered(p)
    BY <1>9 DEF Entered
  <2>2. Cardinality(Entered(p)) = Len(replied[p]) + dropped[p] + Len(old)
    BY <1>12 DEF Balance, old
  <2>3. dropped[p] \in Nat
    BY <1>1
  <2>4. Cardinality(Entered(p)) =
          Len(replied'[p]) + dropped'[p] + Len(pending'[p])
    BY <1>2, <1>5, <1>7, <1>8, <1>9, <2>2, <2>3
  <2> QED
    BY <2>1, <2>4 DEF Balance
<1> QED
  BY <1>3, <1>11, <1>13, <1>14, <1>15 DEF Inv

------------------------------------------------------------------------------

\* The invariant holds at the start,
LEMMA InitInv == Init => Inv
<1> SUFFICES ASSUME Init PROVE Inv
  OBVIOUS
<1>1. TypeOK
  BY DEF Init, TypeOK
<1>2. ASSUME NEW q \in Queues PROVE Waiting(q) /\ Answered(q) /\ Balance(q)
  <2>1. /\ Len(pending[q]) = 0 /\ Len(replied[q]) = 0
        /\ dropped[q] = 0 /\ Len(accepted) = 0
    BY DEF Init
  <2>2. Entered(q) = {}
    BY <2>1 DEF Entered
  <2>3. Cardinality(Entered(q)) = 0
    BY <2>2, FS_EmptySet
  <2> QED
    BY <2>1, <2>3 DEF Waiting, Answered, Balance
<1> QED
  BY <1>1, <1>2 DEF Inv

\* every step keeps it,
LEMMA NextInv == Inv /\ [Next]_serviceVars => Inv'
<1> SUFFICES ASSUME Inv, [Next]_serviceVars PROVE Inv'
  OBVIOUS
<1>1. ASSUME NEW h \in Traffic, Accept(h) PROVE Inv'
  BY <1>1, AcceptInv
<1>2. ASSUME NEW q \in Queues, Answer(q) PROVE Inv'
  BY <1>2, AnswerInv
<1>3. CASE UNCHANGED serviceVars
  <2>1. /\ accepted' = accepted /\ pending' = pending
        /\ replied' = replied /\ dropped' = dropped
    BY <1>3 DEF serviceVars
  <2>2. TypeOK'
    BY <2>1 DEF Inv, TypeOK
  <2>3. ASSUME NEW q \in Queues PROVE (Waiting(q) /\ Answered(q) /\ Balance(q))'
    <3>1. Waiting(q)'
      BY <2>1 DEF Inv, Waiting
    <3>2. Answered(q)'
      BY <2>1 DEF Inv, Answered
    <3>3. Balance(q)'
      BY <2>1 DEF Inv, Balance, Entered
    <3> QED
      BY <3>1, <3>2, <3>3
  <2> QED
    BY <2>2, <2>3 DEF Inv
<1> QED
  BY <1>1, <1>2, <1>3 DEF Next

\* and so it always holds.
LEMMA AlwaysInv == Spec => []Inv
  BY InitInv, NextInv, PTL DEF Spec

\* Replies keep the order of the requests of their queue, none is given twice,
\* and each is the echo of its request.
THEOREM AnswersInOrder == Spec => []InOrder
<1>1. Inv => InOrder
  BY DEF Inv, Answered, InOrder
<1> QED
  BY <1>1, AlwaysInv, PTL

\* Every packet that entered a queue is answered, counted as dropped, or still
\* there.
THEOREM NothingDisappears == Spec => []Conserved
<1>1. Inv => Conserved
  BY DEF Inv, Balance, Entered, Conserved
<1> QED
  BY <1>1, AlwaysInv, PTL
==============================================================================
