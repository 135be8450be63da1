--------------------------- MODULE OwnershipLemmas ---------------------------
(***************************************************************************)
(* Lemmas about the operators of EthPort and EchoStages: what joining and  *)
(* cutting sequences of mbufs does to the sets of mbufs in them, how one   *)
(* worker may change what it holds without taking anything that another    *)
(* holds, and what the sums of counters are.  They are what the proofs     *)
(* about the servers rest on.                                              *)
(***************************************************************************)
EXTENDS EchoStages, SequenceTheorems, TLAPS

\* Two sequences joined repeat nothing if neither does and they share nothing.
LEMMA ConcatInjective ==
  ASSUME NEW S, NEW s \in Seq(S), NEW t \in Seq(S)
  PROVE  IsInjective(s \o t) <=>
           /\ IsInjective(s) /\ IsInjective(t)
           /\ Range(s) \intersect Range(t) = {}
<1> DEFINE u == s \o t
<1>1. /\ Len(s) \in Nat /\ Len(t) \in Nat
      /\ DOMAIN s = 1..Len(s) /\ DOMAIN t = 1..Len(t)
  BY LenProperties
<1>2. /\ u \in Seq(S)
      /\ Len(u) = Len(s) + Len(t)
      /\ \A i \in 1..Len(s) + Len(t) :
           u[i] = IF i <= Len(s) THEN s[i] ELSE t[i - Len(s)]
  BY ConcatProperties
<1>3. DOMAIN u = 1..(Len(s) + Len(t))
  BY <1>2, LenProperties
<1>4. \A i \in 1..Len(s) : i \in DOMAIN u /\ u[i] = s[i]
  BY <1>1, <1>2, <1>3
<1>5. \A j \in 1..Len(t) : j + Len(s) \in DOMAIN u /\ u[j + Len(s)] = t[j]
  BY <1>1, <1>2, <1>3
<1>6. ASSUME IsInjective(u)
      PROVE  IsInjective(s) /\ IsInjective(t) /\ Range(s) \intersect Range(t) = {}
  <2>1. \A a, b \in DOMAIN u : u[a] = u[b] => a = b
    BY <1>6, Zenon DEF IsInjective
  <2>2. \A a, b \in 1..Len(s) : s[a] = s[b] => a = b
    BY <1>4, <2>1
  <2>3. \A a, b \in 1..Len(t) : t[a] = t[b] => a = b
    <3> SUFFICES ASSUME NEW a \in 1..Len(t), NEW b \in 1..Len(t), t[a] = t[b]
                 PROVE  a = b
      OBVIOUS
    <3>1. a + Len(s) = b + Len(s)
      BY <1>5, <2>1
    <3> QED
      BY <3>1, <1>1
  <2>4. \A a \in 1..Len(s), b \in 1..Len(t) : s[a] # t[b]
    <3> SUFFICES ASSUME NEW a \in 1..Len(s), NEW b \in 1..Len(t), s[a] = t[b]
                 PROVE  FALSE
      OBVIOUS
    <3>1. a = b + Len(s)
      BY <1>4, <1>5, <2>1
    <3> QED
      BY <3>1, <1>1
  <2> QED
    BY <1>1, <2>2, <2>3, <2>4, Zenon DEF IsInjective, Range
<1>7. ASSUME IsInjective(s), IsInjective(t), Range(s) \intersect Range(t) = {}
      PROVE  IsInjective(u)
  <2>1. \A a, b \in 1..Len(s) : s[a] = s[b] => a = b
    BY <1>7, <1>1, Zenon DEF IsInjective
  <2>2. \A a, b \in 1..Len(t) : t[a] = t[b] => a = b
    BY <1>7, <1>1, Zenon DEF IsInjective
  <2>3. \A a \in 1..Len(s), b \in 1..Len(t) : s[a] # t[b]
    BY <1>7, <1>1 DEF Range
  <2>4. ASSUME NEW a \in 1..(Len(s) + Len(t)), NEW b \in 1..(Len(s) + Len(t)),
               u[a] = u[b]
        PROVE  a = b
    <3>1. CASE a <= Len(s) /\ b <= Len(s)
      BY <3>1, <2>4, <2>1, <1>1, <1>2
    <3>2. CASE a <= Len(s) /\ ~(b <= Len(s))
      BY <3>2, <2>4, <2>3, <1>1, <1>2
    <3>3. CASE ~(a <= Len(s)) /\ b <= Len(s)
      BY <3>3, <2>4, <2>3, <1>1, <1>2
    <3>4. CASE ~(a <= Len(s)) /\ ~(b <= Len(s))
      <4>1. /\ a - Len(s) \in 1..Len(t) /\ b - Len(s) \in 1..Len(t)
            /\ t[a - Len(s)] = t[b - Len(s)]
        BY <3>4, <2>4, <1>1, <1>2
      <4>2. a - Len(s) = b - Len(s)
        BY <4>1, <2>2
      <4> QED
        BY <4>2, <1>1
    <3> QED
      BY <3>1, <3>2, <3>3, <3>4
  <2> QED
    BY <1>3, <2>4, Zenon DEF IsInjective
<1> QED
  BY <1>6, <1>7

\* The same of the three parts in which a worker holds its mbufs.
LEMMA ThreeParts ==
  ASSUME NEW S, NEW s \in Seq(S), NEW t \in Seq(S), NEW u \in Seq(S)
  PROVE  /\ Range(s \o t \o u) = Range(s) \union Range(t) \union Range(u)
         /\ IsInjective(s \o t \o u) <=>
              /\ IsInjective(s) /\ IsInjective(t) /\ IsInjective(u)
              /\ Range(s) \intersect Range(t) = {}
              /\ Range(s) \intersect Range(u) = {}
              /\ Range(t) \intersect Range(u) = {}
<1> DEFINE st == s \o t
<1>1. /\ st \in Seq(S)
      /\ Range(st) = Range(s) \union Range(t)
      /\ IsInjective(st) <=> /\ IsInjective(s) /\ IsInjective(t)
                             /\ Range(s) \intersect Range(t) = {}
  BY ConcatProperties, RangeConcatenation, ConcatInjective
<1> HIDE DEF st
<1>2. /\ Range(st \o u) = Range(st) \union Range(u)
      /\ IsInjective(st \o u) <=> /\ IsInjective(st) /\ IsInjective(u)
                                  /\ Range(st) \intersect Range(u) = {}
  BY <1>1, RangeConcatenation, ConcatInjective
<1>3. Range(st) \intersect Range(u) = {} <=>
        /\ Range(s) \intersect Range(u) = {}
        /\ Range(t) \intersect Range(u) = {}
  BY <1>1
<1> QED
  BY <1>1, <1>2, <1>3 DEF st

\* A sequence cut in two keeps its elements and their order.
LEMMA CutInTwo ==
  ASSUME NEW S, NEW s \in Seq(S), NEW n \in 0..Len(s)
  PROVE  /\ SubSeq(s, 1, n) \in Seq(S)
         /\ Len(SubSeq(s, 1, n)) = n
         /\ SubSeq(s, n + 1, Len(s)) \in Seq(S)
         /\ Len(SubSeq(s, n + 1, Len(s))) = Len(s) - n
         /\ SubSeq(s, 1, n) \o SubSeq(s, n + 1, Len(s)) = s
<1>1. Len(s) \in Nat /\ n \in Int /\ \A i \in 1..Len(s) : s[i] \in S
  BY LenProperties, ElementOfSeq
<1>2. /\ SubSeq(s, 1, n) \in Seq(S)
      /\ Len(SubSeq(s, 1, n)) = IF 1 <= n THEN n - 1 + 1 ELSE 0
  BY <1>1, SubSeqProperties
<1>3. /\ SubSeq(s, n + 1, Len(s)) \in Seq(S)
      /\ Len(SubSeq(s, n + 1, Len(s))) =
           IF n + 1 <= Len(s) THEN Len(s) - (n + 1) + 1 ELSE 0
  BY <1>1, SubSeqProperties
<1>4. SubSeq(s, 1, n) \o SubSeq(s, n + 1, Len(s)) = SubSeq(s, 1, Len(s))
  <2>1. 1 \in 1..Len(s)+1 /\ n \in 1-1..Len(s) /\ Len(s) \in n..Len(s)
    BY <1>1
  <2> QED
    BY <2>1, ConcatAdjacentSubSeq
<1>5. SubSeq(s, 1, Len(s)) = s
  BY SubSeqFull
<1> DEFINE front == SubSeq(s, 1, n)
           back == SubSeq(s, n + 1, Len(s))
           length == Len(s)
<1>6. /\ Len(front) = IF 1 <= n THEN n - 1 + 1 ELSE 0
      /\ Len(back) = IF n + 1 <= length THEN length - (n + 1) + 1 ELSE 0
      /\ length \in Nat /\ n \in 0..length
  BY <1>1, <1>2, <1>3
<1> HIDE DEF front, back, length
<1>7. Len(front) = n /\ Len(back) = length - n
  BY <1>6
<1> QED
  BY <1>2, <1>3, <1>4, <1>5, <1>7 DEF front, back, length

\* A sequence of one mbuf.
LEMMA Singleton ==
  ASSUME NEW S, NEW m \in S
  PROVE  /\ <<m>> \in Seq(S)
         /\ Len(<<m>>) = 1
         /\ <<m>>[1] = m
         /\ Range(<<m>>) = {m}
         /\ IsInjective(<<m>>)
<1>1. <<m>> \in Seq(S) /\ Len(<<m>>) = 1 /\ <<m>>[1] = m
  OBVIOUS
<1>2. DOMAIN <<m>> = {1}
  BY <1>1, LenProperties
<1> QED
  BY <1>1, <1>2, Zenon DEF Range, IsInjective

\* A nonempty sequence is its head and its tail.
LEMMA HeadAndTail ==
  ASSUME NEW S, NEW s \in Seq(S), s # <<>>
  PROVE  /\ Head(s) \in S
         /\ <<Head(s)>> \in Seq(S)
         /\ Range(<<Head(s)>>) = {Head(s)}
         /\ Tail(s) \in Seq(S)
         /\ Len(s) = 1 + Len(Tail(s))
         /\ <<Head(s)>> \o Tail(s) = s
<1>1. /\ Head(s) \in S /\ Tail(s) \in Seq(S) /\ Len(s) \in Nat \ {0}
      /\ Len(Tail(s)) = Len(s) - 1
      /\ \A i \in 1..Len(Tail(s)) : Tail(s)[i] = s[i + 1]
  BY HeadTailProperties, EmptySeq
<1>2. Head(s) = s[1]
  OBVIOUS
<1> DEFINE h == <<Head(s)>>
           t == Tail(s)
<1>3. h \in Seq(S) /\ Len(h) = 1 /\ h[1] = s[1] /\ Range(h) = {Head(s)}
  BY <1>1, <1>2, Singleton
<1>4. /\ t \in Seq(S) /\ Len(s) \in Nat \ {0} /\ Len(t) = Len(s) - 1
      /\ \A i \in 1..Len(t) : t[i] = s[i + 1]
  BY <1>1
<1> HIDE DEF h, t
<1>5. /\ h \o t \in Seq(S)
      /\ Len(h \o t) = Len(h) + Len(t)
      /\ \A i \in 1..Len(h) + Len(t) :
           (h \o t)[i] = IF i <= Len(h) THEN h[i] ELSE t[i - Len(h)]
  BY <1>3, <1>4, ConcatProperties, ZenonT(30)
<1>6. \A i \in 1..Len(s) : (h \o t)[i] = s[i]
  BY <1>3, <1>4, <1>5
<1>7. h \o t = s
  BY <1>3, <1>4, <1>5, <1>6, SeqEqual
<1> QED
  BY <1>1, <1>3, <1>4, <1>7 DEF h, t

\* The elements of a concatenation.
LEMMA RangeJoin ==
  ASSUME NEW S, NEW s \in Seq(S), NEW t \in Seq(S)
  PROVE  Range(s \o t) = Range(s) \union Range(t)
BY RangeConcatenation

\* The elements of a sequence that has grown at its right end.
LEMMA RangeAppend ==
  ASSUME NEW S, NEW s \in Seq(S), NEW m \in S
  PROVE  Range(Append(s, m)) = Range(s) \union {m}
<1> DEFINE one == <<m>>
<1>1. one \in Seq(S) /\ Range(one) = {m} /\ Append(s, m) = s \o one
  BY Singleton, AppendIsConcat
<1> HIDE DEF one
<1> QED
  BY <1>1, RangeJoin

\* The elements of a sequence are its head and those of its tail.
LEMMA RangeOfTail ==
  ASSUME NEW S, NEW s \in Seq(S), s # <<>>
  PROVE  /\ Range(s) = {Head(s)} \union Range(Tail(s))
         /\ IsInjective(s) => Head(s) \notin Range(Tail(s))
<1> DEFINE one == <<Head(s)>>
           rest == Tail(s)
<1>1. /\ one \in Seq(S) /\ Range(one) = {Head(s)} /\ rest \in Seq(S)
      /\ one \o rest = s
  BY HeadAndTail
<1> HIDE DEF one, rest
<1>2. one \in Seq(S) /\ rest \in Seq(S)
  BY <1>1
<1>3. Range(one \o rest) = Range(one) \union Range(rest)
  BY <1>2, RangeJoin
<1>4. IsInjective(one \o rest) => Range(one) \intersect Range(rest) = {}
  BY <1>2, ConcatInjective
<1> QED
  BY <1>1, <1>3, <1>4 DEF rest

\* An mbuf enters at the right end.
LEMMA EnterRight ==
  ASSUME NEW S, NEW s \in Seq(S), NEW t \in Seq(S), NEW u \in Seq(S),
         NEW m \in S, IsInjective(s \o t \o u), m \notin Range(s \o t \o u)
  PROVE  /\ Append(u, m) \in Seq(S)
         /\ Range(s \o t \o Append(u, m)) = Range(s \o t \o u) \union {m}
         /\ IsInjective(s \o t \o Append(u, m))
<1> DEFINE v == Append(u, m)
           one == <<m>>
<1>1. /\ one \in Seq(S) /\ Range(one) = {m} /\ IsInjective(one)
      /\ v \in Seq(S) /\ v = u \o one
  BY Singleton, AppendProperties, AppendIsConcat
<1> HIDE DEF v, one
<1>2. /\ Range(s \o t \o u) = Range(s) \union Range(t) \union Range(u)
      /\ IsInjective(s) /\ IsInjective(t) /\ IsInjective(u)
      /\ Range(s) \intersect Range(t) = {}
      /\ Range(s) \intersect Range(u) = {}
      /\ Range(t) \intersect Range(u) = {}
  BY ThreeParts
<1>3. Range(v) = Range(u) \union {m} /\ IsInjective(v)
  <2>1. Range(u) \intersect Range(one) = {}
    BY <1>1, <1>2
  <2> QED
    BY <1>1, <1>2, <2>1, RangeConcatenation, ConcatInjective
<1>4. /\ Range(s) \intersect Range(v) = {}
      /\ Range(t) \intersect Range(v) = {}
  BY <1>2, <1>3
<1>5. v \in Seq(S)
  BY <1>1
<1>6. /\ Range(s \o t \o v) = Range(s) \union Range(t) \union Range(v)
      /\ IsInjective(s \o t \o v)
  <2>1. /\ IsInjective(s) /\ IsInjective(t) /\ IsInjective(v)
        /\ Range(s) \intersect Range(t) = {}
    BY <1>2, <1>3
  <2> QED
    BY <1>4, <1>5, <2>1, ThreeParts
<1> QED
  BY <1>2, <1>3, <1>5, <1>6 DEF v

\* The oldest mbuf leaves at the left end.
LEMMA LeaveLeft ==
  ASSUME NEW S, NEW s \in Seq(S), NEW t \in Seq(S), NEW u \in Seq(S),
         s # <<>>, IsInjective(s \o t \o u)
  PROVE  /\ Range(s \o t \o u) = Range(Tail(s) \o t \o u) \union {Head(s)}
         /\ Head(s) \notin Range(Tail(s) \o t \o u)
         /\ IsInjective(Tail(s) \o t \o u)
<1> DEFINE one == <<Head(s)>>
           rest == Tail(s)
<1>1. /\ one \in Seq(S) /\ rest \in Seq(S)
      /\ Range(one) = {Head(s)} /\ one \o rest = s
  BY HeadAndTail
<1> HIDE DEF one, rest
<1>2. /\ Range(s \o t \o u) = Range(s) \union Range(t) \union Range(u)
      /\ IsInjective(s) /\ IsInjective(t) /\ IsInjective(u)
      /\ Range(s) \intersect Range(t) = {}
      /\ Range(s) \intersect Range(u) = {}
      /\ Range(t) \intersect Range(u) = {}
  BY ThreeParts
<1>3. /\ Range(s) = Range(rest) \union {Head(s)}
      /\ Head(s) \notin Range(rest)
      /\ IsInjective(rest)
  <2>0. one \in Seq(S) /\ rest \in Seq(S)
    BY <1>1
  <2>1. Range(one \o rest) = Range(one) \union Range(rest)
    BY <2>0, RangeConcatenation
  <2>2. IsInjective(rest) /\ Range(one) \intersect Range(rest) = {}
    BY <1>1, <1>2, ConcatInjective
  <2> QED
    BY <1>1, <2>1, <2>2
<1>4. /\ Range(rest) \intersect Range(t) = {}
      /\ Range(rest) \intersect Range(u) = {}
  BY <1>2, <1>3
<1>5. rest \in Seq(S)
  BY <1>1
<1>6. /\ Range(rest \o t \o u) = Range(rest) \union Range(t) \union Range(u)
      /\ IsInjective(rest \o t \o u)
  <2>1. /\ IsInjective(rest) /\ IsInjective(t) /\ IsInjective(u)
        /\ Range(t) \intersect Range(u) = {}
    BY <1>2, <1>3
  <2> QED
    BY <1>4, <1>5, <2>1, ThreeParts
<1> QED
  BY <1>2, <1>3, <1>6 DEF rest

\* The first n mbufs of the middle part join the left one, the others leave.
LEMMA LeaveMiddle ==
  ASSUME NEW S, NEW s \in Seq(S), NEW t \in Seq(S), NEW u \in Seq(S),
         NEW n \in 0..Len(t), IsInjective(s \o t \o u)
  PROVE  LET front == SubSeq(t, 1, n)
             back == SubSeq(t, n + 1, Len(t))
         IN  /\ s \o front \in Seq(S)
             /\ Range(s \o t \o u)
                  = Range((s \o front) \o <<>> \o u) \union Range(back)
             /\ Range((s \o front) \o <<>> \o u) \intersect Range(back) = {}
             /\ IsInjective((s \o front) \o <<>> \o u)
<1> DEFINE front == SubSeq(t, 1, n)
           back == SubSeq(t, n + 1, Len(t))
           left == s \o front
<1>1. front \in Seq(S) /\ back \in Seq(S) /\ front \o back = t
  BY CutInTwo
<1> HIDE DEF front, back
<1>2. /\ Range(s \o t \o u) = Range(s) \union Range(t) \union Range(u)
      /\ IsInjective(s) /\ IsInjective(t) /\ IsInjective(u)
      /\ Range(s) \intersect Range(t) = {}
      /\ Range(s) \intersect Range(u) = {}
      /\ Range(t) \intersect Range(u) = {}
  BY ThreeParts
<1>3. /\ Range(t) = Range(front) \union Range(back)
      /\ IsInjective(front) /\ Range(front) \intersect Range(back) = {}
  <2>1. Range(front \o back) = Range(front) \union Range(back)
    BY <1>1, RangeConcatenation, ZenonT(30)
  <2>2. IsInjective(front) /\ Range(front) \intersect Range(back) = {}
    BY <1>1, <1>2, ConcatInjective
  <2> QED
    BY <1>1, <2>1, <2>2
<1>4. /\ left \in Seq(S)
      /\ Range(left) = Range(s) \union Range(front)
      /\ IsInjective(left)
  <2>1. Range(s) \intersect Range(front) = {}
    BY <1>2, <1>3
  <2> QED
    BY <1>1, <1>2, <1>3, <2>1, ConcatProperties, RangeConcatenation, ConcatInjective
<1> HIDE DEF left
<1>5. left \o <<>> = left
  BY <1>4, ConcatEmptySeq
<1>6. Range(left) \intersect Range(u) = {}
  BY <1>2, <1>3, <1>4
<1>7. /\ Range(left \o <<>> \o u) = Range(left) \union Range(u)
      /\ IsInjective(left \o <<>> \o u)
  BY <1>2, <1>4, <1>5, <1>6, RangeConcatenation, ConcatInjective
<1>8. /\ Range(s \o t \o u) = Range(left \o <<>> \o u) \union Range(back)
      /\ Range(left \o <<>> \o u) \intersect Range(back) = {}
  BY <1>2, <1>3, <1>4, <1>7
<1> QED
  BY <1>4, <1>7, <1>8, Zenon DEF left, front, back

\* The first n mbufs of the right part become the middle one, which was empty.
LEMMA EnterMiddle ==
  ASSUME NEW S, NEW s \in Seq(S), NEW u \in Seq(S), NEW n \in 0..Len(u)
  PROVE  /\ SubSeq(u, 1, n) \in Seq(S)
         /\ SubSeq(u, n + 1, Len(u)) \in Seq(S)
         /\ s \o SubSeq(u, 1, n) \o SubSeq(u, n + 1, Len(u)) = s \o <<>> \o u
<1> DEFINE front == SubSeq(u, 1, n)
           back == SubSeq(u, n + 1, Len(u))
<1>1. front \in Seq(S) /\ back \in Seq(S) /\ front \o back = u
  BY CutInTwo
<1> HIDE DEF front, back
<1>2. s \o front \o back = s \o (front \o back)
  <2>1. front \in Seq(S) /\ back \in Seq(S)
    BY <1>1
  <2> QED
    BY <2>1, ConcatAssociative, SMTT(30)
<1>3. s \o <<>> = s
  BY ConcatEmptySeq
<1> QED
  BY <1>1, <1>2, <1>3 DEF front, back

\* A worker may do what it likes with its own mbufs and the free ones: as long
\* as no mbuf is lost or doubled between the two, nobody else is affected.
LEMMA OneWorkerMoves ==
  ASSUME NEW held, NEW free, NEW held2, NEW free2, NEW q \in Queues,
         OwnedOnce(held, free),
         \A r \in Queues \ {q} : held2[r] = held[r],
         IsInjective(held2[q]),
         Range(held2[q]) \union free2 = Range(held[q]) \union free,
         Range(held2[q]) \intersect free2 = {}
  PROVE  OwnedOnce(held2, free2)
<1> DEFINE Has(r) == Range(held[r])
           Has2(r) == Range(held2[r])
<1>1. /\ Mbufs = free \union UNION {Has(r) : r \in Queues}
      /\ \A r \in Queues : IsInjective(held[r]) /\ Has(r) \intersect free = {}
      /\ \A r, t \in Queues : r # t => Has(r) \intersect Has(t) = {}
  BY DEF OwnedOnce
<1>2. \A r \in Queues \ {q} : Has2(r) = Has(r)
  OBVIOUS
<1>3. Has2(q) \union free2 = Has(q) \union free /\ Has2(q) \intersect free2 = {}
  OBVIOUS
<1>4. \A r \in Queues : IsInjective(held2[r])
  BY <1>1
<1> HIDE DEF Has, Has2
<1>5. Mbufs = free2 \union UNION {Has2(r) : r \in Queues}
  BY <1>1, <1>2, <1>3
<1>6. \A r \in Queues : Has2(r) \intersect free2 = {}
  BY <1>1, <1>2, <1>3
<1>7. \A r, t \in Queues : r # t => Has2(r) \intersect Has2(t) = {}
  BY <1>1, <1>2, <1>3
<1> QED
  BY <1>4, <1>5, <1>6, <1>7 DEF OwnedOnce, Has2

\* Counters are added field by field.
LEMMA PlusCounters ==
  ASSUME NEW s \in Counters, NEW t \in Counters
  PROVE  /\ Plus(s, t) \in Counters
         /\ Plus(s, t).rx_packets = s.rx_packets + t.rx_packets
         /\ Plus(s, t).tx_packets = s.tx_packets + t.tx_packets
         /\ Plus(s, t).tx_drops = s.tx_drops + t.tx_drops
<1>1. /\ DOMAIN s = {"rx_packets", "tx_packets", "tx_drops"}
      /\ s.rx_packets \in Nat /\ s.tx_packets \in Nat /\ s.tx_drops \in Nat
      /\ t.rx_packets \in Nat /\ t.tx_packets \in Nat /\ t.tx_drops \in Nat
  BY DEF Counters
<1> QED
  BY <1>1 DEF Plus, Counters

\* Counters only grow.
LEMMA RxCounterGrows ==
  ASSUME NEW s \in Counters, NEW n \in Nat
  PROVE  /\ [s EXCEPT !.rx_packets = @ + n] \in Counters
         /\ [s EXCEPT !.rx_packets = @ + n].rx_packets = s.rx_packets + n
         /\ [s EXCEPT !.rx_packets = @ + n].tx_packets = s.tx_packets
         /\ [s EXCEPT !.rx_packets = @ + n].tx_drops = s.tx_drops
BY DEF Counters

\* The same for what a transmission counts.
LEMMA TxCountersGrow ==
  ASSUME NEW s \in Counters, NEW n \in Nat, NEW drops \in Nat
  PROVE  LET s2 == [s EXCEPT !.tx_packets = @ + n, !.tx_drops = @ + drops]
         IN  /\ s2 \in Counters
             /\ s2.rx_packets = s.rx_packets
             /\ s2.tx_packets = s.tx_packets + n
             /\ s2.tx_drops = s.tx_drops + drops
<1> DEFINE s1 == [s EXCEPT !.tx_packets = @ + n]
           s2 == [s EXCEPT !.tx_packets = @ + n, !.tx_drops = @ + drops]
<1>1. s2.rx_packets = s.rx_packets
  BY DEF Counters
<1>2. s2.tx_packets = s.tx_packets + n
  BY DEF Counters
<1>3. s2.tx_drops = s.tx_drops + drops
  BY DEF Counters
<1>4. s2 = [s1 EXCEPT !.tx_drops = @ + drops]
  BY DEF Counters
<1>5. s1 \in Counters
  BY DEF Counters
<1> HIDE DEF s1
<1>6. [s1 EXCEPT !.tx_drops = @ + drops] \in Counters
  BY <1>5 DEF Counters
<1> QED
  BY <1>1, <1>2, <1>3, <1>4, <1>6

\* The counters of one worker add up: s those of the running interval, p those
\* of the intervals before it, with a batch under way and so many packets sent.
AddsUp(p, s, batch, sent) ==
  /\ Plus(p, s).rx_packets = Plus(p, s).tx_packets + Plus(p, s).tx_drops + batch
  /\ Plus(p, s).tx_packets = sent

\* AddsUp, with the sums of the two intervals written out.
LEMMA AddsUpByParts ==
  ASSUME NEW p \in Counters, NEW s \in Counters, NEW batch, NEW sent
  PROVE  AddsUp(p, s, batch, sent) <=>
           /\ p.rx_packets + s.rx_packets
                = (p.tx_packets + s.tx_packets) + (p.tx_drops + s.tx_drops) + batch
           /\ p.tx_packets + s.tx_packets = sent
BY PlusCounters DEF AddsUp

\* A poll brings in a batch.
LEMMA AddsUpAfterPoll ==
  ASSUME NEW p \in Counters, NEW s \in Counters, NEW sent \in Nat,
         NEW n \in Nat, AddsUp(p, s, 0, sent)
  PROVE  AddsUp(p, [s EXCEPT !.rx_packets = @ + n], n, sent)
<1> DEFINE s1 == [s EXCEPT !.rx_packets = @ + n]
<1>1. /\ s1 \in Counters
      /\ s1.rx_packets = s.rx_packets + n
      /\ s1.tx_packets = s.tx_packets
      /\ s1.tx_drops = s.tx_drops
  BY RxCounterGrows
<1> HIDE DEF s1
<1>2. /\ p.rx_packets \in Nat /\ p.tx_packets \in Nat /\ p.tx_drops \in Nat
      /\ s.rx_packets \in Nat /\ s.tx_packets \in Nat /\ s.tx_drops \in Nat
  BY DEF Counters
<1>3. /\ p.rx_packets + s.rx_packets
           = (p.tx_packets + s.tx_packets) + (p.tx_drops + s.tx_drops) + 0
      /\ p.tx_packets + s.tx_packets = sent
  BY AddsUpByParts
<1>4. /\ p.rx_packets + s1.rx_packets
           = (p.tx_packets + s1.tx_packets) + (p.tx_drops + s1.tx_drops) + n
      /\ p.tx_packets + s1.tx_packets = sent
  BY <1>1, <1>2, <1>3
<1>5. AddsUp(p, s1, n, sent)
  BY <1>1, <1>4, AddsUpByParts
<1> QED
  BY <1>5 DEF s1

\* The batch is sent up to n and dropped from there on.
LEMMA AddsUpAfterSend ==
  ASSUME NEW p \in Counters, NEW s \in Counters, NEW batch \in Nat,
         NEW sent \in Nat, NEW n \in 0..batch, AddsUp(p, s, batch, sent)
  PROVE  AddsUp(p, [s EXCEPT !.tx_packets = @ + n, !.tx_drops = @ + (batch - n)],
                0, sent + n)
<1> DEFINE rest == batch - n
           s1 == [s EXCEPT !.tx_packets = @ + n, !.tx_drops = @ + rest]
<1>0. n \in Nat /\ rest \in Nat /\ n + rest = batch
  OBVIOUS
<1> HIDE DEF rest
<1>1. /\ s1 \in Counters
      /\ s1.rx_packets = s.rx_packets
      /\ s1.tx_packets = s.tx_packets + n
      /\ s1.tx_drops = s.tx_drops + rest
  BY <1>0, TxCountersGrow, Zenon
<1> HIDE DEF s1
<1>2. /\ p.rx_packets \in Nat /\ p.tx_packets \in Nat /\ p.tx_drops \in Nat
      /\ s.rx_packets \in Nat /\ s.tx_packets \in Nat /\ s.tx_drops \in Nat
  BY DEF Counters
<1>3. /\ p.rx_packets + s.rx_packets
           = (p.tx_packets + s.tx_packets) + (p.tx_drops + s.tx_drops) + batch
      /\ p.tx_packets + s.tx_packets = sent
  BY AddsUpByParts
<1>4. p.tx_packets + s1.tx_packets = sent + n
  BY <1>0, <1>1, <1>2, <1>3
<1>6. p.rx_packets + s1.rx_packets
        = (p.tx_packets + s1.tx_packets) + (p.tx_drops + s1.tx_drops) + 0
  <2> DEFINE a == p.rx_packets   b == p.tx_packets   c == p.tx_drops
             d == s.rx_packets   e == s.tx_packets   f == s.tx_drops
  <2>1. /\ a \in Nat /\ b \in Nat /\ c \in Nat
        /\ d \in Nat /\ e \in Nat /\ f \in Nat
        /\ a + d = (b + e) + (c + f) + batch
    BY <1>2, <1>3
  <2> HIDE DEF a, b, c, d, e, f
  <2>2. a + d = (b + (e + n)) + (c + (f + rest)) + 0
    BY <1>0, <2>1
  <2> QED
    BY <1>1, <2>2 DEF a, b, c, d, e, f
<1>5. AddsUp(p, s1, 0, sent + n)
  BY <1>1, <1>4, <1>6, AddsUpByParts
<1> QED
  BY <1>5 DEF s1, rest

\* A report moves the counters of the interval to those printed.
LEMMA AddsUpAfterReport ==
  ASSUME NEW p \in Counters, NEW s \in Counters, NEW sent \in Nat,
         AddsUp(p, s, 0, sent)
  PROVE  /\ AddsUp(Plus(p, s), ZeroCounters, 0, sent)
         /\ Plus(p, s).rx_packets = Plus(p, s).tx_packets + Plus(p, s).tx_drops
<1> DEFINE p1 == Plus(p, s)
           z == ZeroCounters
<1>1. p1 \in Counters
  BY PlusCounters
<1>2. /\ p1.rx_packets = p1.tx_packets + p1.tx_drops + 0
      /\ p1.tx_packets = sent
  BY DEF AddsUp
<1>3. /\ z \in Counters
      /\ z.rx_packets = 0 /\ z.tx_packets = 0 /\ z.tx_drops = 0
  BY DEF ZeroCounters, Counters
<1> HIDE DEF p1, z
<1>4. p1.rx_packets \in Nat /\ p1.tx_packets \in Nat /\ p1.tx_drops \in Nat
  BY <1>1 DEF Counters
<1>5. /\ p1.rx_packets + z.rx_packets
           = (p1.tx_packets + z.tx_packets) + (p1.tx_drops + z.tx_drops) + 0
      /\ p1.tx_packets + z.tx_packets = sent
  BY <1>2, <1>3, <1>4
<1>6. AddsUp(p1, z, 0, sent)
  BY <1>1, <1>3, <1>5, AddsUpByParts
<1>7. p1.rx_packets = p1.tx_packets + p1.tx_drops
  BY <1>2, <1>4
<1> QED
  BY <1>6, <1>7 DEF p1, z

------------------------------------------------------------------------------
(* What the checksum fields of a packet hold on its way through a server.  *)

\* The state in which the checksum stage hands a packet on, and the one in
\* which the NIC sends it.
Finished == IF checksum_mode = "offload" THEN "pseudo"
            ELSE IF checksum_mode = "none" THEN "zero" ELSE "good"
OnTheWire == IF checksum_mode = "none" THEN "zero" ELSE "good"

\* The checksum stage finishes a packet whose fields were right.
LEMMA StageFinishes ==
  ASSUME checksum_mode \in Modes, NEW p \in Packet, p.cksum = "good"
  PROVE  FixChecksum(checksum_mode, p).cksum = Finished
<1>1. checksum_mode \in {"software", "offload", "preserve", "none"}
  BY WorkerAssumption
<1> QED
  BY <1>1 DEF FixChecksum, Finished, Packet

\* The exchange of the endpoints leaves the fields alone.
LEMMA SwapKeepsFields ==
  ASSUME NEW p \in Packet
  PROVE  SwapEndpoints(p).cksum = p.cksum
BY DEF SwapEndpoints, Packet

\* The NIC completes what the offload mode has left to it.
LEMMA NicCompletes ==
  ASSUME NEW p \in Packet, p.cksum = Finished
  PROVE  OnWire(p).cksum = OnTheWire /\ OnWire(p) \in Packet
BY DEF OnWire, Finished, OnTheWire, Packet, CksumState

\* A wire on which every packet is right stays so when a right one is added.
LEMMA WireGrows ==
  ASSUME NEW w \in Seq(Packet), NEW p \in Packet, p.cksum = OnTheWire,
         \A i \in 1..Len(w) : w[i].cksum = OnTheWire
  PROVE  \A i \in 1..Len(Append(w, p)) : Append(w, p)[i].cksum = OnTheWire
<1>1. /\ Len(w) \in Nat /\ Len(Append(w, p)) = Len(w) + 1
      /\ \A i \in 1..Len(w) : Append(w, p)[i] = w[i]
      /\ Append(w, p)[Len(w) + 1] = p
  BY AppendProperties, LenProperties
<1> HIDE DEF OnTheWire
<1>2. SUFFICES ASSUME NEW i \in 1..(Len(w) + 1)
               PROVE  Append(w, p)[i].cksum = OnTheWire
  BY <1>1
<1>3. CASE i = Len(w) + 1
  BY <1>1, <1>3
<1>4. CASE i \in 1..Len(w)
  BY <1>1, <1>4
<1> QED
  BY <1>1, <1>2, <1>3, <1>4
==============================================================================
