------------------------------ MODULE DataLemmas ------------------------------
(***************************************************************************)
(* Lemmas about data that rest on no module of the program: sequences that *)
(* are the images of other sequences, as EchoService sees those of a       *)
(* server, and the sums of functions that a fold computes.                 *)
(*                                                                         *)
(* The sums need induction.  The induction theorems of the library take    *)
(* the formula to be proved as an operator, which the provers cannot       *)
(* supply; the two below take the set of what satisfies it.                *)
(***************************************************************************)
EXTENDS Integers, Sequences, Functions, SequenceTheorems, FiniteSetTheorems,
        WellFoundedInduction, TLAPS

------------------------------------------------------------------------------
(* Images of sequences.                                                    *)

\* What the sequence s shows under f.
Image(f, s) == [i \in 1..Len(s) |-> f[s[i]]]

\* All that f makes of the elements of M.
Values(f, M) == {f[m] : m \in M}

\* An image is as long as its sequence.
LEMMA ImageSeq ==
  ASSUME NEW M, NEW f, NEW s \in Seq(M)
  PROVE  Image(f, s) \in Seq(Values(f, M)) /\ Len(Image(f, s)) = Len(s)
<1> DEFINE V == Values(f, M)
<1>1. Len(s) \in Nat /\ \A i \in 1..Len(s) : f[s[i]] \in V
  BY LenProperties, ElementOfSeq DEF Values
<1> HIDE DEF V
<1>2. Image(f, s) \in [1..Len(s) -> V]
  BY <1>1 DEF Image
<1>3. Image(f, s) \in Seq(V)
  BY <1>1, <1>2, SeqDef
<1>4. Len(Image(f, s)) = Len(s)
  BY <1>1, <1>2, <1>3, LenProperties
<1> QED
  BY <1>3, <1>4 DEF V

\* An image has the values of the view it is seen under.
LEMMA ImageInto ==
  ASSUME NEW M, NEW V, NEW f \in [M -> V], NEW s \in Seq(M)
  PROVE  Image(f, s) \in Seq(V)
<1>1. Len(s) \in Nat /\ \A i \in 1..Len(s) : s[i] \in M
  BY LenProperties, ElementOfSeq
<1>2. Image(f, s) \in [1..Len(s) -> V]
  BY <1>1 DEF Image
<1> QED
  BY <1>1, <1>2, SeqDef

\* The image of a sequence in two parts is in two parts.
LEMMA ImageConcat ==
  ASSUME NEW M, NEW f, NEW s \in Seq(M), NEW t \in Seq(M)
  PROVE  Image(f, s \o t) = Image(f, s) \o Image(f, t)
<1> DEFINE V == Values(f, M)
<1>0. \A r \in Seq(M) : /\ Image(f, r) \in Seq(V) /\ Len(Image(f, r)) = Len(r)
                       /\ \A i \in 1..Len(r) : Image(f, r)[i] = f[r[i]]
  <2>1. \A r \in Seq(M) : Image(f, r) \in Seq(V) /\ Len(Image(f, r)) = Len(r)
    BY ImageSeq
  <2> QED
    BY <2>1 DEF Image
<1> HIDE DEF V
<1> DEFINE u == s \o t
           a == Image(f, s)
           b == Image(f, t)
           c == Image(f, u)
<1>1. /\ u \in Seq(M) /\ Len(u) = Len(s) + Len(t)
      /\ Len(s) \in Nat /\ Len(t) \in Nat
      /\ \A i \in 1..Len(s) + Len(t) :
           u[i] = IF i <= Len(s) THEN s[i] ELSE t[i - Len(s)]
  BY ConcatProperties, LenProperties
<1> HIDE DEF u
<1>2. a \in Seq(V) /\ Len(a) = Len(s) /\ \A i \in 1..Len(s) : a[i] = f[s[i]]
  BY <1>0
<1>3. b \in Seq(V) /\ Len(b) = Len(t) /\ \A i \in 1..Len(t) : b[i] = f[t[i]]
  BY <1>0
<1>4. c \in Seq(V) /\ Len(c) = Len(u) /\ \A i \in 1..Len(u) : c[i] = f[u[i]]
  BY <1>0, <1>1
<1> HIDE DEF a, b, c
<1> DEFINE d == a \o b
<1>5. /\ d \in Seq(V) /\ Len(d) = Len(a) + Len(b)
      /\ \A i \in 1..Len(a) + Len(b) :
           d[i] = IF i <= Len(a) THEN a[i] ELSE b[i - Len(a)]
  BY <1>2, <1>3, ConcatProperties, ZenonT(30)
<1> HIDE DEF d
<1>6. ASSUME NEW i \in 1..Len(c) PROVE c[i] = d[i]
  <2>1. CASE i <= Len(s)
    <3>1. i \in 1..Len(s) /\ i \in 1..Len(s) + Len(t) /\ i \in 1..Len(a) + Len(b)
      BY <1>1, <1>2, <1>3, <1>4, <2>1
    <3>2. c[i] = f[s[i]]
      BY <1>1, <1>4, <2>1, <3>1
    <3>3. d[i] = f[s[i]]
      BY <1>2, <1>5, <2>1, <3>1
    <3> QED
      BY <3>2, <3>3
  <2>2. CASE ~(i <= Len(s))
    <3>1. /\ i - Len(s) \in 1..Len(t)
          /\ i \in 1..Len(s) + Len(t) /\ i \in 1..Len(a) + Len(b)
      BY <1>1, <1>2, <1>3, <1>4, <2>2
    <3>2. c[i] = f[t[i - Len(s)]]
      BY <1>1, <1>4, <2>2, <3>1
    <3>3. d[i] = f[t[i - Len(s)]]
      BY <1>2, <1>3, <1>5, <2>2, <3>1
    <3> QED
      BY <3>2, <3>3
  <2> QED
    BY <2>1, <2>2
<1>7. Len(c) = Len(d)
  BY <1>1, <1>2, <1>3, <1>4, <1>5
<1>8. c = d
  BY <1>4, <1>5, <1>6, <1>7, SeqEqual
<1> QED
  BY <1>8 DEF a, b, c, d, u

\* Nothing is seen of nothing.
LEMMA ImageEmpty == \A f : Image(f, <<>>) = <<>>
<1> SUFFICES ASSUME NEW f PROVE Image(f, <<>>) = <<>>
  OBVIOUS
<1>1. Len(<<>>) = 0 /\ 1..0 = {}
  OBVIOUS
<1> QED
  BY <1>1 DEF Image

\* Only what f makes of the elements of s matters.
LEMMA ImageDepends ==
  ASSUME NEW M, NEW s \in Seq(M), NEW f, NEW g,
         \A m \in Range(s) : f[m] = g[m]
  PROVE  Image(f, s) = Image(g, s)
<1>1. \A i \in 1..Len(s) : s[i] \in Range(s)
  BY LenProperties DEF Range
<1> QED
  BY <1>1 DEF Image

\* The image of one element.
LEMMA ImageOne ==
  ASSUME NEW M, NEW f, NEW m \in M
  PROVE  Image(f, <<m>>) = <<f[m]>>
<1> DEFINE V == Values(f, M)
<1>0. f[m] \in V
  BY DEF Values
<1>1. <<m>> \in Seq(M) /\ Len(<<m>>) = 1 /\ <<m>>[1] = m
  OBVIOUS
<1>2. <<f[m]>> \in Seq(V) /\ Len(<<f[m]>>) = 1 /\ <<f[m]>>[1] = f[m]
  BY <1>0
<1> DEFINE a == Image(f, <<m>>)
           b == <<f[m]>>
<1>3. a \in Seq(V) /\ Len(a) = 1 /\ \A i \in 1..1 : a[i] = f[m]
  <2> DEFINE s == <<m>>
  <2>1. s \in Seq(M) /\ Len(s) = 1 /\ s[1] = m
    BY <1>1
  <2> HIDE DEF s
  <2>2. /\ Image(f, s) \in Seq(V) /\ Len(Image(f, s)) = Len(s)
        /\ \A i \in 1..Len(s) : Image(f, s)[i] = f[s[i]]
    BY <2>1, ImageSeq DEF Image
  <2>3. Len(Image(f, s)) = 1 /\ \A i \in 1..1 : Image(f, s)[i] = f[m]
    BY <2>1, <2>2
  <2> QED
    BY <2>2, <2>3 DEF s
<1>4. b \in Seq(V) /\ Len(b) = 1 /\ b[1] = f[m]
  BY <1>2
<1> HIDE DEF a, b
<1>5. Len(a) = Len(b) /\ \A i \in 1..Len(a) : a[i] = b[i]
  BY <1>3, <1>4
<1>6. a = b
  BY <1>3, <1>4, <1>5, SeqEqual
<1> QED
  BY <1>6 DEF a, b

\* What is left when the left part of two has been cut off.
LEMMA CutLeft ==
  ASSUME NEW S, NEW s \in Seq(S), NEW t \in Seq(S)
  PROVE  SubSeq(s \o t, Len(s) + 1, Len(s \o t)) = t
<1> DEFINE u == s \o t
           v == SubSeq(u, Len(s) + 1, Len(u))
<1>1. /\ u \in Seq(S) /\ Len(u) = Len(s) + Len(t)
      /\ Len(s) \in Nat /\ Len(t) \in Nat
      /\ \A i \in 1..Len(s) + Len(t) :
           u[i] = IF i <= Len(s) THEN s[i] ELSE t[i - Len(s)]
  BY ConcatProperties, LenProperties
<1> HIDE DEF u
<1>2. \A i \in 1..Len(u) : u[i] \in S
  BY <1>1, ElementOfSeq
<1>3. /\ v \in Seq(S) /\ Len(v) = Len(t)
      /\ \A i \in 1..Len(t) : v[i] = u[Len(s) + i]
  <2> DEFINE m == Len(s) + 1
             n == Len(u)
  <2>1. m \in Int /\ n \in Int /\ \A i \in m..n : u[i] \in S
    BY <1>1, <1>2
  <2>2. n - m + 1 = Len(t) /\ Len(s) \in Int
    BY <1>1
  <2>3. CASE m <= n
    <3>1. /\ SubSeq(u, m, n) \in Seq(S)
          /\ Len(SubSeq(u, m, n)) = n - m + 1
          /\ \A i \in 1..n - m + 1 : SubSeq(u, m, n)[i] = u[m + i - 1]
      <4> HIDE DEF m, n
      <4> QED
        BY <2>1, <2>3, SubSeqProperties
    <3>2. v \in Seq(S) /\ Len(v) = Len(t)
      BY <2>2, <3>1
    <3>3. ASSUME NEW i \in 1..Len(t) PROVE v[i] = u[Len(s) + i]
      <4>1. m + i - 1 = Len(s) + i /\ i \in 1..n - m + 1
        BY <1>1, <2>2
      <4>2. v[i] = u[m + i - 1]
        BY <3>1, <4>1
      <4> QED
        BY <4>1, <4>2, Zenon
    <3> QED
      BY <3>2, <3>3
  <2>4. CASE n < m
    <3>1. SubSeq(u, m, n) = <<>>
      <4> HIDE DEF m, n
      <4> QED
        BY <2>1, <2>4, SubSeqEmpty
    <3>2. Len(t) = 0 /\ 1..Len(t) = {}
      BY <1>1, <2>4
    <3>3. v = <<>>
      BY <3>1, Zenon
    <3>4. <<>> \in Seq(S) /\ Len(<<>>) = 0
      OBVIOUS
    <3>5. v \in Seq(S) /\ Len(v) = 0
      BY <3>3, <3>4, Zenon
    <3> QED
      BY <3>2, <3>5, Zenon
  <2> QED
    BY <2>1, <2>3, <2>4
<1> HIDE DEF v
<1>4. ASSUME NEW i \in 1..Len(t) PROVE v[i] = t[i]
  <2>1. /\ Len(s) + i \in 1..Len(s) + Len(t) /\ ~(Len(s) + i <= Len(s))
        /\ Len(s) + i - Len(s) = i
    BY <1>1
  <2> QED
    BY <1>1, <1>3, <2>1
<1>5. v = t
  BY <1>3, <1>4, SeqEqual
<1> QED
  BY <1>5 DEF u, v

\* What is left when n elements have been cut off at the front.
LEMMA CutFront ==
  ASSUME NEW S, NEW s \in Seq(S), NEW n \in 0..Len(s)
  PROVE  LET t == SubSeq(s, n + 1, Len(s)) IN
           /\ t \in Seq(S)
           /\ Len(t) = Len(s) - n
           /\ \A i \in 1..Len(t) : t[i] = s[n + i]
<1> DEFINE t == SubSeq(s, n + 1, Len(s))
<1>1. Len(s) \in Nat /\ n \in Nat /\ n <= Len(s)
  BY LenProperties
<1>2. CASE n + 1 <= Len(s)
  <2>1. \A i \in (n + 1)..Len(s) : s[i] \in S
    BY <1>1, ElementOfSeq
  <2>2. /\ t \in Seq(S)
        /\ Len(t) = Len(s) - (n + 1) + 1
        /\ \A i \in 1..(Len(s) - (n + 1) + 1) : t[i] = s[n + 1 + i - 1]
    BY <1>1, <1>2, <2>1, SubSeqProperties
  <2> QED
    BY <1>1, <2>2
<1>3. CASE ~(n + 1 <= Len(s))
  <2>1. n = Len(s)
    BY <1>1, <1>3
  <2>2. SubSeq(s, n + 1, Len(s)) = <<>>
    BY <1>1, <1>3, SubSeqEmpty
  <2> QED
    BY <1>1, <2>1, <2>2
<1> QED
  BY <1>2, <1>3

\* An element added to the right part of two is added to both.
LEMMA AppendRight ==
  ASSUME NEW S, NEW s \in Seq(S), NEW t \in Seq(S), NEW e \in S
  PROVE  s \o (t \o <<e>>) = Append(s \o t, e)
<1>1. <<e>> \in Seq(S) /\ s \o t \in Seq(S)
  BY ConcatProperties
<1>2. (s \o t) \o <<e>> = s \o (t \o <<e>>)
  BY <1>1, ConcatAssociative, SMTT(30)
<1>3. Append(s \o t, e) = (s \o t) \o <<e>>
  BY <1>1, AppendIsConcat
<1> QED
  BY <1>2, <1>3

\* An element added is seen at the end, and the first one at the beginning.
LEMMA ImageAppend ==
  ASSUME NEW M, NEW f, NEW s \in Seq(M), NEW m \in M
  PROVE  Image(f, Append(s, m)) = Image(f, s) \o <<f[m]>>
<1> DEFINE one == <<m>>
<1>1. one \in Seq(M) /\ Append(s, m) = s \o one
  BY AppendIsConcat
<1>2. Image(f, one) = <<f[m]>>
  BY ImageOne
<1> HIDE DEF one
<1>3. \A r \in Seq(M) : Image(f, s \o r) = Image(f, s) \o Image(f, r)
  BY ImageConcat
<1> QED
  BY <1>1, <1>2, <1>3

\* The first element is seen first.
LEMMA ImageHead ==
  ASSUME NEW M, NEW f, NEW s \in Seq(M), s # <<>>
  PROVE  Image(f, s) = <<f[Head(s)]>> \o Image(f, Tail(s))
<1> DEFINE one == <<Head(s)>>
           rest == Tail(s)
<1>1. Head(s) \in M /\ rest \in Seq(M)
  BY HeadTailProperties
<1>2. one \in Seq(M) /\ one \o rest = s
  <2>1. /\ Len(s) \in Nat \ {0} /\ Len(rest) = Len(s) - 1
        /\ \A i \in 1..Len(rest) : rest[i] = s[i + 1]
    BY HeadTailProperties, EmptySeq
  <2>2. Head(s) = s[1]
    OBVIOUS
  <2>3. one \in Seq(M) /\ Len(one) = 1 /\ one[1] = s[1]
    BY <1>1, <2>2
  <2> HIDE DEF one, rest
  <2> DEFINE u == one \o rest
  <2>4. /\ u \in Seq(M) /\ Len(u) = 1 + Len(rest)
        /\ \A i \in 1..1 + Len(rest) : u[i] = IF i <= 1 THEN one[i] ELSE rest[i - 1]
    <3>1. one \in Seq(M) /\ rest \in Seq(M)
      BY <1>1, <2>3
    <3>2. /\ u \in Seq(M) /\ Len(u) = Len(one) + Len(rest)
          /\ \A i \in 1..Len(one) + Len(rest) :
               u[i] = IF i <= Len(one) THEN one[i] ELSE rest[i - Len(one)]
      BY <3>1, ConcatProperties
    <3> QED
      BY <2>3, <3>2
  <2> HIDE DEF u
  <2>5. Len(u) = Len(s) /\ \A i \in 1..Len(u) : u[i] = s[i]
    BY <2>1, <2>3, <2>4
  <2>6. u = s
    BY <2>4, <2>5, SeqEqual
  <2> QED
    BY <2>3, <2>6 DEF u
<1>3. Image(f, one) = <<f[Head(s)]>>
  BY <1>1, ImageOne
<1> HIDE DEF one, rest
<1>4. Image(f, one \o rest) = Image(f, one) \o Image(f, rest)
  <2>1. one \in Seq(M) /\ rest \in Seq(M)
    BY <1>1, <1>2
  <2> QED
    BY <2>1, ImageConcat
<1>5. Image(f, s) = <<f[Head(s)]>> \o Image(f, rest)
  BY <1>2, <1>3, <1>4, Zenon
<1> QED
  BY <1>5 DEF rest

------------------------------------------------------------------------------
(* Sums.                                                                   *)

\* Induction over the natural numbers, for a set in place of a predicate.
LEMMA NatsByInduction ==
  ASSUME NEW G, 0 \in G, \A n \in Nat : n \in G => n + 1 \in G
  PROVE  Nat \subseteq G
<1> DEFINE Bad == Nat \ G
<1>1. SUFFICES ASSUME Bad # {} PROVE FALSE
  OBVIOUS
<1> DEFINE F == {0..n : n \in Bad}
<1>2. IsWellFoundedOn(StrictSubsetOrdering(Nat), FiniteSubsetsOf(Nat))
  BY FS_StrictSubsetOrderingWellFounded
<1>3. F \subseteq FiniteSubsetsOf(Nat) /\ F # {}
  <2>1. \A n \in Nat : 0..n \in FiniteSubsetsOf(Nat)
    BY FS_Interval DEF FiniteSubsetsOf
  <2> QED
    BY <1>1, <2>1
<1>4. PICK a \in F : \A b \in F : <<b, a>> \notin StrictSubsetOrdering(Nat)
  <2> HIDE DEF F
  <2> QED BY <1>2, <1>3, WFMin
<1>5. PICK n \in Bad : a = 0..n
  BY <1>4
<1>6. \A m \in Bad : ~(m < n)
  <2> SUFFICES ASSUME NEW m \in Bad, m < n PROVE FALSE
    OBVIOUS
  <2>1. 0..m \subseteq 0..n /\ 0..m # 0..n
    OBVIOUS
  <2>2. <<0..m, 0..n>> \in StrictSubsetOrdering(Nat)
    BY <2>1 DEF StrictSubsetOrdering
  <2> QED BY <1>4, <1>5, <2>2
<1>7. n # 0 /\ n - 1 \in Nat
  OBVIOUS
<1>8. n - 1 \notin Bad
  BY <1>6, <1>7
<1> QED BY <1>7, <1>8

\* Induction over the subsets of a finite set, one element at a time.
LEMMA SubsetsByInduction ==
  ASSUME NEW S, IsFiniteSet(S), NEW G, {} \in G,
         \A T \in SUBSET S : T # {} => \E x \in T : T \ {x} \in G => T \in G
  PROVE  SUBSET S \subseteq G
<1> DEFINE Bad == (SUBSET S) \ G
<1>1. SUFFICES ASSUME Bad # {} PROVE FALSE
  OBVIOUS
<1>2. IsWellFoundedOn(StrictSubsetOrdering(S), FiniteSubsetsOf(S))
  BY FS_StrictSubsetOrderingWellFounded
<1>3. Bad \subseteq FiniteSubsetsOf(S)
  BY FS_FiniteSubsetsOfFinite
<1>4. PICK T \in Bad : \A U \in Bad : <<U, T>> \notin StrictSubsetOrdering(S)
  <2> HIDE DEF Bad
  <2> QED BY <1>1, <1>2, <1>3, WFMin
<1>5. PICK x \in T : T \ {x} \in G => T \in G
  <2>1. T \in SUBSET S /\ T \notin G
    BY <1>4
  <2>2. T # {}
    BY <2>1, Zenon
  <2> QED BY <2>1, <2>2
<1>6. T \ {x} \in Bad
  BY <1>5
<1>7. <<T \ {x}, T>> \in StrictSubsetOrdering(S)
  BY <1>5 DEF StrictSubsetOrdering
<1> QED
  BY <1>4, <1>6, <1>7

\* The element of a set that the folds take first.
First(s) == CHOOSE x \in s : TRUE

\* One step of the fold that SumFunction is, and the function that the steps
\* define.
SumStep(f, g, s) == IF s = {} THEN 0 ELSE f[First(s)] + g[s \ {First(s)}]
Sums(f) == CHOOSE g : g = [s \in SUBSET DOMAIN f |-> SumStep(f, g, s)]

\* SumFunction by the recursion that its fold stands for.
LEMMA SumByFold ==
  ASSUME NEW f
  PROVE  SumFunction(f) = Sums(f)[DOMAIN f]
BY DEF SumFunction, SumFunctionOnSet, FoldFunctionOnSet, MapThenFoldSet,
       First, SumStep, Sums

\* The recursion has a solution: one that serves the sets of up to n elements is
\* extended to those of n + 1.
LEMMA SumsExist ==
  ASSUME NEW f, IsFiniteSet(DOMAIN f)
  PROVE  Sums(f) = [s \in SUBSET DOMAIN f |-> SumStep(f, Sums(f), s)]
<1> DEFINE D == DOMAIN f
           Small(n) == {s \in SUBSET D : Cardinality(s) <= n}
           Upto(n, g) == g = [s \in Small(n) |-> SumStep(f, g, s)]
           G == {n \in Nat : \E g : Upto(n, g)}
<1>0. \A s \in SUBSET D : IsFiniteSet(s) /\ Cardinality(s) \in Nat
  BY FS_Subset, FS_CardinalityType
<1>1. \A s \in SUBSET D : s # {} =>
         /\ First(s) \in s
         /\ s \ {First(s)} \in SUBSET D
         /\ Cardinality(s \ {First(s)}) = Cardinality(s) - 1
  BY <1>0, FS_RemoveElement DEF First
<1>2. 0 \in G
  <2> DEFINE g == [s \in Small(0) |-> 0]
  <2>1. \A s \in Small(0) : s = {}
    BY <1>0, FS_EmptySet
  <2>2. Upto(0, g)
    BY <2>1 DEF SumStep
  <2> QED BY <2>2
<1>3. ASSUME NEW n \in Nat, n \in G PROVE n + 1 \in G
  <2>1. PICK g : Upto(n, g)
    BY <1>3
  <2> DEFINE h == [s \in Small(n + 1) |-> SumStep(f, g, s)]
  <2>2. \A s \in Small(n + 1) : s # {} => s \ {First(s)} \in Small(n)
    BY <1>0, <1>1
  <2>3. \A s \in Small(n) : s \in Small(n + 1) /\ h[s] = g[s]
    <3>1. \A s \in Small(n) : s \in Small(n + 1)
      BY <1>0
    <3>2. \A s \in Small(n) : g[s] = SumStep(f, g, s)
      BY <2>1
    <3> QED BY <3>1, <3>2
  <2>4. \A s \in Small(n + 1) : SumStep(f, g, s) = SumStep(f, h, s)
    <3> HIDE DEF h, Small
    <3> QED
      BY <2>2, <2>3 DEF SumStep
  <2>5. Upto(n + 1, h)
    <3> HIDE DEF Small
    <3>1. DOMAIN h = Small(n + 1) /\ \A s \in Small(n + 1) : h[s] = SumStep(f, h, s)
      BY <2>4
    <3>2. h = [s \in Small(n + 1) |-> h[s]]
      OBVIOUS
    <3> HIDE DEF h
    <3> QED BY <3>1, <3>2
  <2>6. \E k : Upto(n + 1, k)
    <3> HIDE DEF h, Small
    <3> QED BY <2>5
  <2> QED BY <2>6
<1>4. Nat \subseteq G
  <2> HIDE DEF G
  <2> QED BY <1>2, <1>3, NatsByInduction
<1>5. Small(Cardinality(D)) = SUBSET D /\ Cardinality(D) \in Nat
  BY FS_Subset, FS_CardinalityType
<1>6. \E g : g = [s \in SUBSET D |-> SumStep(f, g, s)]
  BY <1>4, <1>5
<1> QED
  BY <1>6 DEF Sums

\* One step of the recursion.
LEMMA SumsUnfold ==
  ASSUME NEW f, IsFiniteSet(DOMAIN f), NEW s \in SUBSET DOMAIN f
  PROVE  /\ s = {} => Sums(f)[s] = 0
         /\ s # {} => /\ First(s) \in s
                      /\ Sums(f)[s] = f[First(s)] + Sums(f)[s \ {First(s)}]
<1> DEFINE g == Sums(f)
<1>1. g = [t \in SUBSET DOMAIN f |-> SumStep(f, g, t)]
  BY SumsExist
<1>2. g[s] = SumStep(f, g, s)
  <2> HIDE DEF g
  <2> QED BY <1>1
<1>3. s # {} => First(s) \in s
  BY DEF First
<1> QED
  BY <1>2, <1>3 DEF SumStep

\* A sum of natural numbers is one.
LEMMA SumType ==
  ASSUME NEW S, IsFiniteSet(S), NEW f \in [S -> Nat]
  PROVE  SumFunction(f) \in Nat
<1> DEFINE G == {s \in SUBSET S : Sums(f)[s] \in Nat}
<1>1. {} \in G
  BY SumsUnfold
<1>2. \A T \in SUBSET S : T # {} => \E x \in T : T \ {x} \in G => T \in G
  <2> SUFFICES ASSUME NEW T \in SUBSET S, T # {}
               PROVE  T \ {First(T)} \in G => T \in G
    BY DEF First
  <2>1. First(T) \in T /\ Sums(f)[T] = f[First(T)] + Sums(f)[T \ {First(T)}]
    BY SumsUnfold
  <2> QED
    BY <2>1
<1>3. S \in G
  <2> HIDE DEF G
  <2> QED BY <1>1, <1>2, SubsetsByInduction
<1> QED
  BY <1>3, SumByFold

\* A sum of zeros is zero.
LEMMA SumOfZeros ==
  ASSUME NEW S, IsFiniteSet(S)
  PROVE  SumFunction([x \in S |-> 0]) = 0
<1> DEFINE f == [x \in S |-> 0]
           G == {s \in SUBSET S : Sums(f)[s] = 0}
<1>1. {} \in G
  BY SumsUnfold
<1>2. \A T \in SUBSET S : T # {} => \E x \in T : T \ {x} \in G => T \in G
  <2> SUFFICES ASSUME NEW T \in SUBSET S, T # {}
               PROVE  T \ {First(T)} \in G => T \in G
    BY DEF First
  <2>1. First(T) \in T /\ Sums(f)[T] = f[First(T)] + Sums(f)[T \ {First(T)}]
    BY SumsUnfold
  <2> QED
    BY <2>1
<1>3. S \in G
  <2> HIDE DEF G
  <2> QED BY <1>1, <1>2, SubsetsByInduction
<1> QED
  BY <1>3, SumByFold

\* A sum changes by as much as its one changed term.
LEMMA SumChanges ==
  ASSUME NEW S, IsFiniteSet(S), NEW f \in [S -> Int], NEW w \in S, NEW d \in Int
  PROVE  SumFunction([f EXCEPT ![w] = @ + d]) = SumFunction(f) + d
<1> DEFINE h == [f EXCEPT ![w] = @ + d]
           G == {s \in SUBSET S :
                   /\ Sums(f)[s] \in Int
                   /\ Sums(h)[s] = Sums(f)[s] + (IF w \in s THEN d ELSE 0)}
<1>0. /\ DOMAIN f = S /\ DOMAIN h = S
      /\ \A x \in S : f[x] \in Int /\ h[x] = f[x] + (IF x = w THEN d ELSE 0)
  OBVIOUS
<1> HIDE DEF h
<1>1. {} \in G
  <2>1. {} \in SUBSET DOMAIN f /\ {} \in SUBSET DOMAIN h /\ w \notin {}
    OBVIOUS
  <2>2. Sums(f)[{}] = 0 /\ Sums(h)[{}] = 0
    BY <1>0, <2>1, SumsUnfold
  <2> QED
    BY <2>1, <2>2
<1>2. \A T \in SUBSET S : T # {} => \E x \in T : T \ {x} \in G => T \in G
  <2> SUFFICES ASSUME NEW T \in SUBSET S, T # {}, T \ {First(T)} \in G
               PROVE  T \in G
    BY DEF First
  <2>1. /\ First(T) \in T
        /\ Sums(f)[T] = f[First(T)] + Sums(f)[T \ {First(T)}]
        /\ Sums(h)[T] = h[First(T)] + Sums(h)[T \ {First(T)}]
    BY <1>0, SumsUnfold
  <2> QED
    BY <1>0, <2>1
<1>3. S \in G
  <2> HIDE DEF G
  <2> QED BY <1>1, <1>2, SubsetsByInduction
<1> QED
  BY <1>0, <1>3, SumByFold DEF h

\* The same of two functions that differ in one element.
LEMMA SumMoves ==
  ASSUME NEW S, IsFiniteSet(S), NEW f \in [S -> Int], NEW g \in [S -> Int],
         NEW w \in S, NEW d \in Int, g[w] = f[w] + d,
         \A v \in S \ {w} : g[v] = f[v]
  PROVE  SumFunction(g) = SumFunction(f) + d
<1>1. g = [f EXCEPT ![w] = @ + d]
  OBVIOUS
<1>2. SumFunction([f EXCEPT ![w] = @ + d]) = SumFunction(f) + d
  BY SumChanges
<1> QED
  BY <1>1, <1>2, Zenon

\* No term of a sum of natural numbers is above the sum.
LEMMA SumAbove ==
  ASSUME NEW S, IsFiniteSet(S), NEW f \in [S -> Nat], NEW x \in S
  PROVE  f[x] <= SumFunction(f)
<1> DEFINE g == [f EXCEPT ![x] = 0]
<1>1. g \in [S -> Nat] /\ g[x] = 0 /\ \A v \in S \ {x} : f[v] = g[v]
  OBVIOUS
<1>2. f \in [S -> Int] /\ g \in [S -> Int] /\ f[x] \in Int /\ f[x] = g[x] + f[x]
  BY <1>1
<1> HIDE DEF g
<1>3. SumFunction(f) = SumFunction(g) + f[x]
  BY <1>1, <1>2, SumMoves
<1>4. SumFunction(g) \in Nat
  BY <1>1, SumType
<1> QED
  BY <1>2, <1>3, <1>4
==============================================================================
