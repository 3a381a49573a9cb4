----------------------------- MODULE SequenceLemmas -----------------------------
(***************************************************************************)
(* Lemmas about sequences and FlattenSeq that several proofs use. What is   *)
(* defined by recursion is reasoned about by a least counterexample.        *)
(***************************************************************************)
EXTENDS Integers, Sequences, SequencesExt, SequenceTheorems, WellFoundedInduction, TLAPS

LEMMA LeastNatural ==
    ASSUME NEW T, T \subseteq Nat, T # {}
    PROVE  \E n \in T : \A k \in Nat : k < n => k \notin T
<1>1. PICK n \in T : \A k \in T : ~(<<k, n>> \in OpToRel(<, Nat))
  BY NatLessThanWellFounded, WFMin, Zenon
<1>2. \A k \in Nat : k < n => <<k, n>> \in OpToRel(<, Nat)
  BY Zenon DEF OpToRel
<1>3. QED
  BY <1>1, <1>2, Zenon

LEMMA Joined ==
    ASSUME NEW S, NEW s \in Seq(S), NEW t \in Seq(S)
    PROVE  /\ s \o t \in Seq(S)
           /\ Len(s) \in Nat /\ Len(t) \in Nat
           /\ Len(s \o t) = Len(s) + Len(t)
           /\ \A i \in 1..Len(s) : (s \o t)[i] = s[i]
           /\ \A i \in 1..Len(t) : (s \o t)[Len(s) + i] = t[i]
<1>1. Len(s) \in Nat /\ Len(t) \in Nat
  BY LenProperties
<1>2. /\ s \o t \in Seq(S)
      /\ Len(s \o t) = Len(s) + Len(t)
      /\ \A i \in 1..(Len(s) + Len(t)) : (s \o t)[i] = IF i <= Len(s) THEN s[i] ELSE t[i - Len(s)]
  BY ConcatProperties
<1>3. ASSUME NEW i \in 1..Len(s)
      PROVE  (s \o t)[i] = s[i]
  <2>1. i \in 1..(Len(s) + Len(t)) /\ i <= Len(s)
    BY <1>1
  <2>2. QED
    BY <1>2, <2>1, Zenon
<1>4. ASSUME NEW i \in 1..Len(t)
      PROVE  (s \o t)[Len(s) + i] = t[i]
  <2>1. /\ Len(s) + i \in 1..(Len(s) + Len(t)) /\ ~(Len(s) + i <= Len(s))
        /\ (Len(s) + i) - Len(s) = i
    BY <1>1
  <2>2. QED
    BY <1>2, <2>1, Zenon
<1>5. QED
  BY <1>1, <1>2, <1>3, <1>4

-------------------------------------------------------------------------------
(* FlattenSeq                                                              *)

\* f holds the concatenations of the first i sequences of seqs.
Accumulates(f, seqs) ==
    f = [i \in 1..Len(seqs) |-> IF i = 1 THEN seqs[i] ELSE f[i - 1] \o seqs[i]]

\* One more sequence: the concatenations of seqs, and the last one longer by e.
LEMMA AccumulateMore ==
    ASSUME NEW S, NEW seqs \in Seq(Seq(S)), seqs # <<>>, NEW e \in Seq(S),
           NEW f \in [1..Len(seqs) -> Seq(S)], Accumulates(f, seqs),
           NEW g, g = [i \in 1..(Len(seqs) + 1) |->
                          IF i <= Len(seqs) THEN f[i] ELSE f[Len(seqs)] \o e]
    PROVE  /\ g \in [1..Len(Append(seqs, e)) -> Seq(S)]
           /\ Accumulates(g, Append(seqs, e))
<1> DEFINE n == Len(seqs)
           more == Append(seqs, e)
<1>1. n \in Nat /\ n >= 1
  BY EmptySeq
<1>2. more \in Seq(Seq(S)) /\ Len(more) = n + 1 /\ more[n + 1] = e
      /\ \A i \in 1..n : more[i] = seqs[i]
  BY AppendProperties
<1>3. f[n] \o e \in Seq(S)
  <2>1. n \in 1..Len(seqs)
    BY <1>1
  <2>2. f[n] \in Seq(S)
    BY <2>1, Zenon
  <2>3. QED
    BY <2>2, ConcatProperties
<1>4. g \in [1..(n + 1) -> Seq(S)]
  BY <1>1, <1>3
<1>5. \A i \in 1..n : f[i] = IF i = 1 THEN seqs[i] ELSE f[i - 1] \o seqs[i]
  BY DEF Accumulates
<1>6. ASSUME NEW i \in 1..(n + 1)
      PROVE  g[i] = IF i = 1 THEN more[i] ELSE g[i - 1] \o more[i]
  <2>1. CASE i <= n
    <3>1. i \in 1..n /\ g[i] = f[i] /\ more[i] = seqs[i]
      BY <1>1, <1>2, <2>1
    <3>2. i # 1 => i - 1 \in 1..(n + 1) /\ i - 1 <= n
      BY <1>1, <2>1
    <3>3. i # 1 => g[i - 1] = f[i - 1]
      BY <3>2
    <3>4. QED
      BY <1>5, <3>1, <3>3
  <2>2. CASE i = n + 1
    BY <1>1, <1>2, <2>2
  <2>3. QED
    BY <1>1, <2>1, <2>2
<1>7. QED
  BY <1>2, <1>4, <1>6 DEF Accumulates

\* Every sequence of sequences has such a function.
LEMMA AccumulationExists ==
    ASSUME NEW S, NEW seqs \in Seq(Seq(S)), seqs # <<>>
    PROVE  \E f \in [1..Len(seqs) -> Seq(S)] : Accumulates(f, seqs)
<1> DEFINE Has(q) == \E f \in [1..Len(q) -> Seq(S)] : Accumulates(f, q)
           T == {n \in Nat : \E q \in Seq(Seq(S)) : q # <<>> /\ Len(q) = n /\ ~Has(q)}
<1>1. SUFFICES ASSUME T # {}
               PROVE  FALSE
  <2>1. Len(seqs) \in Nat
    BY EmptySeq
  <2>2. QED
    BY <1>1, <2>1
<1>2. PICK n \in T : \A k \in Nat : k < n => k \notin T
  <2> HIDE DEF T
  <2>1. T \subseteq Nat
    BY DEF T
  <2>2. QED
    BY <1>1, <2>1, LeastNatural
<1>3. PICK q \in Seq(Seq(S)) : q # <<>> /\ Len(q) = n /\ ~Has(q)
  OBVIOUS
<1>4. PICK s \in Seq(Seq(S)), e \in Seq(S) : q = Append(s, e)
  BY <1>3, SequenceEmptyOrAppend
<1>5. Len(s) \in Nat /\ n = Len(s) + 1
  BY <1>3, <1>4
<1>6. CASE s = <<>>
  <2> DEFINE f == [i \in 1..1 |-> e]
  <2>1. Len(q) = 1 /\ q[1] = e
    BY <1>4, <1>6
  <2>2. f \in [1..Len(q) -> Seq(S)]
    BY <2>1
  <2>3. f = [i \in 1..Len(q) |-> IF i = 1 THEN q[i] ELSE f[i - 1] \o q[i]]
    BY <2>1
  <2>4. QED
    BY <1>3, <2>2, <2>3 DEF Accumulates
<1>7. CASE s # <<>>
  <2>1. Has(s)
    <3>1. Len(s) \in Nat /\ Len(s) < n
      BY <1>5
    <3>2. Len(s) \notin T
      BY <1>2, <3>1
    <3> HIDE DEF Has
    <3>3. QED
      BY <1>7, <3>1, <3>2
  <2>2. PICK f \in [1..Len(s) -> Seq(S)] : Accumulates(f, s)
    BY <2>1
  <2>3. Has(q)
    <3> DEFINE g == [i \in 1..(Len(s) + 1) |-> IF i <= Len(s) THEN f[i] ELSE f[Len(s)] \o e]
    <3>1. g \in [1..Len(q) -> Seq(S)] /\ Accumulates(g, q)
      BY <1>4, <1>7, <2>2, AccumulateMore
    <3>2. QED
      BY <3>1
  <2>4. QED
    BY <1>3, <2>3
<1>8. QED
  BY <1>6, <1>7

\* FlattenSeq is the last value of any such function.
LEMMA FlattenIsLast ==
    ASSUME NEW S, NEW seqs \in Seq(Seq(S)), seqs # <<>>,
           NEW f \in [1..Len(seqs) -> Seq(S)], Accumulates(f, seqs)
    PROVE  FlattenSeq(seqs) = f[Len(seqs)]
<1> DEFINE g == CHOOSE h : Accumulates(h, seqs)
           T == {i \in Nat : i \in 1..Len(seqs) /\ g[i] # f[i]}
<1>1. Len(seqs) \in Nat /\ Len(seqs) >= 1
  BY EmptySeq
<1>2. FlattenSeq(seqs) = g[Len(seqs)]
  BY <1>1 DEF FlattenSeq, Accumulates
<1>3. Accumulates(g, seqs)
  OBVIOUS
<1>4. ASSUME T # {}
      PROVE  FALSE
  <2>1. PICK n \in T : \A k \in Nat : k < n => k \notin T
    <3> HIDE DEF T
    <3>1. T \subseteq Nat
      BY DEF T
    <3>2. QED
      BY <1>4, <3>1, LeastNatural
  <2>2. n \in 1..Len(seqs) /\ g[n] # f[n]
    OBVIOUS
  <2>3. f[n] = (IF n = 1 THEN seqs[n] ELSE f[n - 1] \o seqs[n])
    BY <2>2 DEF Accumulates
  <2>4. g[n] = (IF n = 1 THEN seqs[n] ELSE g[n - 1] \o seqs[n])
    <3> HIDE DEF g
    <3>1. QED
      BY <1>3, <2>2 DEF Accumulates
  <2>5. n # 1
    BY <2>2, <2>3, <2>4
  <2>6. n - 1 \in Nat /\ n - 1 \in 1..Len(seqs) /\ n - 1 < n
    BY <1>1, <2>2, <2>5
  <2>7. g[n - 1] = f[n - 1]
    <3>1. n - 1 \notin T
      BY <2>1, <2>6
    <3>2. QED
      BY <2>6, <3>1
  <2>8. QED
    BY <2>2, <2>3, <2>4, <2>5, <2>7
<1>5. g[Len(seqs)] = f[Len(seqs)]
  <2> HIDE DEF g
  <2>1. QED
    BY <1>1, <1>4
<1>6. QED
  BY <1>2, <1>5

LEMMA FlattenEmpty == FlattenSeq(<<>>) = <<>>
BY DEF FlattenSeq

LEMMA FlattenAppend ==
    ASSUME NEW S, NEW seqs \in Seq(Seq(S)), NEW e \in Seq(S)
    PROVE  /\ FlattenSeq(seqs) \in Seq(S)
           /\ FlattenSeq(Append(seqs, e)) = FlattenSeq(seqs) \o e
<1> DEFINE more == Append(seqs, e)
           n == Len(seqs)
<1>1. /\ more \in Seq(Seq(S)) /\ more # <<>> /\ Len(more) = n + 1 /\ more[n + 1] = e
      /\ n \in Nat
  BY AppendProperties, LenProperties
<1>2. CASE seqs = <<>>
  <2>1. n = 0 /\ FlattenSeq(seqs) = <<>> /\ <<>> \in Seq(S)
    BY <1>2, FlattenEmpty, EmptySeq
  <2>2. PICK f \in [1..Len(more) -> Seq(S)] : Accumulates(f, more)
    BY <1>1, AccumulationExists
  <2>3. FlattenSeq(more) = f[1]
    <3> HIDE DEF more
    <3>1. FlattenSeq(more) = f[Len(more)]
      BY <1>1, <2>2, FlattenIsLast
    <3>2. Len(more) = 1
      BY <1>1, <2>1
    <3>3. QED
      BY <3>1, <3>2
  <2>4. f[1] = e
    BY <1>1, <2>1, <2>2 DEF Accumulates
  <2>5. <<>> \o e = e
    BY ConcatEmptySeq
  <2>6. QED
    BY <2>1, <2>3, <2>4, <2>5
<1>3. CASE seqs # <<>>
  <2>1. PICK f \in [1..n -> Seq(S)] : Accumulates(f, seqs)
    BY <1>3, AccumulationExists
  <2>2. n >= 1
    BY <1>3, EmptySeq
  <2>3. FlattenSeq(seqs) = f[n] /\ f[n] \in Seq(S)
    <3>1. n \in 1..n
      BY <1>1, <2>2
    <3>2. f[n] \in Seq(S)
      BY <3>1, Zenon
    <3>3. QED
      BY <1>3, <2>1, <3>2, FlattenIsLast
  <2> DEFINE g == [i \in 1..(n + 1) |-> IF i <= n THEN f[i] ELSE f[n] \o e]
  <2>4. g \in [1..Len(more) -> Seq(S)] /\ Accumulates(g, more)
    BY <1>3, <2>1, AccumulateMore
  <2>5. FlattenSeq(more) = g[n + 1]
    <3> HIDE DEF g, more
    <3>1. QED
      BY <1>1, <2>4, FlattenIsLast
  <2>6. g[n + 1] = f[n] \o e
    BY <1>1
  <2>7. QED
    BY <2>3, <2>5, <2>6
<1>4. QED
  BY <1>2, <1>3

LEMMA FlattenType ==
    ASSUME NEW S, NEW seqs \in Seq(Seq(S))
    PROVE  FlattenSeq(seqs) \in Seq(S)
BY FlattenAppend, EmptySeq

\* The first sequence comes first.
LEMMA FlattenHead ==
    ASSUME NEW S, NEW seqs \in Seq(Seq(S)), seqs # <<>>
    PROVE  /\ seqs[1] \in Seq(S)
           /\ Tail(seqs) \in Seq(Seq(S))
           /\ FlattenSeq(seqs) = seqs[1] \o FlattenSeq(Tail(seqs))
<1> DEFINE n == Len(seqs)
           rest == Tail(seqs)
<1>1. n \in Nat /\ n >= 1
  BY EmptySeq
<1>2. seqs[1] \in Seq(S)
  BY <1>1, ElementOfSeq
<1>3. rest \in Seq(Seq(S)) /\ Len(rest) = n - 1 /\ \A i \in 1..(n - 1) : rest[i] = seqs[i + 1]
  BY HeadTailProperties
<1>4. \A x, y, z \in Seq(S) : (x \o y) \o z = x \o (y \o z)
  BY ConcatAssociative
<1> HIDE DEF rest
<1>5. CASE rest = <<>>
  <2>1. n = 1
    <3>1. Len(rest) = 0
      BY <1>5, EmptySeq
    <3>2. QED
      BY <1>1, <1>3, <3>1
  <2>2. PICK f \in [1..n -> Seq(S)] : Accumulates(f, seqs)
    BY AccumulationExists
  <2>3. FlattenSeq(seqs) = seqs[1]
    <3>1. FlattenSeq(seqs) = f[1]
      BY <2>1, <2>2, FlattenIsLast
    <3>2. f[1] = seqs[1]
      BY <2>1, <2>2 DEF Accumulates
    <3>3. QED
      BY <3>1, <3>2
  <2>4. seqs[1] \o FlattenSeq(rest) = seqs[1]
    BY <1>2, <1>5, FlattenEmpty, ConcatEmptySeq
  <2>5. QED
    BY <1>2, <1>3, <2>3, <2>4 DEF rest
<1>6. CASE rest # <<>>
  <2>1. n >= 2
    BY <1>1, <1>3, <1>6, EmptySeq
  <2>2. PICK f \in [1..Len(rest) -> Seq(S)] : Accumulates(f, rest)
    BY <1>3, <1>6, AccumulationExists
  <2>3. \A i \in 1..(n - 1) : f[i] = IF i = 1 THEN rest[i] ELSE f[i - 1] \o rest[i]
    BY <1>3, <2>2 DEF Accumulates
  <2>4. \A i \in 1..(n - 1) : f[i] \in Seq(S)
    BY <1>3, <2>2
  <2> DEFINE g == [i \in 1..n |-> IF i = 1 THEN seqs[1] ELSE seqs[1] \o f[i - 1]]
  <2>5. g \in [1..n -> Seq(S)]
    <3>1. ASSUME NEW i \in 1..n, i # 1
          PROVE  seqs[1] \o f[i - 1] \in Seq(S)
      <4>1. i - 1 \in 1..(n - 1)
        BY <1>1, <3>1
      <4>2. f[i - 1] \in Seq(S)
        BY <2>4, <4>1
      <4>3. QED
        BY <1>2, <4>2, ConcatProperties
    <3>2. QED
      BY <1>2, <3>1
  <2>6. ASSUME NEW i \in 1..n
        PROVE  g[i] = IF i = 1 THEN seqs[i] ELSE g[i - 1] \o seqs[i]
    <3>1. CASE i = 1
      BY <3>1
    <3>2. CASE i = 2
      <4>1. 1 \in 1..n /\ 2 \in 1..n /\ 1 \in 1..(n - 1) /\ 2 - 1 = 1 /\ 2 # 1 /\ 1 + 1 = 2
        BY <1>1, <2>1
      <4>2. g[1] = seqs[1]
        BY <4>1, Zenon
      <4>3. g[2] = seqs[1] \o f[1]
        BY <4>1, Zenon
      <4>4. f[1] = rest[1]
        BY <2>3, <4>1, Zenon
      <4>5. rest[1] = seqs[2]
        <5> HIDE DEF g
        <5>1. QED
          BY <1>3, <4>1, Zenon
      <4>6. QED
        BY <3>2, <4>1, <4>2, <4>3, <4>4, <4>5, Zenon
    <3>3. CASE i > 2
      <4> DEFINE j == i - 1
                 k == j - 1
      <4>1. /\ j \in 1..n /\ j # 1 /\ j \in 1..(n - 1)
            /\ k \in 1..(n - 1) /\ j + 1 = i /\ i # 1
        BY <1>1, <3>3
      <4>2. g[i] = seqs[1] \o f[j]
        BY <4>1, Zenon
      <4>3. g[j] = seqs[1] \o f[k]
        <5> HIDE DEF j
        <5>1. QED
          BY <4>1, Zenon
      <4>4. f[j] = f[k] \o rest[j]
        <5> HIDE DEF j
        <5>1. QED
          BY <2>3, <4>1, Zenon
      <4>5. rest[j] = seqs[i]
        <5> HIDE DEF j
        <5>1. QED
          BY <1>3, <4>1
      <4>6. f[k] \in Seq(S) /\ seqs[i] \in Seq(S)
        <5> HIDE DEF j, k
        <5>1. QED
          BY <2>4, <4>1, ElementOfSeq
      <4>7. (seqs[1] \o f[k]) \o seqs[i] = seqs[1] \o (f[k] \o seqs[i])
        <5> HIDE DEF j, k
        <5>1. QED
          BY <1>2, <1>4, <4>6, Zenon
      <4>8. QED
        <5> HIDE DEF g
        <5>1. g[i] = g[j] \o seqs[i]
          BY <4>2, <4>3, <4>4, <4>5, <4>7, Zenon
        <5>2. QED
          BY <4>1, <5>1
    <3>4. QED
      BY <1>1, <3>1, <3>2, <3>3
  <2>7. Accumulates(g, seqs)
    BY <2>6 DEF Accumulates
  <2>8. FlattenSeq(seqs) = g[n] /\ FlattenSeq(rest) = f[n - 1]
    <3> HIDE DEF g, rest
    <3>1. FlattenSeq(seqs) = g[n]
      BY <2>5, <2>7, FlattenIsLast
    <3>2. QED
      BY <1>3, <1>6, <2>2, <3>1, FlattenIsLast
  <2>9. QED
    <3>1. g[n] = seqs[1] \o f[n - 1]
      <4>1. n \in 1..n /\ n # 1
        <5> HIDE DEF n, g
        <5>1. QED
          BY <1>1, <2>1
      <4>2. QED
        BY <4>1, Zenon
    <3> HIDE DEF g
    <3>2. QED
      BY <1>2, <1>3, <2>8, <3>1 DEF rest
<1>7. QED
  BY <1>5, <1>6
===============================================================================
