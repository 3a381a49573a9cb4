---------------------------- MODULE AIResponseProofs ----------------------------
(***************************************************************************)
(* Proofs of the properties of AIResponse, for prompts and contents of any  *)
(* length: what JSON reads and what unescapeJson writes are followed symbol *)
(* by symbol, from the end of the string.                                   *)
(***************************************************************************)
EXTENDS AIResponse, SequenceLemmas, TLAPS

Symbols == {Letter, LetterN, Quote, Backslash, Newline, Control, Hex}

LEMMA SymbolsDiffer ==
    /\ Quote # Backslash /\ Quote # LetterN /\ Quote # Newline /\ Quote # Letter
    /\ Quote # Control /\ Quote # Hex /\ Quote # ContentKey /\ Quote # Broken
    /\ Backslash # LetterN /\ Backslash # Newline /\ Backslash # Letter
    /\ Backslash # Control /\ Backslash # Hex /\ Backslash # ContentKey /\ Backslash # Broken
    /\ LetterN # Newline /\ LetterN # Letter /\ LetterN # Control /\ LetterN # Hex
    /\ LetterN # ContentKey /\ LetterN # Broken
    /\ Newline # Letter /\ Newline # Control /\ Newline # Hex /\ Newline # ContentKey
    /\ Newline # Broken
    /\ Letter # Control /\ Letter # Hex /\ Letter # ContentKey /\ Letter # Broken
    /\ Control # Hex /\ Control # ContentKey /\ Control # Broken
    /\ Hex # ContentKey /\ Hex # Broken
BY DEF Quote, Backslash, LetterN, Newline, Letter, Control, Hex, ContentKey, Broken

LEMMA MeaningIs ==
    /\ DOMAIN Meaning = {Quote, Backslash, LetterN, Hex}
    /\ Meaning[Quote] = Quote
    /\ Meaning[Backslash] = Backslash
    /\ Meaning[LetterN] = Newline
    /\ Meaning[Hex] = Control
BY SymbolsDiffer DEF Meaning

LEMMA InFront ==
    ASSUME NEW S, NEW c \in S, NEW s \in Seq(S), NEW t, t = <<c>> \o s
    PROVE  /\ t \in Seq(S) /\ Len(s) \in Nat /\ Len(t) = Len(s) + 1 /\ t[1] = c
           /\ \A i \in 1..Len(s) : t[i + 1] = s[i]
<1> DEFINE first == <<c>>
<1>1. first \in Seq(S) /\ Len(first) = 1 /\ first[1] = c
  OBVIOUS
<1> HIDE DEF first
<1>2. /\ first \o s \in Seq(S)
      /\ Len(s) \in Nat
      /\ Len(first \o s) = Len(first) + Len(s)
      /\ \A i \in 1..Len(first) : (first \o s)[i] = first[i]
      /\ \A i \in 1..Len(s) : (first \o s)[Len(first) + i] = s[i]
  <2>1. first \in Seq(S)
    BY <1>1
  <2>2. QED
    BY <2>1, Joined
<1>3. t = first \o s
  BY DEF first
<1>4. /\ t \in Seq(S) /\ Len(s) \in Nat /\ Len(t) = 1 + Len(s)
      /\ \A i \in 1..1 : t[i] = first[i]
      /\ \A i \in 1..Len(s) : t[1 + i] = s[i]
  BY <1>1, <1>2, <1>3
<1>5. t[1] = c
  BY <1>1, <1>4
<1>6. ASSUME NEW i \in 1..Len(s)
      PROVE  t[i + 1] = s[i]
  <2>1. i + 1 = 1 + i
    BY <1>4
  <2>2. QED
    BY <1>4, <2>1, Zenon
<1>7. QED
  BY <1>4, <1>5, <1>6

\* A string that is not empty is its first symbol and the rest.
LEMMA FirstAndRest ==
    ASSUME NEW S, NEW s \in Seq(S), s # <<>>
    PROVE  \E c \in S, r \in Seq(S) : s = <<c>> \o r /\ Len(s) = Len(r) + 1
<1>1. Len(s) \in Nat /\ Len(s) >= 1 /\ 1 \in 1..Len(s) /\ Len(s) \in 1..Len(s)
  BY EmptySeq
<1>2. s[1] \in S
  BY <1>1, ElementOfSeq
<1>3. Tail(s) \in Seq(S) /\ Len(Tail(s)) = Len(s) - 1
  BY HeadTailProperties
<1>4. SubSeq(s, 1, Len(s)) = <<s[1]>> \o SubSeq(s, 1 + 1, Len(s))
  BY <1>1, SubSeqRecursiveFirst
<1>5. SubSeq(s, 1, Len(s)) = s /\ Tail(s) = SubSeq(s, 2, Len(s))
  BY SubSeqFull, TailIsSubSeq
<1>6. s = <<s[1]>> \o Tail(s)
  BY <1>4, <1>5
<1>7. Len(s) = Len(Tail(s)) + 1
  BY <1>1, <1>3
<1>8. QED
  BY <1>2, <1>3, <1>6, <1>7, Zenon

-------------------------------------------------------------------------------
(* ReadJson, symbol by symbol                                              *)

Read == Symbols \union {Broken}

\* What is read from position i, given what is read from the later ones.
ReadAt(f, s, i) ==
    IF i > Len(s) THEN <<Broken>>
    ELSE IF s[i] = Quote THEN <<>>
    ELSE IF s[i] # Backslash THEN <<s[i]>> \o f[i + 1]
    ELSE IF i < Len(s) /\ s[i + 1] \in DOMAIN Meaning
    THEN <<Meaning[s[i + 1]]>> \o f[i + 2]
    ELSE <<Broken>>

Reads(f, s) == f = [i \in 1..(Len(s) + 2) |-> ReadAt(f, s, i)]

\* A symbol in front of s: from there on everything is read as before.
ReadMore(c, s, f, t) ==
    [i \in 1..(Len(t) + 2) |->
        IF i = 1
        THEN IF c = Quote THEN <<>>
             ELSE IF c # Backslash THEN <<c>> \o f[1]
             ELSE IF Len(s) > 0 /\ s[1] \in DOMAIN Meaning
             THEN <<Meaning[s[1]]>> \o f[2]
             ELSE <<Broken>>
        ELSE f[i - 1]]

LEMMA ReadsMore ==
    ASSUME NEW c \in Symbols, NEW s \in Seq(Symbols), NEW t, t = <<c>> \o s,
           NEW f \in [1..(Len(s) + 2) -> Seq(Read)], Reads(f, s),
           NEW g, g = ReadMore(c, s, f, t)
    PROVE  g \in [1..(Len(t) + 2) -> Seq(Read)] /\ Reads(g, t)
<1>1. /\ t \in Seq(Symbols) /\ Len(s) \in Nat /\ Len(t) = Len(s) + 1 /\ t[1] = c
      /\ \A i \in 1..Len(s) : t[i + 1] = s[i]
  BY InFront
<1> DEFINE n == Len(s)
<1>2. \A i \in 1..(n + 2) : f[i] \in Seq(Read) /\ f[i] = ReadAt(f, s, i)
  BY DEF Reads
<1> HIDE DEF n
<1>3. /\ 1 \in 1..(n + 2) /\ 2 \in 1..(n + 2) /\ 1 \in 1..(n + 3) /\ n \in Nat
      /\ \A j \in 1..(n + 2) : j + 1 \in 1..(n + 3) /\ j + 1 # 1 /\ (j + 1) - 1 = j
  BY <1>1 DEF n
<1>4. \A j \in 1..(n + 2) : g[j + 1] = f[j]
  <2>1. Len(t) + 2 = n + 3
    BY <1>1 DEF n
  <2>2. g = [i \in 1..(n + 3) |->
                IF i = 1
                THEN IF c = Quote THEN <<>>
                     ELSE IF c # Backslash THEN <<c>> \o f[1]
                     ELSE IF Len(s) > 0 /\ s[1] \in DOMAIN Meaning
                     THEN <<Meaning[s[1]]>> \o f[2]
                     ELSE <<Broken>>
                ELSE f[i - 1]]
    BY <2>1, Zenon DEF ReadMore
  <2>3. QED
    BY <1>3, <2>2, Zenon
<1>5. g[1] = IF c = Quote THEN <<>>
             ELSE IF c # Backslash THEN <<c>> \o f[1]
             ELSE IF Len(s) > 0 /\ s[1] \in DOMAIN Meaning
             THEN <<Meaning[s[1]]>> \o f[2]
             ELSE <<Broken>>
  <2>1. 1 \in 1..(Len(t) + 2)
    BY <1>1
  <2>2. QED
    BY <2>1, Zenon DEF ReadMore
<1>6. g[1] = ReadAt(g, t, 1)
  <2>1. g[2] = f[1] /\ g[3] = f[2]
    <3>1. 1 + 1 = 2 /\ 2 + 1 = 3
      OBVIOUS
    <3>2. QED
      BY <1>3, <1>4, <3>1, Zenon
  <2>2. Len(s) > 0 => t[2] = s[1]
    <3>1. Len(s) > 0 => 1 \in 1..Len(s) /\ 1 + 1 = 2
      BY <1>1
    <3>2. QED
      BY <1>1, <3>1, Zenon
  <2>3. ~(1 > Len(t)) /\ (1 < Len(t) <=> Len(s) > 0) /\ 1 + 1 = 2 /\ 1 + 2 = 3
    BY <1>1
  <2>4. ReadAt(g, t, 1) = IF c = Quote THEN <<>>
                          ELSE IF c # Backslash THEN <<c>> \o g[2]
                          ELSE IF Len(s) > 0 /\ t[2] \in DOMAIN Meaning
                          THEN <<Meaning[t[2]]>> \o g[3]
                          ELSE <<Broken>>
    <3>1. ReadAt(g, t, 1) = IF 1 > Len(t) THEN <<Broken>>
                            ELSE IF t[1] = Quote THEN <<>>
                            ELSE IF t[1] # Backslash THEN <<t[1]>> \o g[2]
                            ELSE IF 1 < Len(t) /\ t[2] \in DOMAIN Meaning
                            THEN <<Meaning[t[2]]>> \o g[3]
                            ELSE <<Broken>>
      BY ONLY <2>3, Zenon DEF ReadAt
    <3>2. QED
      BY ONLY <1>1, <2>3, <3>1
  <2>5. QED
    BY <1>5, <2>1, <2>2, <2>4, Zenon
<1>7. ASSUME NEW j \in 1..(n + 2)
      PROVE  g[j + 1] = ReadAt(g, t, j + 1)
  <2>1. CASE j > Len(s)
    <3>1. j + 1 > Len(t)
      BY <1>1, <2>1, <1>3
    <3>2. f[j] = <<Broken>> /\ ReadAt(g, t, j + 1) = <<Broken>>
      BY <1>2, <2>1, <3>1, Zenon DEF ReadAt
    <3>3. QED
      BY <1>4, <3>2, Zenon
  <2>2. CASE ~(j > Len(s))
    <3>1. /\ ~(j + 1 > Len(t)) /\ j \in 1..Len(s)
          /\ (j + 1 < Len(t) <=> j < Len(s))
          /\ j + 1 \in 1..(n + 2) /\ j + 2 \in 1..(n + 2)
          /\ (j + 1) + 1 = j + 2 /\ (j + 1) + 2 = (j + 2) + 1
          /\ (j < Len(s) => j + 1 \in 1..Len(s))
      BY <1>1, <1>3, <2>2 DEF n
    <3>2. /\ t[j + 1] = s[j]
          /\ j < Len(s) => t[j + 2] = s[j + 1]
          /\ g[j + 2] = f[j + 1] /\ g[(j + 1) + 2] = f[j + 2]
      BY <1>1, <1>4, <3>1, Zenon
    <3>3. f[j] = IF s[j] = Quote THEN <<>>
                 ELSE IF s[j] # Backslash THEN <<s[j]>> \o f[j + 1]
                 ELSE IF j < Len(s) /\ s[j + 1] \in DOMAIN Meaning
                 THEN <<Meaning[s[j + 1]]>> \o f[j + 2]
                 ELSE <<Broken>>
      BY <1>2, <2>2, Zenon DEF ReadAt
    <3>4. ReadAt(g, t, j + 1) =
                 IF t[j + 1] = Quote THEN <<>>
                 ELSE IF t[j + 1] # Backslash THEN <<t[j + 1]>> \o g[j + 2]
                 ELSE IF j < Len(s) /\ t[j + 2] \in DOMAIN Meaning
                 THEN <<Meaning[t[j + 2]]>> \o g[(j + 1) + 2]
                 ELSE <<Broken>>
      <4>1. ReadAt(g, t, j + 1) =
                 IF j + 1 > Len(t) THEN <<Broken>>
                 ELSE IF t[j + 1] = Quote THEN <<>>
                 ELSE IF t[j + 1] # Backslash THEN <<t[j + 1]>> \o g[(j + 1) + 1]
                 ELSE IF j + 1 < Len(t) /\ t[(j + 1) + 1] \in DOMAIN Meaning
                 THEN <<Meaning[t[(j + 1) + 1]]>> \o g[(j + 1) + 2]
                 ELSE <<Broken>>
        BY ONLY Zenon DEF ReadAt
      <4>2. QED
        BY ONLY <3>1, <4>1
    <3>5. g[j + 1] = f[j]
      BY <1>4, Zenon
    <3>6. QED
      BY <3>2, <3>3, <3>4, <3>5, Zenon
  <2>3. QED
    BY <2>1, <2>2
<1>8. \A i \in 1..(Len(t) + 2) : i = 1 \/ \E j \in 1..(n + 2) : i = j + 1
  <2>1. ASSUME NEW i \in 1..(Len(t) + 2), i # 1
        PROVE  i - 1 \in 1..(n + 2) /\ i = (i - 1) + 1
    BY <1>1, <2>1 DEF n
  <2>2. QED
    BY <2>1
<1>9. \A i \in 1..(Len(t) + 2) : g[i] = ReadAt(g, t, i)
  BY <1>6, <1>7, <1>8, Zenon
<1>10. g[1] \in Seq(Read)
  <2>1. \A x \in Read : <<x>> \in Seq(Read)
    OBVIOUS
  <2>2. \A x \in Read, z \in Seq(Read) : <<x>> \o z \in Seq(Read)
    <3>1. \A w, z \in Seq(Read) : w \o z \in Seq(Read)
      BY ConcatProperties
    <3>2. QED
      BY <2>1, <3>1, Zenon
  <2>3. f[1] \in Seq(Read) /\ f[2] \in Seq(Read)
    BY <1>2, <1>3, Zenon
  <2>4. c \in Read /\ Broken \in Read
    BY DEF Read
  <2>5. \A x \in DOMAIN Meaning : Meaning[x] \in Read
    BY MeaningIs DEF Read, Symbols
  <2>6. <<>> \in Seq(Read)
    OBVIOUS
  <2>7. QED
    BY <1>5, <2>1, <2>2, <2>3, <2>4, <2>5, <2>6, Zenon
<1>11. \A i \in 1..(Len(t) + 2) : g[i] \in Seq(Read)
  <2>1. TAKE i \in 1..(Len(t) + 2)
  <2>2. CASE i = 1
    BY <1>10, <2>2
  <2>3. CASE \E j \in 1..(n + 2) : i = j + 1
    BY <1>2, <1>4, <2>3, Zenon
  <2>4. QED
    BY <1>8, <2>2, <2>3, Zenon
<1>12. DOMAIN g = 1..(Len(t) + 2) /\ g = [i \in 1..(Len(t) + 2) |-> g[i]]
  BY DEF ReadMore
<1> HIDE DEF n
<1>13. QED
  <2>1. g \in [1..(Len(t) + 2) -> Seq(Read)]
    BY <1>11, <1>12, Zenon
  <2>2. g = [i \in 1..(Len(t) + 2) |-> ReadAt(g, t, i)]
    BY <1>9, <1>12, Zenon
  <2>3. QED
    BY <2>1, <2>2 DEF Reads

LEMMA ReadsNothing ==
    ASSUME NEW f, f = [i \in 1..2 |-> <<Broken>>]
    PROVE  f \in [1..(Len(<<>>) + 2) -> Seq(Read)] /\ Reads(f, <<>>)
<1>1. Len(<<>>) + 2 = 2 /\ Len(<<>>) = 0
  OBVIOUS
<1>2. <<Broken>> \in Seq(Read)
  BY DEF Read
<1>3. \A i \in 1..2 : ReadAt(f, <<>>, i) = <<Broken>>
  BY <1>1 DEF ReadAt
<1>4. QED
  BY <1>1, <1>2, <1>3 DEF Reads

LEMMA ReadsExist ==
    ASSUME NEW s \in Seq(Symbols)
    PROVE  \E f \in [1..(Len(s) + 2) -> Seq(Read)] : Reads(f, s)
<1> DEFINE Has(q) == \E f \in [1..(Len(q) + 2) -> Seq(Read)] : Reads(f, q)
           T == {n \in Nat : \E q \in Seq(Symbols) : Len(q) = n /\ ~Has(q)}
<1>1. SUFFICES ASSUME T # {}
               PROVE  FALSE
  <2>1. Len(s) \in Nat
    BY EmptySeq
  <2>2. QED
    BY <1>1, <2>1
<1>2. PICK n \in T : \A k \in Nat : k < n => k \notin T
  <2> HIDE DEF T
  <2>1. T \subseteq Nat
    BY DEF T
  <2>2. QED
    BY <1>1, <2>1, LeastNatural
<1>3. PICK q \in Seq(Symbols) : Len(q) = n /\ ~Has(q)
  OBVIOUS
<1>4. CASE q = <<>>
  <2> DEFINE f == [i \in 1..2 |-> <<Broken>>]
  <2>1. f \in [1..(Len(q) + 2) -> Seq(Read)] /\ Reads(f, q)
    BY <1>4, ReadsNothing
  <2> HIDE DEF f
  <2>2. QED
    BY <1>3, <2>1
<1>5. CASE q # <<>>
  <2>1. PICK c \in Symbols, r \in Seq(Symbols) : q = <<c>> \o r /\ Len(q) = Len(r) + 1
    BY <1>5, FirstAndRest
  <2>2. Has(r)
    <3>1. Len(r) \in Nat /\ Len(r) < n
      BY <1>3, <2>1, EmptySeq
    <3>2. Len(r) \notin T
      BY <1>2, <3>1
    <3> HIDE DEF Has
    <3>3. QED
      BY <3>1, <3>2
  <2>3. PICK f \in [1..(Len(r) + 2) -> Seq(Read)] : Reads(f, r)
    BY <2>2
  <2>4. PICK g : g = ReadMore(c, r, f, q)
    OBVIOUS
  <2>5. q = <<c>> \o r
    BY <2>1
  <2>6. g \in [1..(Len(q) + 2) -> Seq(Read)] /\ Reads(g, q)
    BY <2>3, <2>4, <2>5, ReadsMore
  <2>7. QED
    BY <1>3, <2>6
<1>6. QED
  BY <1>4, <1>5

LEMMA ReadsOne ==
    ASSUME NEW s \in Seq(Symbols), NEW f, Reads(f, s), NEW g, Reads(g, s)
    PROVE  f[1] = g[1]
<1> DEFINE n == Len(s)
           T == {k \in Nat : k <= n + 1 /\ f[n + 2 - k] # g[n + 2 - k]}
<1>1. n \in Nat
  BY LenProperties
<1>2. \A i \in 1..(n + 2) : f[i] = ReadAt(f, s, i) /\ g[i] = ReadAt(g, s, i)
  BY DEF Reads
<1> HIDE DEF n
<1>3. ASSUME T # {}
      PROVE  FALSE
  <2>1. PICK k \in T : \A j \in Nat : j < k => j \notin T
    <3> HIDE DEF T
    <3>1. T \subseteq Nat
      BY DEF T
    <3>2. QED
      BY <1>3, <3>1, LeastNatural
  <2> DEFINE i == n + 2 - k
  <2>2. k \in Nat /\ k <= n + 1 /\ f[i] # g[i]
    OBVIOUS
  <2>3. i \in 1..(n + 2)
    BY <1>1, <2>2
  <2>4. i <= n => f[i + 1] = g[i + 1] /\ f[i + 2] = g[i + 2]
    <3>1. SUFFICES ASSUME i <= n
                   PROVE  f[i + 1] = g[i + 1] /\ f[i + 2] = g[i + 2]
      OBVIOUS
    <3>2. /\ k - 1 \in Nat /\ k - 1 < k /\ k - 1 <= n + 1 /\ n + 2 - (k - 1) = i + 1
          /\ k - 2 \in Nat /\ k - 2 < k /\ k - 2 <= n + 1 /\ n + 2 - (k - 2) = i + 2
      BY <1>1, <2>2, <3>1
    <3>3. k - 1 \notin T /\ k - 2 \notin T
      BY <2>1, <3>2
    <3>4. f[n + 2 - (k - 1)] = g[n + 2 - (k - 1)] /\ f[n + 2 - (k - 2)] = g[n + 2 - (k - 2)]
      BY <3>2, <3>3
    <3> HIDE DEF i
    <3>5. QED
      BY <3>2, <3>4
  <2>5. f[i] = ReadAt(f, s, i) /\ g[i] = ReadAt(g, s, i)
    BY <1>2, <2>3, Zenon
  <2> HIDE DEF i
  <2>6. ReadAt(f, s, i) = ReadAt(g, s, i)
    <3>1. CASE i > Len(s)
      BY <3>1 DEF ReadAt
    <3>2. CASE ~(i > Len(s))
      <4>1. i <= n
        BY <1>1, <2>3, <3>2 DEF n
      <4>2. QED
        BY <2>4, <4>1, Zenon DEF ReadAt
    <3>3. QED
      BY <3>1, <3>2
  <2>7. QED
    BY <2>2, <2>5, <2>6, Zenon
<1>4. QED
  <2>1. n + 1 \in Nat /\ n + 1 <= n + 1 /\ n + 2 - (n + 1) = 1
    BY <1>1
  <2>2. n + 1 \notin T
    BY <1>3
  <2>3. QED
    BY <2>1, <2>2

LEMMA ReadJsonIs ==
    ASSUME NEW s \in Seq(Symbols), NEW f, Reads(f, s)
    PROVE  ReadJson(s) = f[1]
<1> DEFINE g == CHOOSE h : Reads(h, s)
<1>1. ReadJson(s) = g[1]
  BY DEF ReadJson, Reads, ReadAt
<1>2. Reads(g, s)
  BY Zenon
<1> HIDE DEF g
<1>3. QED
  BY <1>1, <1>2, ReadsOne

LEMMA ReadNone == ReadJson(<<>>) = <<Broken>>
<1>1. PICK f : f = [i \in 1..2 |-> <<Broken>>]
  OBVIOUS
<1>2. <<>> \in Seq(Symbols) /\ Reads(f, <<>>)
  BY <1>1, ReadsNothing
<1>3. f[1] = <<Broken>>
  BY <1>1
<1>4. QED
  BY <1>2, <1>3, ReadJsonIs

LEMMA ReadType ==
    ASSUME NEW s \in Seq(Symbols)
    PROVE  ReadJson(s) \in Seq(Read)
<1>1. PICK f \in [1..(Len(s) + 2) -> Seq(Read)] : Reads(f, s)
  BY ReadsExist
<1>2. ReadJson(s) = f[1]
  BY <1>1, ReadJsonIs
<1>3. 1 \in 1..(Len(s) + 2)
  BY LenProperties
<1>4. QED
  BY <1>2, <1>3, Zenon

\* A symbol that is no backslash: the string ends, or the symbol stands for itself.
LEMMA ReadSymbol ==
    ASSUME NEW c \in Symbols, c # Backslash, NEW s \in Seq(Symbols), NEW t, t = <<c>> \o s
    PROVE  ReadJson(t) = IF c = Quote THEN <<>> ELSE <<c>> \o ReadJson(s)
<1>1. PICK f \in [1..(Len(s) + 2) -> Seq(Read)] : Reads(f, s)
  BY ReadsExist
<1>2. PICK g : g = ReadMore(c, s, f, t)
  OBVIOUS
<1>3. t = <<c>> \o s
  OBVIOUS
<1>4. Reads(g, t)
  BY <1>1, <1>2, <1>3, ReadsMore
<1>5. t \in Seq(Symbols) /\ Len(s) \in Nat /\ Len(t) = Len(s) + 1
  BY InFront
<1>6. 1 \in 1..(Len(t) + 2)
  BY <1>5
<1>7. g[1] = IF c = Quote THEN <<>> ELSE <<c>> \o f[1]
  BY <1>2, <1>6, Zenon DEF ReadMore
<1>8. ReadJson(t) = g[1] /\ ReadJson(s) = f[1]
  BY <1>1, <1>4, <1>5, ReadJsonIs
<1>9. QED
  BY <1>7, <1>8, Zenon

\* A backslash and the symbol after it.
LEMMA ReadEscape ==
    ASSUME NEW d \in Symbols, NEW r \in Seq(Symbols), NEW s, s = <<d>> \o r,
           NEW t, t = <<Backslash>> \o s
    PROVE  ReadJson(t) = IF d \in DOMAIN Meaning THEN <<Meaning[d]>> \o ReadJson(r)
                         ELSE <<Broken>>
<1>1. PICK e \in [1..(Len(r) + 2) -> Seq(Read)] : Reads(e, r)
  BY ReadsExist
<1>2. PICK f : f = ReadMore(d, r, e, s)
  OBVIOUS
<1>3. s = <<d>> \o r /\ t = <<Backslash>> \o s /\ Backslash \in Symbols
  BY DEF Symbols
<1>4. f \in [1..(Len(s) + 2) -> Seq(Read)] /\ Reads(f, s)
  BY <1>1, <1>2, <1>3, ReadsMore
<1>5. /\ s \in Seq(Symbols) /\ Len(r) \in Nat /\ Len(s) = Len(r) + 1 /\ s[1] = d
  BY InFront
<1>6. PICK g : g = ReadMore(Backslash, s, f, t)
  OBVIOUS
<1>7. Reads(g, t)
  BY <1>3, <1>4, <1>5, <1>6, ReadsMore
<1>8. t \in Seq(Symbols) /\ Len(t) = Len(s) + 1
  BY <1>3, <1>5, InFront
<1>9. 1 \in 1..(Len(t) + 2) /\ 2 \in 1..(Len(s) + 2) /\ Len(s) > 0 /\ 2 - 1 = 1 /\ 2 # 1
  BY <1>5, <1>8
<1>10. f[2] = e[1]
  BY <1>2, <1>9, Zenon DEF ReadMore
<1>11. g[1] = IF s[1] \in DOMAIN Meaning THEN <<Meaning[s[1]]>> \o f[2] ELSE <<Broken>>
  BY <1>6, <1>9, SymbolsDiffer, Zenon DEF ReadMore
<1>12. ReadJson(t) = g[1] /\ ReadJson(r) = e[1]
  BY <1>1, <1>7, <1>8, ReadJsonIs
<1>13. QED
  BY <1>5, <1>10, <1>11, <1>12, Zenon

LEMMA ReadLone == ReadJson(<<Backslash>>) = <<Broken>>
<1>1. <<>> \in Seq(Symbols) /\ Backslash \in Symbols /\ <<Backslash>> = <<Backslash>> \o <<>>
  BY DEF Symbols
<1>2. PICK f \in [1..(Len(<<>>) + 2) -> Seq(Read)] : Reads(f, <<>>)
  BY <1>1, ReadsExist
<1>3. PICK g : g = ReadMore(Backslash, <<>>, f, <<Backslash>>)
  OBVIOUS
<1>4. Reads(g, <<Backslash>>)
  BY <1>1, <1>2, <1>3, ReadsMore
<1>5. Len(<<>>) = 0 /\ 1 \in 1..(Len(<<Backslash>>) + 2) /\ <<Backslash>> \in Seq(Symbols)
  BY <1>1
<1>6. g[1] = <<Broken>>
  BY <1>3, <1>5, SymbolsDiffer DEF ReadMore
<1>7. ReadJson(<<Backslash>>) = g[1]
  BY <1>4, <1>5, ReadJsonIs
<1>8. QED
  BY <1>6, <1>7

-------------------------------------------------------------------------------
(* EscapeJson                                                              *)

\* What escapeJson writes for a symbol.
Escaped(c) ==
    CASE c \in {Quote, Backslash} -> <<Backslash, c>>
      [] c = Newline -> <<Backslash, LetterN>>
      [] c = Control -> <<Backslash, Hex>>
      [] OTHER -> <<c>>

Pieces(s) == [i \in DOMAIN s |-> Escaped(s[i])]

LEMMA EscapedType ==
    ASSUME NEW c \in Symbols
    PROVE  Escaped(c) \in Seq(Symbols)
<1>1. \A x, y \in Symbols : <<x, y>> \in Seq(Symbols) /\ <<x>> \in Seq(Symbols)
  OBVIOUS
<1>2. Backslash \in Symbols /\ LetterN \in Symbols /\ Hex \in Symbols
  BY DEF Symbols
<1>3. \/ Escaped(c) = <<Backslash, c>>
      \/ Escaped(c) = <<Backslash, LetterN>>
      \/ Escaped(c) = <<Backslash, Hex>>
      \/ Escaped(c) = <<c>>
  BY DEF Escaped
<1>4. QED
  BY <1>1, <1>2, <1>3, Zenon

LEMMA EscapeIs ==
    ASSUME NEW s
    PROVE  EscapeJson(s) = FlattenSeq(Pieces(s))
BY DEF EscapeJson, Pieces, Escaped

LEMMA PiecesType ==
    ASSUME NEW s \in Seq(Symbols)
    PROVE  Pieces(s) \in Seq(Seq(Symbols)) /\ Len(Pieces(s)) = Len(s)
<1>1. DOMAIN s = 1..Len(s) /\ Len(s) \in Nat /\ \A i \in 1..Len(s) : s[i] \in Symbols
  BY ElementOfSeq
<1>2. \A i \in 1..Len(s) : Escaped(s[i]) \in Seq(Symbols)
  BY <1>1, EscapedType, Zenon
<1>3. Pieces(s) = [i \in 1..Len(s) |-> Escaped(s[i])]
  BY <1>1 DEF Pieces
<1>4. QED
  BY <1>1, <1>2, <1>3

LEMMA EscapeType ==
    ASSUME NEW s \in Seq(Symbols)
    PROVE  EscapeJson(s) \in Seq(Symbols)
BY EscapeIs, PiecesType, FlattenType

LEMMA EscapeNothing == EscapeJson(<<>>) = <<>>
<1>1. Pieces(<<>>) = <<>>
  <2>1. <<>> \in Seq(Symbols) /\ Len(<<>>) = 0
    OBVIOUS
  <2>2. Pieces(<<>>) \in Seq(Seq(Symbols)) /\ Len(Pieces(<<>>)) = 0
    BY <2>1, PiecesType
  <2>3. QED
    BY <2>2, EmptySeq
<1>2. QED
  BY <1>1, EscapeIs, FlattenEmpty

LEMMA EscapeFirst ==
    ASSUME NEW c \in Symbols, NEW s \in Seq(Symbols), NEW t, t = <<c>> \o s
    PROVE  EscapeJson(t) = Escaped(c) \o EscapeJson(s)
<1>1. /\ t \in Seq(Symbols) /\ Len(s) \in Nat /\ Len(t) = Len(s) + 1 /\ t[1] = c
      /\ \A i \in 1..Len(s) : t[i + 1] = s[i]
  BY InFront
<1>2. /\ Pieces(t) \in Seq(Seq(Symbols)) /\ Len(Pieces(t)) = Len(t)
      /\ Pieces(s) \in Seq(Seq(Symbols)) /\ Len(Pieces(s)) = Len(s)
  BY <1>1, PiecesType
<1>3. Pieces(t) # <<>>
  BY <1>1, <1>2, EmptySeq
<1>4. DOMAIN t = 1..Len(t) /\ DOMAIN s = 1..Len(s) /\ 1 \in 1..Len(t)
  BY <1>1
<1>5. Pieces(t)[1] = Escaped(c)
  BY <1>1, <1>4, Zenon DEF Pieces
<1>6. Tail(Pieces(t)) = Pieces(s)
  <2> DEFINE rest == Tail(Pieces(t))
  <2>1. /\ rest \in Seq(Seq(Symbols)) /\ Len(rest) = Len(Pieces(t)) - 1
        /\ \A i \in 1..(Len(Pieces(t)) - 1) : rest[i] = Pieces(t)[i + 1]
    BY <1>2, <1>3, HeadTailProperties
  <2> HIDE DEF rest
  <2>2. Len(rest) = Len(s)
    BY <1>1, <1>2, <2>1
  <2>3. ASSUME NEW i \in 1..Len(s)
        PROVE  rest[i] = Pieces(s)[i]
    <3>1. i \in 1..(Len(Pieces(t)) - 1) /\ i + 1 \in 1..Len(t)
      BY <1>1, <1>2
    <3>2. rest[i] = Pieces(t)[i + 1]
      BY <2>1, <3>1, Zenon
    <3>3. Pieces(t)[i + 1] = Escaped(t[i + 1]) /\ Pieces(s)[i] = Escaped(s[i])
      BY <1>4, <3>1, Zenon DEF Pieces
    <3>4. QED
      BY <1>1, <3>2, <3>3, Zenon
  <2>4. rest = Pieces(s)
    BY <1>2, <2>1, <2>2, <2>3, SeqEqual
  <2>5. QED
    BY <2>4 DEF rest
<1>7. FlattenSeq(Pieces(t)) = Pieces(t)[1] \o FlattenSeq(Tail(Pieces(t)))
  BY <1>2, <1>3, FlattenHead
<1>8. QED
  BY <1>5, <1>6, <1>7, EscapeIs, Zenon

-------------------------------------------------------------------------------
(* The prompt                                                              *)

LEMMA AppendAfter ==
    ASSUME NEW S, NEW c \in S, NEW s \in Seq(S), NEW e \in S
    PROVE  Append(<<c>> \o s, e) = <<c>> \o Append(s, e)
<1> DEFINE first == <<c>>
           last == <<e>>
<1>1. first \in Seq(S) /\ last \in Seq(S)
  OBVIOUS
<1>2. \A q \in Seq(S) : Append(q, e) = q \o last
  BY AppendIsConcat
<1> HIDE DEF first, last
<1>3. first \o s \in Seq(S)
  BY <1>1, ConcatProperties
<1>4. \A x, y, z \in Seq(S) : (x \o y) \o z = x \o (y \o z)
  BY ConcatAssociative
<1>5. Append(first \o s, e) = first \o Append(s, e)
  <2>1. Append(first \o s, e) = (first \o s) \o last
    BY <1>2, <1>3, Zenon
  <2>2. (first \o s) \o last = first \o (s \o last)
    BY <1>1, <1>4, Zenon
  <2>3. Append(s, e) = s \o last
    BY <1>2, Zenon
  <2>4. QED
    BY <2>1, <2>2, <2>3, Zenon
<1>6. QED
  BY <1>5 DEF first

LEMMA TwoInFront ==
    ASSUME NEW S, NEW b \in S, NEW c \in S, NEW s \in Seq(S)
    PROVE  <<b, c>> \o s = <<b>> \o (<<c>> \o s)
<1> DEFINE one == <<b>>
           two == <<c>>
<1>1. one \in Seq(S) /\ two \in Seq(S)
  OBVIOUS
<1>p. one \o two = <<b, c>>
  <2>1. Append(one, c) = one \o two
    <3> HIDE DEF one
    <3>1. QED
      BY <1>1, AppendIsConcat
  <2>2. Append(one, c) = <<b, c>>
    <3>1. Len(one) = 1 /\ one[1] = b
      OBVIOUS
    <3> HIDE DEF one
    <3>2. /\ Append(one, c) \in Seq(S) /\ Len(Append(one, c)) = 2
          /\ Append(one, c)[1] = b /\ Append(one, c)[2] = c
      <4>1. /\ Append(one, c) \in Seq(S) /\ Len(Append(one, c)) = Len(one) + 1
            /\ \A i \in 1..Len(one) : Append(one, c)[i] = one[i]
            /\ Append(one, c)[Len(one) + 1] = c
        BY <1>1, AppendProperties
      <4>2. 1 \in 1..1 /\ 1 + 1 = 2
        OBVIOUS
      <4>3. QED
        BY <3>1, <4>1, <4>2, Zenon
    <3>3. \A i \in 1..2 : i = 1 \/ i = 2
      OBVIOUS
    <3>4. <<b, c>> \in Seq(S) /\ Len(<<b, c>>) = 2 /\ <<b, c>>[1] = b /\ <<b, c>>[2] = c
      OBVIOUS
    <3>5. QED
      BY <3>2, <3>3, <3>4, SeqEqual
  <2>3. QED
    BY <2>1, <2>2, Zenon
<1> HIDE DEF one, two
<1>2. \A x, y, z \in Seq(S) : (x \o y) \o z = x \o (y \o z)
  BY ConcatAssociative
<1>3. (one \o two) \o s = one \o (two \o s)
  BY <1>1, <1>2, Zenon
<1>4. QED
  BY <1>p, <1>3, Zenon DEF one, two

LEMMA PairInFront ==
    ASSUME NEW d \in Symbols, NEW s \in Seq(Symbols)
    PROVE  <<Backslash, d>> \o s = <<Backslash>> \o (<<d>> \o s)
<1>1. Backslash \in Symbols
  BY DEF Symbols
<1>2. QED
  BY <1>1, TwoInFront

\* The symbol of a prompt comes back, and then the rest is read.
LEMMA ReadEscaped ==
    ASSUME NEW c \in Symbols, NEW s \in Seq(Symbols), NEW t, t = Escaped(c) \o s
    PROVE  ReadJson(t) = <<c>> \o ReadJson(s)
<1>1. Backslash \in Symbols /\ LetterN \in Symbols /\ Hex \in Symbols
  BY DEF Symbols
<1>2. ASSUME NEW d \in Symbols, Escaped(c) = <<Backslash, d>>, d \in DOMAIN Meaning,
             Meaning[d] = c
      PROVE  ReadJson(t) = <<c>> \o ReadJson(s)
  <2>1. t = <<Backslash>> \o (<<d>> \o s)
    <3>1. <<Backslash, d>> \o s = <<Backslash>> \o (<<d>> \o s)
      BY PairInFront
    <3>2. QED
      BY <1>2, <3>1, Zenon
  <2>2. PICK u : u = <<d>> \o s
    OBVIOUS
  <2>3. t = <<Backslash>> \o u
    BY <2>1, <2>2
  <2>4. ReadJson(t) = IF d \in DOMAIN Meaning THEN <<Meaning[d]>> \o ReadJson(s)
                      ELSE <<Broken>>
    BY <2>2, <2>3, ReadEscape
  <2>5. QED
    BY <1>2, <2>4, Zenon
<1>3. CASE c \in {Quote, Backslash}
  <2>1. Escaped(c) = <<Backslash, c>>
    BY <1>3, SymbolsDiffer DEF Escaped
  <2>2. c \in DOMAIN Meaning /\ Meaning[c] = c
    BY <1>3, MeaningIs
  <2>3. QED
    BY <1>2, <2>1, <2>2, Zenon
<1>4. CASE c = Newline
  <2>1. Escaped(c) = <<Backslash, LetterN>>
    BY <1>4, SymbolsDiffer DEF Escaped
  <2>2. QED
    BY <1>1, <1>2, <1>4, <2>1, MeaningIs, Zenon
<1>5. CASE c = Control
  <2>1. Escaped(c) = <<Backslash, Hex>>
    BY <1>5, SymbolsDiffer DEF Escaped
  <2>2. QED
    BY <1>1, <1>2, <1>5, <2>1, MeaningIs, Zenon
<1>6. CASE c \notin {Quote, Backslash, Newline, Control}
  <2>1. Escaped(c) = <<c>>
    BY <1>6 DEF Escaped
  <2>2. t = <<c>> \o s
    BY <2>1
  <2>3. ReadJson(t) = IF c = Quote THEN <<>> ELSE <<c>> \o ReadJson(s)
    BY <1>6, <2>2, ReadSymbol
  <2>4. QED
    BY <1>6, <2>3, Zenon
<1>7. QED
  BY <1>3, <1>4, <1>5, <1>6

LEMMA EscapedAppend ==
    ASSUME NEW c \in Symbols, NEW s \in Seq(Symbols), NEW e \in Symbols
    PROVE  Append(Escaped(c) \o s, e) = Escaped(c) \o Append(s, e)
<1>1. PICK w \in Seq(Symbols) : w = Escaped(c)
  BY EscapedType
<1>2. PICK last \in Seq(Symbols) : last = <<e>>
  <2>1. <<e>> \in Seq(Symbols)
    OBVIOUS
  <2>2. QED
    BY <2>1, Zenon
<1>3. \A q \in Seq(Symbols) : Append(q, e) = q \o last
  BY <1>2, AppendIsConcat
<1>4. w \o s \in Seq(Symbols)
  BY ConcatProperties
<1>5. \A x, y, z \in Seq(Symbols) : (x \o y) \o z = x \o (y \o z)
  BY ConcatAssociative
<1>6. Append(w \o s, e) = w \o Append(s, e)
  <2>1. Append(w \o s, e) = (w \o s) \o last
    BY <1>3, <1>4, Zenon
  <2>2. (w \o s) \o last = w \o (s \o last)
    BY <1>5, Zenon
  <2>3. Append(s, e) = s \o last
    BY <1>3, Zenon
  <2>4. QED
    BY <2>1, <2>2, <2>3, Zenon
<1>7. QED
  BY <1>1, <1>6

\* What escapeJson writes, JSON reads back, up to the closing quote.
LEMMA ReadsBack ==
    ASSUME NEW p \in Seq(Symbols)
    PROVE  ReadJson(Append(EscapeJson(p), Quote)) = p
<1> DEFINE Back(q) == ReadJson(Append(EscapeJson(q), Quote)) = q
           T == {n \in Nat : \E q \in Seq(Symbols) : Len(q) = n /\ ~Back(q)}
<1>1. SUFFICES ASSUME T # {}
               PROVE  FALSE
  <2>1. Len(p) \in Nat
    BY EmptySeq
  <2>2. QED
    BY <1>1, <2>1
<1>2. PICK n \in T : \A k \in Nat : k < n => k \notin T
  <2> HIDE DEF T
  <2>1. T \subseteq Nat
    BY DEF T
  <2>2. QED
    BY <1>1, <2>1, LeastNatural
<1>3. PICK q \in Seq(Symbols) : Len(q) = n /\ ~Back(q)
  OBVIOUS
<1>q. Quote \in Symbols
  BY DEF Symbols
<1>4. CASE q = <<>>
  <2>1. EscapeJson(q) = <<>>
    BY <1>4, EscapeNothing
  <2>2. Append(<<>>, Quote) = <<Quote>> \o <<>> /\ <<>> \in Seq(Symbols)
    OBVIOUS
  <2>3. ReadJson(Append(<<>>, Quote)) = <<>>
    BY <1>q, <2>2, ReadSymbol, SymbolsDiffer
  <2>4. QED
    BY <1>3, <1>4, <2>1, <2>3
<1>5. CASE q # <<>>
  <2>1. PICK c \in Symbols, r \in Seq(Symbols) : q = <<c>> \o r /\ Len(q) = Len(r) + 1
    BY <1>5, FirstAndRest
  <2>2. Back(r)
    <3>1. Len(r) \in Nat /\ Len(r) < n
      BY <1>3, <2>1, EmptySeq
    <3>2. Len(r) \notin T
      BY <1>2, <3>1
    <3> HIDE DEF Back
    <3>3. QED
      BY <3>1, <3>2
  <2>3. PICK s \in Seq(Symbols) : s = EscapeJson(r)
    BY EscapeType
  <2>4. EscapeJson(q) = Escaped(c) \o s
    <3>1. q = <<c>> \o r
      BY <2>1
    <3>2. QED
      BY <2>3, <3>1, EscapeFirst
  <2>5. Append(EscapeJson(q), Quote) = Escaped(c) \o Append(s, Quote)
    <3>1. Append(Escaped(c) \o s, Quote) = Escaped(c) \o Append(s, Quote)
      BY <1>q, EscapedAppend
    <3>2. QED
      BY <2>4, <3>1, Zenon
  <2>6. PICK u \in Seq(Symbols) : u = Append(s, Quote)
    BY <1>q, AppendProperties
  <2>7. ReadJson(Append(EscapeJson(q), Quote)) = <<c>> \o ReadJson(u)
    BY <2>5, <2>6, ReadEscaped
  <2>8. ReadJson(u) = r
    BY <2>2, <2>3, <2>6
  <2>9. QED
    BY <1>3, <2>1, <2>7, <2>8
<1>6. QED
  BY <1>4, <1>5

LEMMA PromptSymbols == Prompts \subseteq Seq(Symbols)
<1> DEFINE A == {Letter, LetterN, Quote, Backslash, Newline, Control}
<1>1. ASSUME NEW p \in Prompts
      PROVE  p \in Seq(Symbols)
  <2>1. Prompts = UNION {[1..m -> A] : m \in 0..MaxPrompt}
    BY DEF Prompts, BoundedSeq, SeqOf
  <2>2. A \subseteq Symbols
    BY DEF Symbols
  <2> HIDE DEF A
  <2>3. PICK m \in 0..MaxPrompt : p \in [1..m -> A]
    BY <2>1
  <2>4. m \in Nat
    BY AIAssumption
  <2>5. p \in Seq(A)
    BY <2>3, <2>4
  <2>6. QED
    BY <2>2, <2>5
<1>2. QED
  BY <1>1

BodyInv ==
    /\ prompt \in Seq(Symbols)
    /\ step # "building" => body = EscapeJson(prompt)

\* The service that receives the body reads the prompt that was to be sent, whatever its
\* length and wherever its quotes and backslashes are (DiagnosisService.escapeJson).
THEOREM PromptIsRead == Spec => []PromptArrives
<1>1. Init => BodyInv
  BY PromptSymbols DEF Init, BodyInv
<1>2. ASSUME BodyInv, [Next]_vars
      PROVE  BodyInv'
  <2> USE <1>2 DEF BodyInv
  <2>1. CASE BuildRequestBody
    BY <2>1 DEF BuildRequestBody
  <2>2. ASSUME NEW a \in Answers, Respond(a)
        PROVE  BodyInv'
    BY <2>2 DEF Respond
  <2>3. CASE Parse
    BY <2>3 DEF Parse
  <2>4. CASE UNCHANGED vars
    BY <2>4 DEF vars
  <2>5. QED
    BY <2>1, <2>2, <2>3, <2>4 DEF Next
<1>3. BodyInv => PromptArrives
  BY ReadsBack DEF BodyInv, PromptArrives
<1>4. QED
  BY <1>1, <1>2, <1>3, PTL DEF Spec

-------------------------------------------------------------------------------
(* UnescapeJson, symbol by symbol                                          *)

\* What becomes of a backslash c and the symbol d after it.
UnescapePair(c, d, one, two) ==
    CASE d \in {Quote, Backslash} -> <<d>> \o two
      [] d = LetterN -> <<Newline>> \o two
      [] OTHER -> <<c>> \o one

UnescapeAt(f, s, i) ==
    IF i > Len(s) THEN <<>>
    ELSE IF s[i] # Backslash \/ i = Len(s) THEN <<s[i]>> \o f[i + 1]
    ELSE UnescapePair(s[i], s[i + 1], f[i + 1], f[i + 2])

Unescapes(f, s) == f = [i \in 1..(Len(s) + 2) |-> UnescapeAt(f, s, i)]

UnescapeMore(c, s, f, t) ==
    [i \in 1..(Len(t) + 2) |->
        IF i = 1
        THEN IF c # Backslash \/ Len(s) = 0 THEN <<c>> \o f[1]
             ELSE UnescapePair(c, s[1], f[1], f[2])
        ELSE f[i - 1]]

LEMMA SymbolInFront ==
    ASSUME NEW S, NEW x \in S, NEW z \in Seq(S)
    PROVE  <<x>> \o z \in Seq(S)
<1>1. PICK t : t = <<x>> \o z
  OBVIOUS
<1>2. QED
  BY <1>1, InFront

LEMMA UnescapesMore ==
    ASSUME NEW c \in Symbols, NEW s \in Seq(Symbols), NEW t, t = <<c>> \o s,
           NEW f \in [1..(Len(s) + 2) -> Seq(Symbols)], Unescapes(f, s),
           NEW g, g = UnescapeMore(c, s, f, t)
    PROVE  g \in [1..(Len(t) + 2) -> Seq(Symbols)] /\ Unescapes(g, t)
<1>1. /\ t \in Seq(Symbols) /\ Len(s) \in Nat /\ Len(t) = Len(s) + 1 /\ t[1] = c
      /\ \A i \in 1..Len(s) : t[i + 1] = s[i]
  BY InFront
<1> DEFINE n == Len(s)
<1>2. \A i \in 1..(n + 2) : f[i] \in Seq(Symbols) /\ f[i] = UnescapeAt(f, s, i)
  BY DEF Unescapes
<1> HIDE DEF n
<1>3. /\ 1 \in 1..(n + 2) /\ 2 \in 1..(n + 2) /\ 1 \in 1..(n + 3) /\ n \in Nat
      /\ \A j \in 1..(n + 2) : j + 1 \in 1..(n + 3) /\ j + 1 # 1 /\ (j + 1) - 1 = j
      /\ Len(t) + 2 = n + 3
  BY <1>1 DEF n
<1>4. \A j \in 1..(n + 2) : g[j + 1] = f[j]
  BY <1>3, Zenon DEF UnescapeMore
<1>5. g[1] = IF c # Backslash \/ Len(s) = 0 THEN <<c>> \o f[1]
             ELSE UnescapePair(c, s[1], f[1], f[2])
  BY <1>3, Zenon DEF UnescapeMore
<1>6. g[1] = UnescapeAt(g, t, 1)
  <2>1. g[2] = f[1] /\ g[3] = f[2]
    <3>1. 1 + 1 = 2 /\ 2 + 1 = 3
      OBVIOUS
    <3>2. QED
      BY <1>3, <1>4, <3>1, Zenon
  <2>2. ~(Len(s) = 0) => t[2] = s[1]
    <3>1. ~(Len(s) = 0) => 1 \in 1..Len(s) /\ 1 + 1 = 2
      BY <1>1
    <3>2. QED
      BY <1>1, <3>1, Zenon
  <2>3. ~(1 > Len(t)) /\ (1 = Len(t) <=> Len(s) = 0) /\ 1 + 1 = 2 /\ 1 + 2 = 3
    BY <1>1
  <2>4. UnescapeAt(g, t, 1) = IF t[1] # Backslash \/ 1 = Len(t) THEN <<t[1]>> \o g[2]
                              ELSE UnescapePair(t[1], t[2], g[2], g[3])
    BY ONLY <2>3, Zenon DEF UnescapeAt
  <2>5. CASE c # Backslash \/ Len(s) = 0
    BY <1>1, <1>5, <2>1, <2>3, <2>4, <2>5, Zenon
  <2>6. CASE ~(c # Backslash \/ Len(s) = 0)
    BY <1>1, <1>5, <2>1, <2>2, <2>3, <2>4, <2>6, Zenon
  <2>7. QED
    BY <2>5, <2>6
<1>7. ASSUME NEW j \in 1..(n + 2)
      PROVE  g[j + 1] = UnescapeAt(g, t, j + 1)
  <2>1. g[j + 1] = f[j] /\ f[j] = UnescapeAt(f, s, j)
    BY <1>2, <1>4, Zenon
  <2>2. CASE j > Len(s)
    <3>1. j + 1 > Len(t)
      BY <1>1, <2>2, <1>3
    <3>2. UnescapeAt(f, s, j) = <<>> /\ UnescapeAt(g, t, j + 1) = <<>>
      BY <2>2, <3>1, Zenon DEF UnescapeAt
    <3>3. QED
      BY <2>1, <3>2, Zenon
  <2>3. CASE ~(j > Len(s))
    <3>1. /\ ~(j + 1 > Len(t)) /\ j \in 1..Len(s)
          /\ (j + 1 = Len(t) <=> j = Len(s))
          /\ j + 1 \in 1..(n + 2) /\ j + 2 \in 1..(n + 2)
          /\ (j + 1) + 1 = j + 2 /\ (j + 1) + 2 = (j + 2) + 1
          /\ (~(j = Len(s)) => j + 1 \in 1..Len(s))
      BY <1>1, <1>3, <2>3 DEF n
    <3>2. /\ t[j + 1] = s[j]
          /\ ~(j = Len(s)) => t[j + 2] = s[j + 1]
          /\ g[j + 2] = f[j + 1] /\ g[(j + 1) + 2] = f[j + 2]
      BY <1>1, <1>4, <3>1, Zenon
    <3>3. UnescapeAt(f, s, j) = IF s[j] # Backslash \/ j = Len(s) THEN <<s[j]>> \o f[j + 1]
                                ELSE UnescapePair(s[j], s[j + 1], f[j + 1], f[j + 2])
      BY <2>3, Zenon DEF UnescapeAt
    <3>4. UnescapeAt(g, t, j + 1) =
              IF t[j + 1] # Backslash \/ j + 1 = Len(t) THEN <<t[j + 1]>> \o g[j + 2]
              ELSE UnescapePair(t[j + 1], t[j + 2], g[j + 2], g[(j + 1) + 2])
      <4>1. UnescapeAt(g, t, j + 1) =
              IF j + 1 > Len(t) THEN <<>>
              ELSE IF t[j + 1] # Backslash \/ j + 1 = Len(t) THEN <<t[j + 1]>> \o g[(j + 1) + 1]
              ELSE UnescapePair(t[j + 1], t[(j + 1) + 1], g[(j + 1) + 1], g[(j + 1) + 2])
        BY ONLY Zenon DEF UnescapeAt
      <4>2. QED
        BY ONLY <3>1, <4>1
    <3>5. CASE s[j] # Backslash \/ j = Len(s)
      BY <2>1, <3>1, <3>2, <3>3, <3>4, <3>5, Zenon
    <3>6. CASE ~(s[j] # Backslash \/ j = Len(s))
      BY <2>1, <3>1, <3>2, <3>3, <3>4, <3>6, Zenon
    <3>7. QED
      BY <3>5, <3>6
  <2>4. QED
    BY <2>2, <2>3
<1>8. \A i \in 1..(Len(t) + 2) : i = 1 \/ \E j \in 1..(n + 2) : i = j + 1
  <2>1. ASSUME NEW i \in 1..(Len(t) + 2), i # 1
        PROVE  i - 1 \in 1..(n + 2) /\ i = (i - 1) + 1
    BY <1>1, <2>1 DEF n
  <2>2. QED
    BY <2>1
<1>9. \A i \in 1..(Len(t) + 2) : g[i] = UnescapeAt(g, t, i)
  BY <1>6, <1>7, <1>8, Zenon
<1>10. g[1] \in Seq(Symbols)
  <2>1. f[1] \in Seq(Symbols) /\ f[2] \in Seq(Symbols)
    BY <1>2, <1>3, Zenon
  <2>2. <<c>> \o f[1] \in Seq(Symbols) /\ <<Newline>> \o f[2] \in Seq(Symbols)
    BY <2>1, SymbolInFront DEF Symbols
  <2>3. CASE c # Backslash \/ Len(s) = 0
    BY <1>5, <2>2, <2>3, Zenon
  <2>4. CASE ~(c # Backslash \/ Len(s) = 0)
    <3>1. s[1] \in Symbols
      BY <1>1, <2>4, ElementOfSeq
    <3>2. <<s[1]>> \o f[2] \in Seq(Symbols)
      BY <2>1, <3>1, SymbolInFront
    <3>3. g[1] = UnescapePair(c, s[1], f[1], f[2])
      BY <1>5, <2>4, Zenon
    <3>4. QED
      BY <2>2, <3>2, <3>3, SymbolsDiffer DEF UnescapePair
  <2>5. QED
    BY <2>3, <2>4
<1>11. \A i \in 1..(Len(t) + 2) : g[i] \in Seq(Symbols)
  <2>1. TAKE i \in 1..(Len(t) + 2)
  <2>2. CASE i = 1
    BY <1>10, <2>2
  <2>3. CASE \E j \in 1..(n + 2) : i = j + 1
    BY <1>2, <1>4, <2>3, Zenon
  <2>4. QED
    BY <1>8, <2>2, <2>3, Zenon
<1>12. DOMAIN g = 1..(Len(t) + 2) /\ g = [i \in 1..(Len(t) + 2) |-> g[i]]
  BY DEF UnescapeMore
<1>13. QED
  <2>1. g \in [1..(Len(t) + 2) -> Seq(Symbols)]
    BY <1>11, <1>12, Zenon
  <2>2. g = [i \in 1..(Len(t) + 2) |-> UnescapeAt(g, t, i)]
    BY <1>9, <1>12, Zenon
  <2>3. QED
    BY <2>1, <2>2 DEF Unescapes

LEMMA UnescapesNothing ==
    ASSUME NEW f, f = [i \in 1..2 |-> <<>>]
    PROVE  f \in [1..(Len(<<>>) + 2) -> Seq(Symbols)] /\ Unescapes(f, <<>>)
<1>1. Len(<<>>) + 2 = 2 /\ Len(<<>>) = 0
  OBVIOUS
<1>2. <<>> \in Seq(Symbols)
  OBVIOUS
<1>3. \A i \in 1..2 : UnescapeAt(f, <<>>, i) = <<>>
  BY <1>1 DEF UnescapeAt
<1>4. QED
  BY <1>1, <1>2, <1>3 DEF Unescapes

LEMMA UnescapesExist ==
    ASSUME NEW s \in Seq(Symbols)
    PROVE  \E f \in [1..(Len(s) + 2) -> Seq(Symbols)] : Unescapes(f, s)
<1> DEFINE Has(q) == \E f \in [1..(Len(q) + 2) -> Seq(Symbols)] : Unescapes(f, q)
           T == {n \in Nat : \E q \in Seq(Symbols) : Len(q) = n /\ ~Has(q)}
<1>1. SUFFICES ASSUME T # {}
               PROVE  FALSE
  <2>1. Len(s) \in Nat
    BY EmptySeq
  <2>2. QED
    BY <1>1, <2>1
<1>2. PICK n \in T : \A k \in Nat : k < n => k \notin T
  <2> HIDE DEF T
  <2>1. T \subseteq Nat
    BY DEF T
  <2>2. QED
    BY <1>1, <2>1, LeastNatural
<1>3. PICK q \in Seq(Symbols) : Len(q) = n /\ ~Has(q)
  OBVIOUS
<1>4. CASE q = <<>>
  <2> DEFINE f == [i \in 1..2 |-> <<>>]
  <2>1. f \in [1..(Len(q) + 2) -> Seq(Symbols)] /\ Unescapes(f, q)
    BY <1>4, UnescapesNothing
  <2> HIDE DEF f
  <2>2. QED
    BY <1>3, <2>1
<1>5. CASE q # <<>>
  <2>1. PICK c \in Symbols, r \in Seq(Symbols) : q = <<c>> \o r /\ Len(q) = Len(r) + 1
    BY <1>5, FirstAndRest
  <2>2. Has(r)
    <3>1. Len(r) \in Nat /\ Len(r) < n
      BY <1>3, <2>1, EmptySeq
    <3>2. Len(r) \notin T
      BY <1>2, <3>1
    <3> HIDE DEF Has
    <3>3. QED
      BY <3>1, <3>2
  <2>3. PICK f \in [1..(Len(r) + 2) -> Seq(Symbols)] : Unescapes(f, r)
    BY <2>2
  <2>4. PICK g : g = UnescapeMore(c, r, f, q)
    OBVIOUS
  <2>5. q = <<c>> \o r
    BY <2>1
  <2>6. g \in [1..(Len(q) + 2) -> Seq(Symbols)] /\ Unescapes(g, q)
    BY <2>3, <2>4, <2>5, UnescapesMore
  <2>7. QED
    BY <1>3, <2>6
<1>6. QED
  BY <1>4, <1>5

LEMMA UnescapesOne ==
    ASSUME NEW s \in Seq(Symbols), NEW f, Unescapes(f, s), NEW g, Unescapes(g, s)
    PROVE  f[1] = g[1]
<1> DEFINE n == Len(s)
           T == {k \in Nat : k <= n + 1 /\ f[n + 2 - k] # g[n + 2 - k]}
<1>1. n \in Nat
  BY LenProperties
<1>2. \A i \in 1..(n + 2) : f[i] = UnescapeAt(f, s, i) /\ g[i] = UnescapeAt(g, s, i)
  BY DEF Unescapes
<1> HIDE DEF n
<1>3. ASSUME T # {}
      PROVE  FALSE
  <2>1. PICK k \in T : \A j \in Nat : j < k => j \notin T
    <3> HIDE DEF T
    <3>1. T \subseteq Nat
      BY DEF T
    <3>2. QED
      BY <1>3, <3>1, LeastNatural
  <2> DEFINE i == n + 2 - k
  <2>2. k \in Nat /\ k <= n + 1 /\ f[i] # g[i]
    OBVIOUS
  <2>3. i \in 1..(n + 2)
    BY <1>1, <2>2
  <2>4. i <= n => f[i + 1] = g[i + 1] /\ f[i + 2] = g[i + 2]
    <3>1. SUFFICES ASSUME i <= n
                   PROVE  f[i + 1] = g[i + 1] /\ f[i + 2] = g[i + 2]
      OBVIOUS
    <3>2. /\ k - 1 \in Nat /\ k - 1 < k /\ k - 1 <= n + 1 /\ n + 2 - (k - 1) = i + 1
          /\ k - 2 \in Nat /\ k - 2 < k /\ k - 2 <= n + 1 /\ n + 2 - (k - 2) = i + 2
      BY <1>1, <2>2, <3>1
    <3>3. k - 1 \notin T /\ k - 2 \notin T
      BY <2>1, <3>2
    <3>4. f[n + 2 - (k - 1)] = g[n + 2 - (k - 1)] /\ f[n + 2 - (k - 2)] = g[n + 2 - (k - 2)]
      BY <3>2, <3>3
    <3> HIDE DEF i
    <3>5. QED
      BY <3>2, <3>4
  <2>5. f[i] = UnescapeAt(f, s, i) /\ g[i] = UnescapeAt(g, s, i)
    BY <1>2, <2>3, Zenon
  <2> HIDE DEF i
  <2>6. UnescapeAt(f, s, i) = UnescapeAt(g, s, i)
    <3>1. CASE i > Len(s)
      BY <3>1 DEF UnescapeAt
    <3>2. CASE ~(i > Len(s))
      <4>1. i <= n
        BY <1>1, <2>3, <3>2 DEF n
      <4>2. QED
        BY <2>4, <4>1, Zenon DEF UnescapeAt
    <3>3. QED
      BY <3>1, <3>2
  <2>7. QED
    BY <2>2, <2>5, <2>6, Zenon
<1>4. QED
  <2>1. n + 1 \in Nat /\ n + 1 <= n + 1 /\ n + 2 - (n + 1) = 1
    BY <1>1
  <2>2. n + 1 \notin T
    BY <1>3
  <2>3. QED
    BY <2>1, <2>2

LEMMA UnescapeJsonIs ==
    ASSUME NEW s \in Seq(Symbols), NEW f, Unescapes(f, s)
    PROVE  UnescapeJson(s) = f[1]
<1> DEFINE g == CHOOSE h : Unescapes(h, s)
<1>1. UnescapeJson(s) = g[1]
  BY DEF UnescapeJson, Unescapes, UnescapeAt, UnescapePair
<1>2. Unescapes(g, s)
  BY Zenon
<1> HIDE DEF g
<1>3. QED
  BY <1>1, <1>2, UnescapesOne

LEMMA UnescapeNone == UnescapeJson(<<>>) = <<>>
<1>1. PICK f : f = [i \in 1..2 |-> <<>>]
  OBVIOUS
<1>2. <<>> \in Seq(Symbols) /\ Unescapes(f, <<>>)
  BY <1>1, UnescapesNothing
<1>3. f[1] = <<>>
  BY <1>1
<1>4. QED
  BY <1>2, <1>3, UnescapeJsonIs

LEMMA UnescapeType ==
    ASSUME NEW s \in Seq(Symbols)
    PROVE  UnescapeJson(s) \in Seq(Symbols)
<1>1. PICK f \in [1..(Len(s) + 2) -> Seq(Symbols)] : Unescapes(f, s)
  BY UnescapesExist
<1>2. UnescapeJson(s) = f[1]
  BY <1>1, UnescapeJsonIs
<1>3. 1 \in 1..(Len(s) + 2)
  BY LenProperties
<1>4. QED
  BY <1>2, <1>3, Zenon

\* A symbol that is no backslash, or the last one.
LEMMA UnescapeSymbol ==
    ASSUME NEW c \in Symbols, NEW s \in Seq(Symbols), c # Backslash \/ s = <<>>,
           NEW t, t = <<c>> \o s
    PROVE  UnescapeJson(t) = <<c>> \o UnescapeJson(s)
<1>1. PICK f \in [1..(Len(s) + 2) -> Seq(Symbols)] : Unescapes(f, s)
  BY UnescapesExist
<1>2. PICK g : g = UnescapeMore(c, s, f, t)
  OBVIOUS
<1>3. t = <<c>> \o s
  OBVIOUS
<1>4. Unescapes(g, t)
  BY <1>1, <1>2, <1>3, UnescapesMore
<1>5. t \in Seq(Symbols) /\ Len(s) \in Nat /\ Len(t) = Len(s) + 1
  BY InFront
<1>6. 1 \in 1..(Len(t) + 2) /\ (c # Backslash \/ Len(s) = 0)
  BY <1>5
<1>7. g[1] = <<c>> \o f[1]
  BY <1>2, <1>6, Zenon DEF UnescapeMore
<1>8. UnescapeJson(t) = g[1] /\ UnescapeJson(s) = f[1]
  BY <1>1, <1>4, <1>5, UnescapeJsonIs
<1>9. QED
  BY <1>7, <1>8, Zenon

\* A backslash and the symbol after it.
LEMMA UnescapeEscape ==
    ASSUME NEW d \in Symbols, NEW r \in Seq(Symbols), NEW s, s = <<d>> \o r,
           NEW t, t = <<Backslash>> \o s
    PROVE  UnescapeJson(t) = UnescapePair(Backslash, d, UnescapeJson(s), UnescapeJson(r))
<1>1. PICK e \in [1..(Len(r) + 2) -> Seq(Symbols)] : Unescapes(e, r)
  BY UnescapesExist
<1>2. PICK f : f = UnescapeMore(d, r, e, s)
  OBVIOUS
<1>3. s = <<d>> \o r /\ t = <<Backslash>> \o s /\ Backslash \in Symbols
  BY DEF Symbols
<1>4. f \in [1..(Len(s) + 2) -> Seq(Symbols)] /\ Unescapes(f, s)
  BY <1>1, <1>2, <1>3, UnescapesMore
<1>5. /\ s \in Seq(Symbols) /\ Len(r) \in Nat /\ Len(s) = Len(r) + 1 /\ s[1] = d
  BY InFront
<1>6. PICK g : g = UnescapeMore(Backslash, s, f, t)
  OBVIOUS
<1>7. Unescapes(g, t)
  BY <1>3, <1>4, <1>5, <1>6, UnescapesMore
<1>8. t \in Seq(Symbols) /\ Len(t) = Len(s) + 1
  BY <1>3, <1>5, InFront
<1>9. /\ 1 \in 1..(Len(t) + 2) /\ 2 \in 1..(Len(s) + 2) /\ 2 - 1 = 1 /\ 2 # 1
      /\ ~(Len(s) = 0)
  BY <1>5, <1>8
<1>10. f[2] = e[1]
  BY <1>2, <1>9, Zenon DEF UnescapeMore
<1>11. g[1] = UnescapePair(Backslash, s[1], f[1], f[2])
  BY <1>6, <1>9, Zenon DEF UnescapeMore
<1>12. UnescapeJson(t) = g[1] /\ UnescapeJson(s) = f[1] /\ UnescapeJson(r) = e[1]
  BY <1>1, <1>4, <1>5, <1>7, <1>8, UnescapeJsonIs
<1>13. QED
  BY <1>5, <1>10, <1>11, <1>12, Zenon

-------------------------------------------------------------------------------
(* Where a symbol is                                                       *)

LEMMA ContainsFirst ==
    ASSUME NEW S, NEW c \in S, NEW s \in Seq(S), NEW t, t = <<c>> \o s, NEW e
    PROVE  Contains(t, e) <=> c = e \/ Contains(s, e)
<1>1. /\ Len(s) \in Nat /\ Len(t) = Len(s) + 1 /\ t[1] = c
      /\ \A i \in 1..Len(s) : t[i + 1] = s[i]
  BY InFront
<1>2. ASSUME c = e
      PROVE  Contains(t, e)
  <2>1. 1 \in 1..Len(t)
    BY <1>1
  <2>2. QED
    BY <1>1, <1>2, <2>1, Zenon DEF Contains
<1>3. ASSUME Contains(s, e)
      PROVE  Contains(t, e)
  <2>1. PICK i \in 1..Len(s) : s[i] = e
    BY <1>3 DEF Contains
  <2>2. i + 1 \in 1..Len(t)
    BY <1>1
  <2>3. t[i + 1] = e
    BY <1>1, <2>1, Zenon
  <2>4. QED
    BY <2>2, <2>3, Zenon DEF Contains
<1>4. ASSUME Contains(t, e), c # e
      PROVE  Contains(s, e)
  <2>1. PICK i \in 1..Len(t) : t[i] = e
    BY <1>4 DEF Contains
  <2>2. i # 1
    BY <1>1, <1>4, <2>1
  <2>3. PICK j \in 1..Len(s) : i = j + 1
    <3>1. i - 1 \in 1..Len(s) /\ i = (i - 1) + 1
      BY <1>1, <2>2
    <3>2. QED
      BY <3>1
  <2>4. s[j] = e
    BY <1>1, <2>1, <2>3, Zenon
  <2>5. QED
    BY <2>4 DEF Contains
<1>5. QED
  BY <1>2, <1>3, <1>4

\* The first c in s from a position on is at k; there is none.
FirstAt(s, c, from, k) ==
    k \in from..Len(s) /\ s[k] = c /\ \A i \in from..(k - 1) : s[i] # c

NoneFrom(s, c, from) == \A i \in from..Len(s) : s[i] # c

LEMMA IndexIs ==
    ASSUME NEW s, Len(s) \in Nat, NEW c, NEW from \in Nat, from >= 1
    PROVE  \/ IndexOf(s, c, from) = 0 /\ NoneFrom(s, c, from)
           \/ FirstAt(s, c, from, IndexOf(s, c, from))
<1> DEFINE I == {i \in from..Len(s) : s[i] = c}
<1>1. IndexOf(s, c, from) = IF I # {} THEN Min(I) ELSE 0
  BY DEF IndexOf, SelectInSubSeq
<1>2. CASE I = {}
  BY <1>1, <1>2 DEF NoneFrom
<1>3. CASE I # {}
  <2>1. I \subseteq Nat
    OBVIOUS
  <2>2. PICK m \in I : \A k \in Nat : k < m => k \notin I
    <3> HIDE DEF I
    <3>1. QED
      BY <1>3, <2>1, LeastNatural
  <2>3. \A k \in I : m <= k
    <3> HIDE DEF I
    <3>1. QED
      BY <2>1, <2>2
  <2>4. PICK k : k = Min(I)
    OBVIOUS
  <2>5. k \in I /\ \A i \in I : k <= i
    <3> HIDE DEF I
    <3>1. Min(I) \in I /\ \A i \in I : Min(I) <= i
      BY <2>3, Zenon DEF Min
    <3>2. QED
      BY <2>4, <3>1
  <2>6. \A i \in from..(k - 1) : s[i] # c
    <3>1. ASSUME NEW i \in from..(k - 1), s[i] = c
          PROVE  FALSE
      <4>1. i \in from..Len(s) /\ ~(k <= i)
        BY <2>5
      <4>2. QED
        BY <2>5, <3>1, <4>1
    <3>2. QED
      BY <3>1
  <2>7. FirstAt(s, c, from, k)
    BY <2>5, <2>6 DEF FirstAt
  <2>8. QED
    BY <1>1, <1>3, <2>4, <2>7
<1>4. QED
  BY <1>2, <1>3

LEMMA IndexAt ==
    ASSUME NEW s, Len(s) \in Nat, NEW c, NEW from \in Nat, from >= 1,
           NEW k, FirstAt(s, c, from, k)
    PROVE  IndexOf(s, c, from) = k
<1>1. PICK m : m = IndexOf(s, c, from)
  OBVIOUS
<1>2. (m = 0 /\ NoneFrom(s, c, from)) \/ FirstAt(s, c, from, m)
  BY <1>1, IndexIs, Zenon
<1>3. k \in from..Len(s) /\ s[k] = c /\ \A i \in from..(k - 1) : s[i] # c
  BY DEF FirstAt
<1>4. m \in from..Len(s) /\ s[m] = c /\ \A i \in from..(m - 1) : s[i] # c
  BY <1>2, <1>3 DEF FirstAt, NoneFrom
<1>5. ~(m < k)
  <2>1. m < k => m \in from..(k - 1)
    BY <1>3, <1>4
  <2>2. QED
    BY <1>3, <1>4, <2>1
<1>6. ~(k < m)
  <2>1. k < m => k \in from..(m - 1)
    BY <1>3, <1>4
  <2>2. QED
    BY <1>3, <1>4, <2>1
<1>7. QED
  BY <1>1, <1>3, <1>4, <1>5, <1>6

LEMMA IndexNone ==
    ASSUME NEW s, Len(s) \in Nat, NEW c, NEW from \in Nat, from >= 1,
           NoneFrom(s, c, from)
    PROVE  IndexOf(s, c, from) = 0
<1>1. PICK m : m = IndexOf(s, c, from)
  OBVIOUS
<1>2. m = 0 \/ FirstAt(s, c, from, m)
  BY <1>1, IndexIs, Zenon
<1>3. QED
  BY <1>1, <1>2 DEF FirstAt, NoneFrom

\* What the code takes of a text: all of it, or what is before its first quotation mark
\* and the backslash of that mark's escape.
UpToQuote(said) ==
    LET quote == IndexOf(said, Quote, 1) IN
    IF quote = 0 THEN said ELSE Append(SubSeq(said, 1, quote - 1), Backslash)

LEMMA UpToQuoteOfNothing == UpToQuote(<<>>) = <<>>
<1>1. Len(<<>>) = 0
  OBVIOUS
<1>2. NoneFrom(<<>>, Quote, 1) /\ Len(<<>>) \in Nat /\ 1 \in Nat /\ 1 >= 1
  BY <1>1 DEF NoneFrom
<1>3. IndexOf(<<>>, Quote, 1) = 0
  BY <1>2, IndexNone, Zenon
<1>4. QED
  BY <1>3 DEF UpToQuote

LEMMA UpToQuoteAtQuote ==
    ASSUME NEW s \in Seq(Read), NEW t, t = <<Quote>> \o s
    PROVE  UpToQuote(t) = <<Backslash>>
<1>1. Quote \in Read
  BY DEF Read, Symbols
<1>2. t \in Seq(Read) /\ Len(s) \in Nat /\ Len(t) = Len(s) + 1 /\ t[1] = Quote
  BY <1>1, InFront
<1>3. Len(t) \in Nat /\ 1 \in Nat /\ 1 >= 1 /\ FirstAt(t, Quote, 1, 1)
  BY <1>2 DEF FirstAt
<1>4. IndexOf(t, Quote, 1) = 1
  BY <1>3, IndexAt, Zenon
<1>5. SubSeq(t, 1, 1 - 1) = <<>>
  <2>1. 1 \in Int /\ 1 - 1 \in Int /\ 1 - 1 < 1
    OBVIOUS
  <2>2. QED
    BY <2>1, SubSeqEmpty, Zenon
<1>6. Append(<<>>, Backslash) = <<Backslash>> /\ 1 # 0
  OBVIOUS
<1>7. UpToQuote(t) = Append(SubSeq(t, 1, 1 - 1), Backslash)
  BY <1>4, <1>6, Zenon DEF UpToQuote
<1>8. QED
  BY <1>5, <1>6, <1>7, Zenon

LEMMA UpToQuoteAfter ==
    ASSUME NEW c \in Read, c # Quote, NEW s \in Seq(Read), NEW t, t = <<c>> \o s
    PROVE  UpToQuote(t) = <<c>> \o UpToQuote(s)
<1>1. /\ t \in Seq(Read) /\ Len(s) \in Nat /\ Len(t) = Len(s) + 1 /\ t[1] = c
      /\ \A i \in 1..Len(s) : t[i + 1] = s[i]
  BY InFront
<1>2. PICK m : m = IndexOf(s, Quote, 1)
  OBVIOUS
<1>o. 1 \in Nat /\ 1 >= 1 /\ Len(t) \in Nat
  BY <1>1
<1>3. (m = 0 /\ NoneFrom(s, Quote, 1)) \/ FirstAt(s, Quote, 1, m)
  BY <1>1, <1>o, <1>2, IndexIs, Zenon
<1>4. \A i \in 1..Len(t) : i = 1 \/ (i - 1 \in 1..Len(s) /\ t[i] = s[i - 1])
  <2>1. ASSUME NEW i \in 1..Len(t), i # 1
        PROVE  i - 1 \in 1..Len(s) /\ t[i] = s[i - 1]
    <3>1. i - 1 \in 1..Len(s) /\ i = (i - 1) + 1
      BY <1>1, <2>1
    <3>2. QED
      BY <1>1, <3>1, Zenon
  <2>2. QED
    BY <2>1
<1>5. CASE m = 0
  <2>1. NoneFrom(t, Quote, 1)
    <3>1. NoneFrom(s, Quote, 1)
      BY <1>3, <1>5 DEF FirstAt
    <3>2. QED
      BY <1>1, <1>4, <3>1 DEF NoneFrom
  <2>2. IndexOf(t, Quote, 1) = 0
    BY <1>o, <2>1, IndexNone, Zenon
  <2>3. UpToQuote(t) = t /\ UpToQuote(s) = s
    BY <1>2, <1>5, <2>2 DEF UpToQuote
  <2>4. QED
    BY <2>3
<1>6. CASE m # 0
  <2>1. m \in 1..Len(s) /\ s[m] = Quote /\ \A i \in 1..(m - 1) : s[i] # Quote
    BY <1>3, <1>6 DEF FirstAt
  <2>2. IndexOf(t, Quote, 1) = m + 1
    <3>1. m + 1 \in 1..Len(t) /\ t[m + 1] = Quote
      BY <1>1, <2>1
    <3>2. ASSUME NEW i \in 1..((m + 1) - 1)
          PROVE  t[i] # Quote
      <4>1. i \in 1..Len(t) /\ (i # 1 => i - 1 \in 1..(m - 1))
        BY <1>1, <2>1
      <4>2. QED
        BY <1>1, <1>4, <2>1, <4>1
    <3>3. FirstAt(t, Quote, 1, m + 1)
      BY <3>1, <3>2 DEF FirstAt
    <3>4. QED
      BY <1>o, <3>3, IndexAt, Zenon
  <2>3. PICK u \in Seq(Read) : /\ u = SubSeq(s, 1, m - 1) /\ Len(u) = m - 1
                               /\ \A i \in 1..(m - 1) : u[i] = s[i]
    <3>1. \A i \in 1..(m - 1) : s[i] \in Read
      <4>1. TAKE i \in 1..(m - 1)
      <4>2. i \in 1..Len(s)
        BY <1>1, <2>1
      <4>3. QED
        BY <4>2, ElementOfSeq
    <3>2. 1 \in Int /\ m - 1 \in Int /\ (m - 1) - 1 + 1 = m - 1
      BY <2>1
    <3>3. /\ SubSeq(s, 1, m - 1) \in Seq(Read)
          /\ Len(SubSeq(s, 1, m - 1)) = IF 1 <= m - 1 THEN (m - 1) - 1 + 1 ELSE 0
          /\ \A i \in 1..((m - 1) - 1 + 1) : SubSeq(s, 1, m - 1)[i] = s[1 + i - 1]
      BY <3>1, <3>2, SubSeqProperties
    <3>4. \A i \in 1..(m - 1) : 1 + i - 1 = i
      BY <2>1
    <3>5. Len(SubSeq(s, 1, m - 1)) = m - 1
      BY <2>1, <3>3
    <3>6. QED
      BY <3>2, <3>3, <3>4, <3>5, Zenon
  <2>4. SubSeq(t, 1, m) = <<c>> \o u
    <3>1. PICK v : v = <<c>> \o u
      OBVIOUS
    <3>2. /\ v \in Seq(Read) /\ Len(u) \in Nat /\ Len(v) = Len(u) + 1 /\ v[1] = c
          /\ \A i \in 1..Len(u) : v[i + 1] = u[i]
      BY <3>1, InFront
    <3>3. \A i \in 1..m : t[i] \in Read
      <4>1. TAKE i \in 1..m
      <4>2. i \in 1..Len(t)
        BY <1>1, <2>1
      <4>3. QED
        BY <1>1, <4>2, ElementOfSeq
    <3>4. /\ SubSeq(t, 1, m) \in Seq(Read)
          /\ Len(SubSeq(t, 1, m)) = m
          /\ \A i \in 1..m : SubSeq(t, 1, m)[i] = t[i]
      <4>1. /\ SubSeq(t, 1, m) \in Seq(Read)
            /\ Len(SubSeq(t, 1, m)) = IF 1 <= m THEN m - 1 + 1 ELSE 0
            /\ \A i \in 1..(m - 1 + 1) : SubSeq(t, 1, m)[i] = t[1 + i - 1]
        BY <2>1, <3>3, SubSeqProperties
      <4>2. m - 1 + 1 = m /\ 1 <= m /\ \A i \in 1..m : 1 + i - 1 = i
        BY <2>1
      <4>3. QED
        BY <4>1, <4>2, Zenon
    <3>5. ASSUME NEW i \in 1..m
          PROVE  t[i] = v[i]
      <4>1. CASE i = 1
        BY <1>1, <3>2, <4>1
      <4>2. CASE i # 1
        <5>1. i - 1 \in 1..Len(u) /\ i - 1 \in 1..(m - 1) /\ i \in 1..Len(t) /\ (i - 1) + 1 = i
          BY <1>1, <2>1, <2>3, <4>2
        <5>2. v[i] = u[i - 1] /\ u[i - 1] = s[i - 1] /\ t[i] = s[i - 1]
          BY <1>4, <2>3, <3>2, <4>2, <5>1, Zenon
        <5>3. QED
          BY <5>2
      <4>3. QED
        BY <4>1, <4>2
    <3>6. Len(v) = m
      BY <2>1, <2>3, <3>2
    <3>7. SubSeq(t, 1, m) = v
      <4>1. PICK x \in Seq(Read) : x = SubSeq(t, 1, m)
        BY <3>4
      <4>2. Len(x) = m /\ \A i \in 1..m : x[i] = v[i]
        BY <3>4, <3>5, <4>1
      <4>3. v \in Seq(Read)
        BY <3>2
      <4>4. x = v
        BY <3>6, <4>2, <4>3, SeqEqual
      <4>5. QED
        BY <4>1, <4>4
    <3>8. QED
      BY <3>1, <3>7
  <2>5. (m + 1) - 1 = m /\ m + 1 # 0
    BY <2>1
  <2>6. UpToQuote(t) = Append(SubSeq(t, 1, m), Backslash)
    BY <2>2, <2>5 DEF UpToQuote
  <2>7. UpToQuote(s) = Append(u, Backslash)
    BY <1>2, <1>6, <2>3 DEF UpToQuote
  <2>8. Append(<<c>> \o u, Backslash) = <<c>> \o Append(u, Backslash)
    <3>1. Backslash \in Read
      BY DEF Read, Symbols
    <3>2. QED
      BY <3>1, AppendAfter
  <2>9. QED
    BY <2>4, <2>6, <2>7, <2>8, Zenon
<1>7. QED
  BY <1>5, <1>6

-------------------------------------------------------------------------------
(* The content of an answer                                                *)

LEMMA JoinAfter ==
    ASSUME NEW S, NEW c \in S, NEW r \in Seq(S), NEW z \in Seq(S), NEW q, q = <<c>> \o r
    PROVE  q \o z = <<c>> \o (r \o z)
<1>1. PICK first \in Seq(S) : first = <<c>>
  <2>1. <<c>> \in Seq(S)
    OBVIOUS
  <2>2. QED
    BY <2>1, Zenon
<1>2. \A x, y, w \in Seq(S) : (x \o y) \o w = x \o (y \o w)
  BY ConcatAssociative
<1>3. (first \o r) \o z = first \o (r \o z)
  BY <1>2, Zenon
<1>4. QED
  BY <1>1, <1>3, Zenon

\* A content string, closed by a quote, of which unescapeJson is given what precedes the
\* first quote: unless an escape in it is not to be read or stands for a control character.
LEMMA CutAtQuote ==
    ASSUME NEW h \in Seq(Symbols), ~Contains(h, Quote),
           NEW z \in Seq(Symbols), NEW rest, rest = <<Quote>> \o z,
           ~Contains(ReadJson(h \o rest), Broken), ~Contains(ReadJson(h \o rest), Control)
    PROVE  UnescapeJson(h) = UpToQuote(ReadJson(h \o rest))
<1> DEFINE Readable(q) == /\ ~Contains(q, Quote)
                          /\ ~Contains(ReadJson(q \o rest), Broken)
                          /\ ~Contains(ReadJson(q \o rest), Control)
           Cuts(q) == Readable(q) => UnescapeJson(q) = UpToQuote(ReadJson(q \o rest))
           T == {n \in Nat : \E q \in Seq(Symbols) : Len(q) = n /\ ~Cuts(q)}
<1>1. SUFFICES ASSUME T # {}
               PROVE  FALSE
  <2>1. Len(h) \in Nat
    BY EmptySeq
  <2>2. Len(h) \notin T
    BY <1>1
  <2> HIDE DEF Cuts
  <2>3. Cuts(h)
    BY <2>1, <2>2
  <2>4. QED
    BY <2>3 DEF Cuts
<1>2. PICK n \in T : \A k \in Nat : k < n => k \notin T
  <2> HIDE DEF T
  <2>1. T \subseteq Nat
    BY DEF T
  <2>2. QED
    BY <1>1, <2>1, LeastNatural
<1>3. PICK q \in Seq(Symbols) : Len(q) = n /\ ~Cuts(q)
  OBVIOUS
<1>4. Readable(q) /\ UnescapeJson(q) # UpToQuote(ReadJson(q \o rest))
  BY <1>3
<1>5. \A r \in Seq(Symbols) : Len(r) < n => Cuts(r)
  <2>1. TAKE r \in Seq(Symbols)
  <2>2. Len(r) \in Nat
    BY EmptySeq
  <2>3. Len(r) < n => Len(r) \notin T
    BY <1>2, <2>2
  <2> HIDE DEF Cuts
  <2>4. QED
    BY <2>2, <2>3
<1>6. rest \in Seq(Symbols) /\ Quote \in Symbols /\ Backslash \in Symbols
  <2>1. Quote \in Symbols /\ Backslash \in Symbols
    BY DEF Symbols
  <2>2. <<Quote>> \o z \in Seq(Symbols)
    BY <2>1, SymbolInFront
  <2>3. QED
    BY <2>1, <2>2
<1>7. \A r \in Seq(Symbols) : /\ r \o rest \in Seq(Symbols)
                              /\ ReadJson(r \o rest) \in Seq(Read)
  BY <1>6, ConcatProperties, ReadType
<1> HIDE DEF Readable
<1>8. q # <<>>
  <2>1. SUFFICES ASSUME q = <<>>
                 PROVE  FALSE
    OBVIOUS
  <2>2. q \o rest = rest
    BY <1>6, <2>1, ConcatEmptySeq
  <2>3. ReadJson(rest) = <<>>
    BY <1>6, ReadSymbol, SymbolsDiffer
  <2>4. QED
    BY <1>4, <2>1, <2>2, <2>3, UpToQuoteOfNothing, UnescapeNone
<1>9. PICK c \in Symbols, r \in Seq(Symbols) : q = <<c>> \o r /\ Len(q) = Len(r) + 1
  BY <1>8, FirstAndRest
<1>10. PICK u \in Seq(Symbols) : u = r \o rest
  BY <1>7
<1>11. q \o rest = <<c>> \o u
  <2>1. q = <<c>> \o r
    BY <1>9
  <2>2. QED
    BY <1>6, <1>10, <2>1, JoinAfter
<1>12. c # Quote /\ ~Contains(r, Quote)
  <2>1. q = <<c>> \o r
    BY <1>9
  <2>2. Contains(q, Quote) <=> c = Quote \/ Contains(r, Quote)
    BY <2>1, ContainsFirst
  <2>3. QED
    BY <1>4, <2>2 DEF Readable
<1>13. c = Backslash
  <2>1. SUFFICES ASSUME c # Backslash
                 PROVE  FALSE
    OBVIOUS
  <2>2. PICK s \in Seq(Read) : s = ReadJson(u)
    BY ReadType
  <2>3. ReadJson(q \o rest) = <<c>> \o s
    <3>1. PICK t : t = <<c>> \o u
      OBVIOUS
    <3>2. ReadJson(t) = IF c = Quote THEN <<>> ELSE <<c>> \o ReadJson(u)
      BY <2>1, <3>1, ReadSymbol
    <3>3. QED
      BY <1>11, <1>12, <2>2, <3>1, <3>2, Zenon
  <2>4. c \in Read
    BY DEF Read
  <2>5. \A e : Contains(<<c>> \o s, e) <=> c = e \/ Contains(s, e)
    <3>1. PICK t : t = <<c>> \o s
      OBVIOUS
    <3>2. \A e : Contains(t, e) <=> c = e \/ Contains(s, e)
      BY <2>4, <3>1, ContainsFirst
    <3>3. QED
      BY <3>1, <3>2
  <2>6. Readable(r)
    BY <1>4, <1>10, <1>12, <2>2, <2>3, <2>5, Zenon DEF Readable
  <2>7. UnescapeJson(r) = UpToQuote(s)
    <3>1. Len(r) < n
      BY <1>3, <1>9, LenProperties
    <3>2. Cuts(r)
      BY <1>5, <3>1
    <3>3. QED
      BY <1>10, <2>2, <2>6, <3>2
  <2>8. UnescapeJson(q) = <<c>> \o UnescapeJson(r)
    <3>1. q = <<c>> \o r
      BY <1>9
    <3>2. QED
      BY <2>1, <3>1, UnescapeSymbol
  <2>9. UpToQuote(<<c>> \o s) = <<c>> \o UpToQuote(s)
    <3>1. PICK t : t = <<c>> \o s
      OBVIOUS
    <3>2. UpToQuote(t) = <<c>> \o UpToQuote(s)
      BY <1>12, <2>4, <3>1, UpToQuoteAfter
    <3>3. QED
      BY <3>1, <3>2
  <2>10. QED
    BY <1>4, <2>3, <2>7, <2>8, <2>9, Zenon
<1>14. r # <<>>
  <2>1. SUFFICES ASSUME r = <<>>
                 PROVE  FALSE
    OBVIOUS
  <2>2. u = <<Quote>> \o z
    BY <1>6, <1>10, <2>1, ConcatEmptySeq
  <2>3. PICK t : t = <<Backslash>> \o u
    OBVIOUS
  <2>4. ReadJson(t) = IF Quote \in DOMAIN Meaning THEN <<Meaning[Quote]>> \o ReadJson(z)
                      ELSE <<Broken>>
    BY <1>6, <2>2, <2>3, ReadEscape
  <2>5. ReadJson(q \o rest) = <<Quote>> \o ReadJson(z)
    BY <1>11, <1>13, <2>3, <2>4, MeaningIs
  <2>6. UpToQuote(ReadJson(q \o rest)) = <<Backslash>>
    <3>1. ReadJson(z) \in Seq(Read)
      BY ReadType
    <3>2. QED
      BY <2>5, <3>1, UpToQuoteAtQuote
  <2>7. UnescapeJson(q) = <<Backslash>> \o <<>>
    <3>1. q = <<Backslash>> \o r
      BY <1>9, <1>13
    <3>2. UnescapeJson(q) = <<Backslash>> \o UnescapeJson(r)
      BY <1>6, <2>1, <3>1, UnescapeSymbol
    <3>3. QED
      BY <2>1, <3>2, UnescapeNone
  <2>8. QED
    BY <1>4, <2>6, <2>7
<1>15. PICK d \in Symbols, p \in Seq(Symbols) : r = <<d>> \o p /\ Len(r) = Len(p) + 1
  BY <1>14, FirstAndRest
<1>16. PICK v \in Seq(Symbols) : v = p \o rest
  BY <1>7
<1>17. u = <<d>> \o v
  <2>1. r = <<d>> \o p
    BY <1>15
  <2>2. r \o rest = <<d>> \o (p \o rest)
    BY <1>6, <2>1, JoinAfter
  <2>3. QED
    BY <1>10, <1>16, <2>2, Zenon
<1>18. PICK s \in Seq(Read) : s = ReadJson(v)
  BY ReadType
<1>19. ReadJson(q \o rest) = IF d \in DOMAIN Meaning THEN <<Meaning[d]>> \o s ELSE <<Broken>>
  <2>1. PICK t : t = <<Backslash>> \o u
    OBVIOUS
  <2>2. ReadJson(t) = IF d \in DOMAIN Meaning THEN <<Meaning[d]>> \o ReadJson(v) ELSE <<Broken>>
    BY <1>17, <2>1, ReadEscape
  <2>3. QED
    BY <1>11, <1>13, <1>18, <2>1, <2>2, Zenon
<1>20. d \in DOMAIN Meaning
  <2>1. Contains(<<Broken>>, Broken)
    BY DEF Contains
  <2>2. QED
    BY <1>4, <1>19, <2>1, Zenon DEF Readable
<1>21. PICK m \in Read : m = Meaning[d]
  BY <1>20, MeaningIs DEF Read, Symbols
<1>22. \A e : Contains(<<m>> \o s, e) <=> m = e \/ Contains(s, e)
  <2>1. PICK t : t = <<m>> \o s
    OBVIOUS
  <2>2. \A e : Contains(t, e) <=> m = e \/ Contains(s, e)
    BY <2>1, ContainsFirst
  <2>3. QED
    BY <2>1, <2>2
<1>23. ReadJson(q \o rest) = <<m>> \o s
  BY <1>19, <1>20, <1>21, Zenon
<1>24. d # Quote /\ ~Contains(p, Quote)
  <2>1. r = <<d>> \o p
    BY <1>15
  <2>2. Contains(r, Quote) <=> d = Quote \/ Contains(p, Quote)
    BY <2>1, ContainsFirst
  <2>3. QED
    BY <1>12, <2>2
<1>25. d \in {Backslash, LetterN}
  <2>1. m # Control
    BY <1>4, <1>22, <1>23, Zenon DEF Readable
  <2>2. QED
    BY <1>20, <1>21, <1>24, <2>1, MeaningIs
<1>26. Readable(p)
  BY <1>4, <1>16, <1>18, <1>22, <1>23, <1>24, Zenon DEF Readable
<1>27. UnescapeJson(p) = UpToQuote(s)
  <2>1. Len(p) < n
    BY <1>3, <1>9, <1>15, LenProperties
  <2>2. Cuts(p)
    BY <1>5, <2>1
  <2>3. QED
    BY <1>16, <1>18, <1>26, <2>2
<1>28. UnescapeJson(q) = <<m>> \o UnescapeJson(p)
  <2>1. q = <<Backslash>> \o r /\ r = <<d>> \o p
    BY <1>9, <1>13, <1>15
  <2>2. UnescapeJson(q) = UnescapePair(Backslash, d, UnescapeJson(r), UnescapeJson(p))
    BY <2>1, UnescapeEscape
  <2>3. UnescapePair(Backslash, d, UnescapeJson(r), UnescapeJson(p)) = <<m>> \o UnescapeJson(p)
    BY <1>21, <1>25, MeaningIs, SymbolsDiffer DEF UnescapePair
  <2>4. QED
    BY <2>2, <2>3, Zenon
<1>29. UpToQuote(<<m>> \o s) = <<m>> \o UpToQuote(s)
  <2>1. m # Quote
    BY <1>21, <1>25, MeaningIs, SymbolsDiffer
  <2>2. PICK t : t = <<m>> \o s
    OBVIOUS
  <2>3. UpToQuote(t) = <<m>> \o UpToQuote(s)
    BY <2>1, <2>2, UpToQuoteAfter
  <2>4. QED
    BY <2>2, <2>3
<1>30. QED
  BY <1>4, <1>23, <1>27, <1>28, <1>29, Zenon

LEMMA ContentSymbols ==
    \A c \in Contents : c \in Seq(Symbols) /\ Len(c) <= MaxContent
<1> DEFINE A == {Letter, LetterN, Quote, Backslash, Hex}
<1>1. ASSUME NEW c \in Contents
      PROVE  c \in Seq(Symbols) /\ Len(c) <= MaxContent
  <2>1. c \in UNION {[1..m -> A] : m \in 0..MaxContent}
    BY DEF Contents, BoundedSeq, SeqOf
  <2>2. A \subseteq Symbols
    BY DEF Symbols
  <2> HIDE DEF A
  <2>3. PICK m \in 0..MaxContent : c \in [1..m -> A]
    BY <2>1
  <2>4. m \in Nat /\ m <= MaxContent
    BY AIAssumption
  <2>5. c \in Seq(A) /\ Len(c) = m
    BY <2>3, <2>4
  <2>6. QED
    BY <2>2, <2>4, <2>5
<1>2. QED
  BY <1>1

\* h is what precedes position k in w.
Precedes(h, w, k) == Len(h) = k - 1 /\ \A i \in 1..(k - 1) : h[i] = w[i]

LEMMA SplitAt ==
    ASSUME NEW S, NEW w \in Seq(S), NEW k \in 1..Len(w), NEW h \in Seq(S), Precedes(h, w, k)
    PROVE  /\ SubSeq(w, k + 1, Len(w)) \in Seq(S)
           /\ w = h \o (<<w[k]>> \o SubSeq(w, k + 1, Len(w)))
<1>h. Len(h) = k - 1 /\ \A i \in 1..(k - 1) : h[i] = w[i]
  BY DEF Precedes
<1>e. PICK e : e = w[k]
  OBVIOUS
<1>1. Len(w) \in Nat /\ k \in Nat /\ k >= 1 /\ k <= Len(w) /\ k + 1 \in Int /\ Len(w) \in Int
  BY LenProperties
<1>2. PICK n \in Nat : n = Len(w) - k
  BY <1>1
<1>3. PICK z \in Seq(S) : /\ z = SubSeq(w, k + 1, Len(w))
                          /\ Len(z) = n /\ \A i \in 1..n : z[i] = w[k + i]
  <2>1. \A i \in (k + 1)..Len(w) : w[i] \in S
    <3>1. TAKE i \in (k + 1)..Len(w)
    <3>2. i \in 1..Len(w)
      BY <1>1
    <3>3. QED
      BY <3>2, ElementOfSeq
  <2>2. PICK x : x = SubSeq(w, k + 1, Len(w))
    OBVIOUS
  <2>3. /\ x \in Seq(S)
        /\ Len(x) = IF k + 1 <= Len(w) THEN Len(w) - (k + 1) + 1 ELSE 0
        /\ \A i \in 1..(Len(w) - (k + 1) + 1) : x[i] = w[(k + 1) + i - 1]
    BY <1>1, <2>1, <2>2, SubSeqProperties
  <2>4. /\ Len(w) - (k + 1) + 1 = n /\ (~(k + 1 <= Len(w)) => n = 0)
        /\ \A i \in 1..n : (k + 1) + i - 1 = k + i
    BY <1>1, <1>2
  <2>5. Len(x) = n /\ \A i \in 1..n : x[i] = w[k + i]
    BY <2>3, <2>4, Zenon
  <2>6. QED
    BY <2>2, <2>3, <2>5
<1>4. e \in S
  BY <1>e, ElementOfSeq
<1>5. PICK t : t = <<e>> \o z
  OBVIOUS
<1>6. t \in Seq(S) /\ Len(t) = n + 1 /\ t[1] = e /\ \A i \in 1..n : t[i + 1] = z[i]
  BY <1>3, <1>4, <1>5, InFront
<1>7. PICK x \in Seq(S) : /\ x = h \o t
                          /\ Len(x) = Len(h) + Len(t)
                          /\ \A i \in 1..Len(h) : x[i] = h[i]
                          /\ \A i \in 1..Len(t) : x[Len(h) + i] = t[i]
  <2>1. t \in Seq(S)
    BY <1>6
  <2>2. /\ h \o t \in Seq(S)
        /\ Len(h \o t) = Len(h) + Len(t)
        /\ \A i \in 1..Len(h) : (h \o t)[i] = h[i]
        /\ \A i \in 1..Len(t) : (h \o t)[Len(h) + i] = t[i]
    <3>1. h \in Seq(S)
      OBVIOUS
    <3>2. QED
      BY ONLY <2>1, <3>1, Joined
  <2>3. QED
    BY <2>2
<1>8. Len(x) = Len(w)
  <2>1. Len(h) = k - 1
    BY <1>h
  <2>2. Len(x) = Len(h) + Len(t) /\ Len(t) = n + 1
    BY <1>6, <1>7
  <2>3. QED
    BY <1>1, <1>2, <2>1, <2>2
<1>9. ASSUME NEW i \in 1..Len(w)
      PROVE  w[i] = x[i]
  <2>1. CASE i < k
    <3>1. i \in 1..(k - 1)
      BY <1>1, <2>1
    <3>2. QED
      BY <1>h, <1>7, <3>1
  <2>2. CASE i = k
    <3>1. 1 \in 1..Len(t) /\ Len(h) + 1 = k
      BY <1>h, <1>1, <1>6
    <3>2. x[k] = t[1]
      BY <1>7, <3>1
    <3>3. QED
      BY <1>e, <1>6, <2>2, <3>2
  <2>3. CASE i > k
    <3>1. /\ i - k \in 1..n /\ k + (i - k) = i /\ (i - k) + 1 \in 1..Len(t)
          /\ Len(h) + ((i - k) + 1) = i
      BY <1>h, <1>1, <1>2, <1>6, <2>3
    <3>2. x[i] = t[(i - k) + 1] /\ t[(i - k) + 1] = z[i - k] /\ z[i - k] = w[i]
      BY <1>3, <1>6, <1>7, <3>1, Zenon
    <3>3. QED
      BY <3>2
  <2>4. QED
    BY <1>1, <2>1, <2>2, <2>3
<1>10. w = x
  BY <1>8, <1>9, SeqEqual
<1>11. QED
  BY <1>e, <1>3, <1>5, <1>7, <1>10

\* parseAIResponse finds the key, the quote after it and the first one after that.
LEMMA LineParsed ==
    ASSUME NEW content \in Seq(Symbols),
           NEW line, line = <<ContentKey, Quote>> \o content \o <<Quote, Letter>>
    PROVE  \E h, z \in Seq(Symbols) :
               /\ ~Contains(h, Quote)
               /\ Len(h) <= Len(content)
               /\ Append(content, Quote) = h \o (<<Quote>> \o z)
               /\ ParseAIResponse(line) = IF UnescapeJson(h) = <<>> THEN NoText
                                          ELSE UnescapeJson(h)
<1> DEFINE Chars == Symbols \union {ContentKey}
           n == Len(content)
<1>1. n \in Nat /\ Quote \in Symbols
  BY LenProperties DEF Symbols
<1>2. PICK w \in Seq(Symbols) : /\ w = Append(content, Quote) /\ Len(w) = n + 1
                                /\ w[n + 1] = Quote
                                /\ \A i \in 1..n : w[i] = content[i]
  BY <1>1, AppendProperties
<1>3. /\ Len(line) = n + 4
      /\ line[1] = ContentKey /\ line[2] = Quote
      /\ \A i \in 1..(n + 1) : line[i + 2] = w[i]
  <2>1. PICK front \in Seq(Chars) : /\ front = <<ContentKey, Quote>> /\ Len(front) = 2
                                    /\ front[1] = ContentKey /\ front[2] = Quote
    <3>1. <<ContentKey, Quote>> \in Seq(Chars)
      BY <1>1
    <3>2. QED
      BY <3>1
  <2>2. PICK back \in Seq(Chars) : back = <<Quote, Letter>> /\ Len(back) = 2 /\ back[1] = Quote
    <3>1. <<Quote, Letter>> \in Seq(Chars)
      BY DEF Symbols
    <3>2. QED
      BY <3>1
  <2>3. content \in Seq(Chars)
    OBVIOUS
  <2> HIDE DEF Chars
  <2>4. PICK x \in Seq(Chars) : /\ x = front \o content
                                /\ Len(x) = Len(front) + Len(content)
                                /\ \A i \in 1..Len(front) : x[i] = front[i]
                                /\ \A i \in 1..Len(content) : x[Len(front) + i] = content[i]
    <3>1. /\ front \o content \in Seq(Chars)
          /\ Len(front \o content) = Len(front) + Len(content)
          /\ \A i \in 1..Len(front) : (front \o content)[i] = front[i]
          /\ \A i \in 1..Len(content) : (front \o content)[Len(front) + i] = content[i]
      BY <2>3, Joined
    <3>2. QED
      BY <3>1
  <2>5. PICK y \in Seq(Chars) : /\ y = x \o back
                                /\ Len(y) = Len(x) + Len(back)
                                /\ \A i \in 1..Len(x) : y[i] = x[i]
                                /\ \A i \in 1..Len(back) : y[Len(x) + i] = back[i]
    <3>1. /\ x \o back \in Seq(Chars)
          /\ Len(x \o back) = Len(x) + Len(back)
          /\ \A i \in 1..Len(x) : (x \o back)[i] = x[i]
          /\ \A i \in 1..Len(back) : (x \o back)[Len(x) + i] = back[i]
      BY Joined
    <3>2. QED
      BY <3>1
  <2>6. y = line
    BY <2>1, <2>2, <2>4, <2>5
  <2>7. Len(x) = n + 2 /\ Len(y) = n + 4
    BY <1>1, <2>1, <2>2, <2>4, <2>5
  <2>8. y[1] = ContentKey /\ y[2] = Quote
    <3>1. 1 \in 1..Len(front) /\ 2 \in 1..Len(front) /\ 1 \in 1..Len(x) /\ 2 \in 1..Len(x)
      BY <1>1, <2>1, <2>7
    <3>2. QED
      BY <2>1, <2>4, <2>5, <3>1
  <2>9. ASSUME NEW i \in 1..(n + 1)
        PROVE  y[i + 2] = w[i]
    <3>1. CASE i \in 1..n
      <4>1. Len(front) + i = i + 2 /\ i + 2 \in 1..Len(x)
        BY <1>1, <2>1, <2>7, <3>1
      <4>2. x[i + 2] = content[i]
        BY <2>4, <3>1, <4>1
      <4>3. y[i + 2] = x[i + 2]
        BY <2>5, <4>1
      <4>4. QED
        BY <1>2, <3>1, <4>2, <4>3
    <3>2. CASE i = n + 1
      <4>1. 1 \in 1..Len(back) /\ Len(x) + 1 = i + 2
        BY <1>1, <2>2, <2>7, <3>2
      <4>2. y[i + 2] = back[1]
        BY <2>5, <4>1
      <4>3. QED
        BY <1>2, <2>2, <3>2, <4>2
    <3>3. QED
      BY <1>1, <3>1, <3>2
  <2>10. QED
    BY <2>6, <2>7, <2>8, <2>9
<1> HIDE DEF n
<1>4. IndexOf(line, ContentKey, 1) = 1
  <2>1. FirstAt(line, ContentKey, 1, 1)
    BY <1>1, <1>3 DEF FirstAt
  <2>2. Len(line) \in Nat /\ 1 \in Nat /\ 1 >= 1
    BY <1>1, <1>3
  <2>3. QED
    BY <2>1, <2>2, IndexAt, Zenon
<1>5. IndexOf(line, Quote, 1 + 1) = 2
  <2>1. FirstAt(line, Quote, 1 + 1, 2)
    BY <1>1, <1>3 DEF FirstAt
  <2>2. Len(line) \in Nat /\ 1 + 1 \in Nat /\ 1 + 1 >= 1
    BY <1>1, <1>3
  <2>3. QED
    BY <2>1, <2>2, IndexAt, Zenon
<1>6. PICK e : e = IndexOf(line, Quote, 2 + 1)
  OBVIOUS
<1>7. line[n + 3] = Quote /\ n + 3 \in 3..Len(line)
  <2>1. n + 1 \in 1..(n + 1) /\ (n + 1) + 2 = n + 3 /\ n + 3 \in 3..(n + 4)
    BY <1>1
  <2>2. QED
    BY <1>2, <1>3, <2>1
<1>8. e \in 3..(n + 3) /\ line[e] = Quote /\ \A i \in 3..(e - 1) : line[i] # Quote
  <2>1. Len(line) \in Nat /\ 2 + 1 \in Nat /\ 2 + 1 >= 1 /\ 2 + 1 = 3
    BY <1>1, <1>3
  <2>2. (e = 0 /\ NoneFrom(line, Quote, 3)) \/ FirstAt(line, Quote, 3, e)
    BY <1>6, <2>1, IndexIs, Zenon
  <2>3. e \in 3..Len(line) /\ line[e] = Quote /\ \A i \in 3..(e - 1) : line[i] # Quote
    BY <1>7, <2>2 DEF NoneFrom, FirstAt
  <2>4. ~(n + 3 < e)
    <3>1. n + 3 < e => n + 3 \in 3..(e - 1)
      BY <1>1, <2>3
    <3>2. QED
      BY <1>7, <2>3, <3>1
  <2>5. QED
    BY <1>1, <2>3, <2>4
<1>9. PICK k \in 1..(n + 1) : e = k + 2
  <2>1. e - 2 \in 1..(n + 1) /\ e = (e - 2) + 2
    BY <1>1, <1>8
  <2>2. QED
    BY <2>1
<1>10. w[k] = Quote /\ \A i \in 1..(k - 1) : w[i] # Quote
  <2>1. ASSUME NEW i \in 1..(k - 1)
        PROVE  w[i] # Quote
    <3>1. i \in 1..(n + 1) /\ i + 2 \in 3..(e - 1)
      BY <1>1, <1>9
    <3>2. QED
      BY <1>3, <1>8, <3>1
  <2>2. QED
    BY <1>3, <1>8, <1>9, <2>1
<1>11. PICK h : h = SubSeq(line, 2 + 1, e - 1)
  OBVIOUS
<1>12. h \in Seq(Symbols) /\ Len(h) = k - 1 /\ \A i \in 1..(k - 1) : h[i] = w[i]
  <2>1. ASSUME NEW i \in 3..(k + 1)
        PROVE  line[i] \in Symbols /\ line[i] = w[i - 2]
    <3>1. i - 2 \in 1..(n + 1) /\ (i - 2) + 2 = i /\ i - 2 \in 1..Len(w)
      BY <1>1, <1>2
    <3>2. line[i] = w[i - 2]
      BY <1>3, <3>1
    <3>3. QED
      BY <3>1, <3>2, ElementOfSeq
  <2>2. e - 1 = k + 1 /\ 2 + 1 = 3 /\ k + 1 \in Int /\ 3 \in Int
    BY <1>9
  <2>3. h = SubSeq(line, 3, k + 1)
    BY <1>11, <2>2, Zenon
  <2>4. \A i \in 3..(k + 1) : line[i] \in Symbols
    BY <2>1
  <2>5. /\ h \in Seq(Symbols)
        /\ Len(h) = IF 3 <= k + 1 THEN (k + 1) - 3 + 1 ELSE 0
        /\ \A i \in 1..((k + 1) - 3 + 1) : h[i] = line[3 + i - 1]
    <3>1. k + 1 \in Int /\ 3 \in Int
      BY <2>2
    <3>2. /\ SubSeq(line, 3, k + 1) \in Seq(Symbols)
          /\ Len(SubSeq(line, 3, k + 1)) = IF 3 <= k + 1 THEN (k + 1) - 3 + 1 ELSE 0
          /\ \A i \in 1..((k + 1) - 3 + 1) : SubSeq(line, 3, k + 1)[i] = line[3 + i - 1]
      BY ONLY <2>4, <3>1, SubSeqProperties
    <3>3. QED
      BY <2>3, <3>2, Zenon
  <2>6. (k + 1) - 3 + 1 = k - 1 /\ (~(3 <= k + 1) => k - 1 = 0)
    BY <1>1
  <2>7. ASSUME NEW i \in 1..(k - 1)
        PROVE  h[i] = w[i]
    <3>1. 3 + i - 1 \in 3..(k + 1) /\ (3 + i - 1) - 2 = i
      BY <1>1
    <3>2. h[i] = line[3 + i - 1]
      BY <2>5, <2>6
    <3>3. line[3 + i - 1] = w[(3 + i - 1) - 2]
      BY <2>1, <3>1
    <3>4. QED
      BY <3>1, <3>2, <3>3
  <2>8. QED
    BY <2>5, <2>6, <2>7
<1>13. ~Contains(h, Quote)
  BY <1>10, <1>12 DEF Contains
<1>14. Len(h) <= Len(content)
  BY <1>1, <1>12 DEF n
<1>15. PICK z \in Seq(Symbols) : w = h \o (<<Quote>> \o z)
  <2>1. k \in 1..Len(w)
    BY <1>2
  <2>2. h \in Seq(Symbols) /\ Precedes(h, w, k)
    BY <1>12 DEF Precedes
  <2>3. /\ SubSeq(w, k + 1, Len(w)) \in Seq(Symbols)
        /\ w = h \o (<<w[k]>> \o SubSeq(w, k + 1, Len(w)))
    BY <2>1, <2>2, SplitAt, Zenon
  <2>4. QED
    BY <1>10, <2>3
<1>16. ParseAIResponse(line) = IF UnescapeJson(h) = <<>> THEN NoText ELSE UnescapeJson(h)
  <2>1. ~(1 = 0 \/ 2 = 0 \/ e = 0)
    BY <1>1, <1>8
  <2>2. ParseAIResponse(line) =
            IF 1 = 0 \/ 2 = 0 \/ e = 0 \/ UnescapeJson(h) = <<>> THEN NoText
            ELSE UnescapeJson(h)
    BY <1>4, <1>5, <1>6, <1>11 DEF ParseAIResponse
  <2>3. QED
    BY <2>1, <2>2, Zenon
<1>17. QED
  BY <1>2, <1>12, <1>13, <1>14, <1>15, <1>16

LEMMA UpToQuoteOfSome ==
    ASSUME NEW s \in Seq(Read), s # <<>>
    PROVE  UpToQuote(s) # <<>>
<1>1. Len(s) \in Nat /\ 1 \in Nat /\ 1 >= 1 /\ 1 \in Int
  BY LenProperties
<1>2. PICK m : m = IndexOf(s, Quote, 1)
  OBVIOUS
<1>3. (m = 0 /\ NoneFrom(s, Quote, 1)) \/ FirstAt(s, Quote, 1, m)
  BY <1>1, <1>2, IndexIs, Zenon
<1>4. CASE m = 0
  BY <1>2, <1>4 DEF UpToQuote
<1>5. CASE m # 0
  <2>1. m \in 1..Len(s) /\ m - 1 \in Int
    BY <1>1, <1>3, <1>5 DEF FirstAt
  <2>2. \A i \in 1..(m - 1) : s[i] \in Read
    <3>1. TAKE i \in 1..(m - 1)
    <3>2. i \in 1..Len(s)
      BY <1>1, <2>1
    <3>3. QED
      BY <3>2, ElementOfSeq
  <2>3. SubSeq(s, 1, m - 1) \in Seq(Read)
    BY ONLY <1>1, <2>1, <2>2, SubSeqProperties
  <2>4. Backslash \in Read
    BY DEF Read, Symbols
  <2>5. Append(SubSeq(s, 1, m - 1), Backslash) # <<>>
    BY <2>3, <2>4, AppendProperties
  <2>6. UpToQuote(s) = Append(SubSeq(s, 1, m - 1), Backslash)
    BY <1>2, <1>5, Zenon DEF UpToQuote
  <2>7. QED
    BY <2>5, <2>6
<1>6. QED
  BY <1>4, <1>5

LEMMA AbsentParsed == ParseAIResponse(<<Letter>>) = NoText
<1>1. NoneFrom(<<Letter>>, ContentKey, 1) /\ Len(<<Letter>>) \in Nat /\ 1 \in Nat /\ 1 >= 1
  BY SymbolsDiffer DEF NoneFrom
<1>2. IndexOf(<<Letter>>, ContentKey, 1) = 0
  BY <1>1, IndexNone, Zenon
<1>3. QED
  BY <1>2 DEF ParseAIResponse

AnswerInv ==
    /\ answer \in Answers
    /\ step = "done" => text = ParseAIResponse(Line(answer))

LEMMA TextIsParsed == Spec => []AnswerInv
<1>1. Init => AnswerInv
  BY DEF Init, AnswerInv, Answers, NoAnswer, Forms
<1>2. ASSUME AnswerInv, [Next]_vars
      PROVE  AnswerInv'
  <2> USE <1>2 DEF AnswerInv
  <2>1. CASE BuildRequestBody
    BY <2>1 DEF BuildRequestBody
  <2>2. ASSUME NEW a \in Answers, Respond(a)
        PROVE  AnswerInv'
    BY <2>2 DEF Respond
  <2>3. CASE Parse
    BY <2>3 DEF Parse
  <2>4. CASE UNCHANGED vars
    BY <2>4 DEF vars
  <2>5. QED
    BY <2>1, <2>2, <2>3, <2>4 DEF Next
<1>3. QED
  BY <1>1, <1>2, PTL DEF Spec

\* An answer without a content has no text; one with a content has its text up to the
\* first quotation mark, and no text if it is empty.
AnswerCut ==
    step = "done" /\ answer.form # "null" /\ ~Contains(Said, Control) =>
        text = IF answer.form = "absent" \/ Said = <<>> THEN NoText ELSE UpToQuote(Said)

LEMMA SaidType ==
    ASSUME answer \in Answers, answer.form = "string"
    PROVE  Said \in Seq(Read)
<1>1. answer.content \in Seq(Symbols)
  BY ContentSymbols DEF Answers, Forms
<1>2. Quote \in Symbols
  BY DEF Symbols
<1>3. Append(answer.content, Quote) \in Seq(Symbols)
  BY <1>1, <1>2, AppendProperties
<1>4. QED
  BY <1>3, ReadType DEF Said

LEMMA ParsedIsCut ==
    ASSUME AnswerInv
    PROVE  AnswerCut
<1> DEFINE content == answer.content
           said == ReadJson(Append(content, Quote))
<1>1. SUFFICES ASSUME AnswerInv, step = "done", answer.form # "null",
                      ~Contains(said, Control)
               PROVE  text = IF answer.form = "absent" \/ said = <<>> THEN NoText
                             ELSE UpToQuote(said)
  BY DEF AnswerCut, Said
<1>2. text = ParseAIResponse(Line(answer)) /\ answer \in Answers
  BY <1>1 DEF AnswerInv
<1>3. CASE answer.form = "absent"
  <2>1. Line(answer) = <<Letter>>
    BY <1>3 DEF Line
  <2>2. QED
    BY <1>2, <1>3, <2>1, AbsentParsed
<1>4. CASE answer.form # "absent"
  <2>1. answer.form = "string" /\ content \in Contents
    BY <1>1, <1>2, <1>4 DEF Answers, Forms
  <2>2. Line(answer) = <<ContentKey, Quote>> \o content \o <<Quote, Letter>>
    BY <2>1 DEF Line
  <2>3. ~Contains(said, Broken)
    BY <2>1 DEF Contents
  <2>4. said \in Seq(Read)
    BY <1>2, <2>1, SaidType DEF Said
  <2>5. content \in Seq(Symbols)
    BY <2>1, ContentSymbols
  <2> HIDE DEF content
  <2>6. PICK line : line = <<ContentKey, Quote>> \o content \o <<Quote, Letter>>
    OBVIOUS
  <2>7. PICK h, z \in Seq(Symbols) :
            /\ ~Contains(h, Quote)
            /\ Len(h) <= Len(content)
            /\ Append(content, Quote) = h \o (<<Quote>> \o z)
            /\ ParseAIResponse(line) = IF UnescapeJson(h) = <<>> THEN NoText
                                       ELSE UnescapeJson(h)
    BY <2>5, <2>6, LineParsed
  <2>8. PICK rest : rest = <<Quote>> \o z
    OBVIOUS
  <2>9. said = ReadJson(h \o rest)
    BY <2>7, <2>8
  <2> HIDE DEF said
  <2>10. ~Contains(ReadJson(h \o rest), Broken) /\ ~Contains(ReadJson(h \o rest), Control)
    BY <1>1, <2>3, <2>9
  <2>11. UnescapeJson(h) = UpToQuote(said)
    BY <2>7, <2>8, <2>9, <2>10, CutAtQuote
  <2>12. said = <<>> <=> UnescapeJson(h) = <<>>
    BY <2>11, <2>4, UpToQuoteOfNothing, UpToQuoteOfSome
  <2>13. text = IF UnescapeJson(h) = <<>> THEN NoText ELSE UnescapeJson(h)
    BY <1>2, <2>2, <2>6, <2>7
  <2>14. QED
    BY <1>4, <2>11, <2>12, <2>13, Zenon
<1>5. QED
  BY <1>3, <1>4

\* What is taken for the text of an answer is what the service said, up to its first
\* quotation mark, where the backslash of the escape is left behind: so much does the
\* code do, whatever the length of the text and wherever its escapes are
\* (DiagnosisService.parseAIResponse, unescapeJson).
THEOREM TextIsCut == Spec => []AnswerCut
BY TextIsParsed, ParsedIsCut, PTL

\* A text without quotation marks is taken as the service said it, whatever its length
\* and wherever its escapes are; and nothing is taken out of an answer without a content
\* (DiagnosisService.parseAIResponse, unescapeJson).
THEOREM TextIsTaken == Spec => []UnquotedExtracted
<1>1. AnswerInv => UnquotedExtracted
  <2>1. SUFFICES ASSUME AnswerInv, step = "done", answer.form = "string",
                        ~Contains(Said, Control), ~Contains(Said, Quote)
                 PROVE  UpToQuote(Said) = Said
    <3>1. AnswerInv => AnswerCut /\ answer.form \in {"string", "null", "absent"}
      BY ParsedIsCut DEF AnswerInv, Answers, Forms
    <3>2. QED
      BY <2>1, <3>1 DEF AnswerCut, UnquotedExtracted
  <2>2. Said \in Seq(Read)
    BY <2>1, SaidType DEF AnswerInv
  <2>3. Len(Said) \in Nat /\ NoneFrom(Said, Quote, 1) /\ 1 \in Nat /\ 1 >= 1
    BY <2>1, <2>2, LenProperties DEF NoneFrom, Contains
  <2>4. IndexOf(Said, Quote, 1) = 0
    BY <2>3, IndexNone, Zenon
  <2>5. QED
    BY <2>4 DEF UpToQuote
<1>2. QED
  BY <1>1, TextIsParsed, PTL

-------------------------------------------------------------------------------
(* Lengths                                                                 *)

LEMMA LengthInFront ==
    ASSUME NEW S, NEW c \in S, NEW s \in Seq(S)
    PROVE  Len(s) \in Nat /\ Len(<<c>> \o s) = Len(s) + 1
<1>1. PICK t : t = <<c>> \o s
  OBVIOUS
<1>2. QED
  BY <1>1, InFront

\* escapeJson at most doubles the length.
LEMMA EscapeLength ==
    ASSUME NEW p \in Seq(Symbols)
    PROVE  Len(EscapeJson(p)) <= 2 * Len(p)
<1> DEFINE Short(q) == Len(EscapeJson(q)) <= 2 * Len(q)
           T == {n \in Nat : \E q \in Seq(Symbols) : Len(q) = n /\ ~Short(q)}
<1>1. SUFFICES ASSUME T # {}
               PROVE  FALSE
  <2>1. Len(p) \in Nat
    BY EmptySeq
  <2>2. QED
    BY <1>1, <2>1
<1>2. PICK n \in T : \A k \in Nat : k < n => k \notin T
  <2> HIDE DEF T
  <2>1. T \subseteq Nat
    BY DEF T
  <2>2. QED
    BY <1>1, <2>1, LeastNatural
<1>3. PICK q \in Seq(Symbols) : Len(q) = n /\ ~Short(q)
  OBVIOUS
<1>4. CASE q = <<>>
  <2>1. Len(EscapeJson(q)) = 0 /\ Len(q) = 0
    BY <1>4, EscapeNothing, EmptySeq
  <2>2. QED
    BY <1>3, <2>1
<1>5. CASE q # <<>>
  <2>1. PICK c \in Symbols, r \in Seq(Symbols) : q = <<c>> \o r /\ Len(q) = Len(r) + 1
    BY <1>5, FirstAndRest
  <2>2. Short(r)
    <3>1. Len(r) \in Nat /\ Len(r) < n
      BY <1>3, <2>1, EmptySeq
    <3>2. Len(r) \notin T
      BY <1>2, <3>1
    <3> HIDE DEF Short
    <3>3. QED
      BY <3>1, <3>2
  <2>3. PICK s \in Seq(Symbols) : s = EscapeJson(r)
    BY EscapeType
  <2>4. EscapeJson(q) = Escaped(c) \o s
    <3>1. q = <<c>> \o r
      BY <2>1
    <3>2. QED
      BY <2>3, <3>1, EscapeFirst
  <2>5. Len(Escaped(c) \o s) <= Len(s) + 2
    <3>1. Backslash \in Symbols /\ LetterN \in Symbols /\ Hex \in Symbols
      BY DEF Symbols
    <3>2. Len(s) \in Nat /\ \A d \in Symbols : Len(<<d>> \o s) = Len(s) + 1
      BY LengthInFront
    <3>3. \A d \in Symbols : Len(<<Backslash, d>> \o s) = Len(s) + 2
      <4>1. TAKE d \in Symbols
      <4>2. <<Backslash, d>> \o s = <<Backslash>> \o (<<d>> \o s)
        BY PairInFront
      <4>3. PICK t \in Seq(Symbols) : t = <<d>> \o s
        BY SymbolInFront
      <4>4. Len(<<Backslash>> \o t) = Len(t) + 1
        BY <3>1, LengthInFront
      <4>5. QED
        BY <3>2, <4>2, <4>3, <4>4
    <3>4. \/ Escaped(c) = <<Backslash, c>>
          \/ Escaped(c) = <<Backslash, LetterN>>
          \/ Escaped(c) = <<Backslash, Hex>>
          \/ Escaped(c) = <<c>>
      BY DEF Escaped
    <3>5. Len(Escaped(c) \o s) \in {Len(s) + 1, Len(s) + 2}
      BY <3>1, <3>2, <3>3, <3>4, Zenon
    <3>6. QED
      BY <3>2, <3>5
  <2>6. Len(s) \in Nat /\ Len(r) \in Nat
    BY LenProperties
  <2>7. QED
    BY <1>3, <2>1, <2>2, <2>3, <2>4, <2>5, <2>6
<1>6. QED
  BY <1>4, <1>5

\* unescapeJson never lengthens.
LEMMA UnescapeLength ==
    ASSUME NEW h \in Seq(Symbols)
    PROVE  Len(UnescapeJson(h)) <= Len(h)
<1> DEFINE Short(q) == Len(UnescapeJson(q)) <= Len(q)
           T == {n \in Nat : \E q \in Seq(Symbols) : Len(q) = n /\ ~Short(q)}
<1>1. SUFFICES ASSUME T # {}
               PROVE  FALSE
  <2>1. Len(h) \in Nat
    BY EmptySeq
  <2>2. QED
    BY <1>1, <2>1
<1>2. PICK n \in T : \A k \in Nat : k < n => k \notin T
  <2> HIDE DEF T
  <2>1. T \subseteq Nat
    BY DEF T
  <2>2. QED
    BY <1>1, <2>1, LeastNatural
<1>3. PICK q \in Seq(Symbols) : Len(q) = n /\ ~Short(q)
  OBVIOUS
<1>4. \A r \in Seq(Symbols) : Len(r) < n => Short(r)
  <2>1. TAKE r \in Seq(Symbols)
  <2>2. Len(r) \in Nat
    BY EmptySeq
  <2>3. Len(r) < n => Len(r) \notin T
    BY <1>2, <2>2
  <2> HIDE DEF Short
  <2>4. QED
    BY <2>2, <2>3
<1>5. q # <<>>
  <2>1. Len(<<>>) = 0
    OBVIOUS
  <2>2. QED
    BY <1>3, <2>1, UnescapeNone
<1>6. PICK c \in Symbols, r \in Seq(Symbols) : q = <<c>> \o r /\ Len(q) = Len(r) + 1
  BY <1>5, FirstAndRest
<1>7. Len(r) \in Nat /\ Len(q) = n /\ Len(r) < n
  BY <1>3, <1>6, LenProperties
<1>8. PICK s \in Seq(Symbols) : s = UnescapeJson(r)
  BY UnescapeType
<1>9. Len(s) \in Nat /\ Len(s) <= Len(r)
  BY <1>4, <1>7, <1>8, LenProperties
<1>10. UnescapeJson(q) # <<c>> \o s
  <2>1. Len(<<c>> \o s) = Len(s) + 1
    BY LengthInFront
  <2>2. QED
    BY <1>3, <1>6, <1>9, <2>1
<1>11. c = Backslash /\ r # <<>>
  <2>1. SUFFICES ASSUME c # Backslash \/ r = <<>>
                 PROVE  FALSE
    OBVIOUS
  <2>2. q = <<c>> \o r
    BY <1>6
  <2>3. UnescapeJson(q) = <<c>> \o UnescapeJson(r)
    BY <2>1, <2>2, UnescapeSymbol
  <2>4. QED
    BY <1>8, <1>10, <2>3
<1>12. PICK d \in Symbols, p \in Seq(Symbols) : r = <<d>> \o p /\ Len(r) = Len(p) + 1
  BY <1>11, FirstAndRest
<1>13. PICK t \in Seq(Symbols) : t = UnescapeJson(p)
  BY UnescapeType
<1>14. Len(p) \in Nat /\ Len(t) \in Nat /\ Len(t) <= Len(p)
  <2>1. Len(p) \in Nat /\ Len(t) \in Nat
    BY LenProperties
  <2>2. Len(p) < n
    BY <1>7, <1>12, <2>1
  <2>3. QED
    BY <1>4, <1>13, <2>1, <2>2
<1>15. UnescapeJson(q) = UnescapePair(Backslash, d, s, t)
  <2>1. q = <<Backslash>> \o r /\ r = <<d>> \o p
    BY <1>6, <1>11, <1>12
  <2>2. UnescapeJson(q) = UnescapePair(Backslash, d, UnescapeJson(r), UnescapeJson(p))
    BY <2>1, UnescapeEscape
  <2>3. QED
    BY <1>8, <1>13, <2>2
<1>16. \/ UnescapeJson(q) = <<d>> \o t
       \/ UnescapeJson(q) = <<Newline>> \o t
  BY <1>10, <1>11, <1>15, SymbolsDiffer DEF UnescapePair
<1>17. Len(UnescapeJson(q)) = Len(t) + 1
  <2>1. Newline \in Symbols
    BY DEF Symbols
  <2>2. Len(<<d>> \o t) = Len(t) + 1 /\ Len(<<Newline>> \o t) = Len(t) + 1
    BY <2>1, LengthInFront
  <2>3. QED
    BY <1>16, <2>2
<1>18. QED
  BY <1>3, <1>7, <1>12, <1>14, <1>17

\* An answer with a null content: the letter after the next quote is taken for its text.
LEMMA NullParsed ==
    ParseAIResponse(<<ContentKey, Letter, Quote, Letter, Quote, Letter>>) = <<Letter>>
<1> DEFINE line == <<ContentKey, Letter, Quote, Letter, Quote, Letter>>
<1>1. /\ Len(line) = 6 /\ line[1] = ContentKey /\ line[2] = Letter /\ line[3] = Quote
      /\ line[4] = Letter /\ line[5] = Quote
  OBVIOUS
<1> HIDE DEF line
<1>2. Len(line) \in Nat /\ 1 \in Nat /\ 1 >= 1 /\ 2 \in Nat /\ 2 >= 1 /\ 4 \in Nat /\ 4 >= 1
  BY <1>1
<1>3. FirstAt(line, ContentKey, 1, 1)
  BY <1>1 DEF FirstAt
<1>4. FirstAt(line, Quote, 2, 3)
  <2>1. \A i \in 2..(3 - 1) : i = 2
    OBVIOUS
  <2>2. 3 \in 2..6 /\ Letter # Quote
    BY SymbolsDiffer
  <2>3. QED
    BY <1>1, <2>1, <2>2 DEF FirstAt
<1>5. FirstAt(line, Quote, 4, 5)
  <2>1. \A i \in 4..(5 - 1) : i = 4
    OBVIOUS
  <2>2. 5 \in 4..6 /\ Letter # Quote
    BY SymbolsDiffer
  <2>3. QED
    BY <1>1, <2>1, <2>2 DEF FirstAt
<1>6. IndexOf(line, ContentKey, 1) = 1 /\ IndexOf(line, Quote, 2) = 3 /\ IndexOf(line, Quote, 4) = 5
  BY <1>2, <1>3, <1>4, <1>5, IndexAt, Zenon
<1>7. SubSeq(line, 4, 4) = <<Letter>>
  <2>1. \A i \in 4..4 : line[i] \in {Letter}
    <3>1. \A i \in 4..4 : i = 4
      OBVIOUS
    <3>2. QED
      BY <1>1, <3>1
  <2>2. 4 \in Int /\ 4 <= 4 /\ 4 - 4 + 1 = 1 /\ 1 \in 1..1 /\ 4 + 1 - 1 = 4
    OBVIOUS
  <2>3. /\ SubSeq(line, 4, 4) \in Seq({Letter})
        /\ Len(SubSeq(line, 4, 4)) = IF 4 <= 4 THEN 4 - 4 + 1 ELSE 0
        /\ \A i \in 1..(4 - 4 + 1) : SubSeq(line, 4, 4)[i] = line[4 + i - 1]
    BY ONLY <2>1, <2>2, SubSeqProperties
  <2>4. PICK x \in Seq({Letter}) : x = SubSeq(line, 4, 4) /\ Len(x) = 1 /\ x[1] = Letter
    BY <1>1, <2>2, <2>3
  <2>5. <<Letter>> \in Seq({Letter}) /\ Len(<<Letter>>) = 1 /\ <<Letter>>[1] = Letter
    OBVIOUS
  <2>6. \A i \in 1..1 : i = 1
    OBVIOUS
  <2>7. x = <<Letter>>
    BY <2>4, <2>5, <2>6, SeqEqual
  <2>8. QED
    BY <2>4, <2>7
<1>8. UnescapeJson(<<Letter>>) = <<Letter>>
  <2>1. Letter \in Symbols /\ Letter # Backslash /\ <<>> \in Seq(Symbols)
    BY SymbolsDiffer DEF Symbols
  <2>2. <<Letter>> = <<Letter>> \o <<>>
    OBVIOUS
  <2>3. QED
    BY <2>1, <2>2, UnescapeSymbol, UnescapeNone
<1>9. 1 + 1 = 2 /\ 3 + 1 = 4 /\ 5 - 1 = 4 /\ 1 # 0 /\ 3 # 0 /\ 5 # 0 /\ <<Letter>> # <<>>
  OBVIOUS
<1>10. ParseAIResponse(line) = <<Letter>>
  BY <1>6, <1>7, <1>8, <1>9, Zenon DEF ParseAIResponse
<1>11. QED
  BY <1>10 DEF line

\* A text is never empty, and no longer than the content it is taken from, or one symbol.
LEMMA TextLength ==
    ASSUME NEW a \in Answers
    PROVE  Len(ParseAIResponse(Line(a))) \in 1..(MaxContent + 1)
<1>1. Len(NoText) = 1 /\ Len(<<Letter>>) = 1 /\ 1 \in 1..(MaxContent + 1)
  BY AIAssumption DEF NoText
<1>2. CASE a.form = "absent"
  BY <1>1, <1>2, AbsentParsed DEF Line
<1>3. CASE a.form = "null"
  BY <1>1, <1>3, NullParsed DEF Line
<1>4. CASE a.form = "string"
  <2>1. a.content \in Contents
    BY <1>4 DEF Answers, Forms
  <2>2. PICK content \in Seq(Symbols) : content = a.content /\ Len(content) <= MaxContent
    BY <2>1, ContentSymbols
  <2>3. PICK line : line = <<ContentKey, Quote>> \o content \o <<Quote, Letter>>
    OBVIOUS
  <2>4. Line(a) = line
    BY <1>4, <2>2, <2>3 DEF Line
  <2>5. PICK h, z \in Seq(Symbols) :
            /\ ~Contains(h, Quote)
            /\ Len(h) <= Len(content)
            /\ Append(content, Quote) = h \o (<<Quote>> \o z)
            /\ ParseAIResponse(line) = IF UnescapeJson(h) = <<>> THEN NoText
                                       ELSE UnescapeJson(h)
    BY <2>3, LineParsed
  <2>6. CASE UnescapeJson(h) = <<>>
    BY <1>1, <2>4, <2>5, <2>6
  <2>7. CASE UnescapeJson(h) # <<>>
    <3>1. PICK s \in Seq(Symbols) : s = UnescapeJson(h)
      BY UnescapeType
    <3>2. Len(s) \in Nat /\ Len(s) >= 1 /\ Len(h) \in Nat /\ Len(content) \in Nat
      BY <2>7, <3>1, EmptySeq
    <3>3. Len(s) <= Len(h)
      BY <3>1, UnescapeLength
    <3>4. ParseAIResponse(Line(a)) = s
      BY <2>4, <2>5, <2>7, <3>1
    <3>5. QED
      BY <2>2, <2>5, <3>2, <3>3, <3>4, AIAssumption
  <2>8. QED
    BY <2>6, <2>7
<1>5. QED
  BY <1>2, <1>3, <1>4 DEF Answers, Forms

\* Type correctness; the text callAIAPI returns is never empty (the null check and
\* content.isEmpty() of parseAIResponse).
THEOREM TypeCorrect == Spec => []TypeOK
<1>1. Init => TypeOK
  <2>1. ASSUME Init
        PROVE  Len(body) <= 2 * Len(prompt)
    <3>1. prompt \in Seq(Symbols) /\ body = <<>>
      BY <2>1, PromptSymbols DEF Init
    <3>2. Len(prompt) \in Nat /\ Len(<<>>) = 0
      BY <3>1, LenProperties
    <3>3. QED
      BY <3>1, <3>2
  <2>2. ASSUME Init
        PROVE  Len(text) \in 1..(MaxContent + 1)
    BY <2>2, AIAssumption DEF Init, NoText
  <2>3. NoAnswer \in Answers
    BY DEF NoAnswer, Answers, Forms
  <2>4. QED
    BY <2>1, <2>2, <2>3 DEF Init, TypeOK
<1>2. ASSUME TypeOK, [Next]_vars
      PROVE  TypeOK'
  <2> USE <1>2 DEF TypeOK
  <2>1. CASE BuildRequestBody
    <3>1. Len(EscapeJson(prompt)) <= 2 * Len(prompt)
      BY PromptSymbols, EscapeLength
    <3>2. QED
      BY <2>1, <3>1 DEF BuildRequestBody
  <2>2. ASSUME NEW a \in Answers, Respond(a)
        PROVE  TypeOK'
    BY <2>2 DEF Respond
  <2>3. CASE Parse
    <3>1. Len(ParseAIResponse(Line(answer))) \in 1..(MaxContent + 1)
      BY TextLength
    <3>2. QED
      BY <2>3, <3>1 DEF Parse
  <2>4. CASE UNCHANGED vars
    BY <2>4 DEF vars
  <2>5. QED
    BY <2>1, <2>2, <2>3, <2>4 DEF Next
<1>3. QED
  BY <1>1, <1>2, PTL DEF Spec
===============================================================================
