--------------------------- MODULE FrameDecoderProofs ---------------------------
(***************************************************************************)
(* Proofs of the safety properties of FrameDecoder, for any set of          *)
(* messages, any number of them, and any cuts of the stream.                *)
(***************************************************************************)
EXTENDS FrameDecoder, SequenceLemmas, TLAPS

-------------------------------------------------------------------------------
(* Bytes                                                                   *)

\* The first of two equal streams, cut where the first part of the second ends.
LEMMA CutStream ==
    ASSUME NEW a \in Seq(Bytes), NEW b \in Seq(Bytes), NEW c \in Seq(Bytes), NEW d \in Seq(Bytes),
           a \o b = c \o d, Len(c) <= Len(a)
    PROVE  /\ SubSeq(a, 1, Len(c)) = c
           /\ SubSeq(a, Len(c) + 1, Len(a)) \in Seq(Bytes)
           /\ SubSeq(a, Len(c) + 1, Len(a)) \o b = d
<1> DEFINE k == Len(c)
           first == SubSeq(a, 1, k)
           second == SubSeq(a, k + 1, Len(a))
<1>1. k \in Nat /\ Len(a) \in Nat
  BY LenProperties
<1>2. /\ first \in Seq(Bytes) /\ Len(first) = k
      /\ \A i \in 1..k : first[i] = a[i]
  <2>1. \A i \in 1..k : a[i] \in Bytes
    BY <1>1, ElementOfSeq
  <2>2. QED
    BY <1>1, <2>1, SubSeqProperties
<1>3. second \in Seq(Bytes)
  <2>1. \A i \in (k + 1)..Len(a) : a[i] \in Bytes
    BY <1>1, ElementOfSeq
  <2>2. QED
    BY <1>1, <2>1, SubSeqProperties
<1>4. first \o second = a
  <2>1. 1 \in 1..(Len(a) + 1) /\ k \in (1 - 1)..Len(a) /\ Len(a) \in k..Len(a)
    BY <1>1
  <2>2. first \o second = SubSeq(a, 1, Len(a))
    BY <2>1, ConcatAdjacentSubSeq
  <2>3. QED
    BY <2>2, SubSeqFull
<1>5. first = c
  <2>1. \A i \in 1..k : first[i] = c[i]
    <3>1. \A i \in 1..k : (a \o b)[i] = a[i] /\ (c \o d)[i] = c[i]
      BY <1>1, ConcatProperties
    <3>2. QED
      BY <1>2, <3>1
  <2>2. QED
    BY <1>2, <2>1, SeqEqual
<1> HIDE DEF first, second
<1>6. first \o (second \o b) = c \o d
  <2>1. (first \o second) \o b = first \o (second \o b)
    BY <1>2, <1>3, ConcatAssociative
  <2>2. QED
    BY <1>4, <2>1
<1>7. second \o b \in Seq(Bytes)
  BY <1>3, ConcatProperties
<1>8. second \o b = d
  <2>1. \A s, t, v \in Seq(Bytes) : s \o t = s \o v => t = v
    BY ConcatSimplifications
  <2>2. QED
    BY <1>5, <1>6, <1>7, <2>1
<1>9. QED
  BY <1>3, <1>5, <1>8 DEF first, second

\* writeInt writes four bytes, and getInt reads them.
LEMMA IntRoundTrip ==
    ASSUME NEW n \in Nat, n <= MaxCapacity
    PROVE  /\ Int32(n) \in Seq(Bytes)
           /\ Len(Int32(n)) = 4
           /\ Int32(n)[1] < 128
           /\ IntAt(Int32(n), 1) = n
<1> DEFINE a == n \div 16777216
           b == (n \div 65536) % 256
           c == (n \div 256) % 256
           d == n % 256
<1>1. a \in 0..127
  BY SMT DEF MaxCapacity
<1>2. b \in 0..255 /\ c \in 0..255 /\ d \in 0..255
  BY SMT
<1>3. n = a * 16777216 + b * 65536 + c * 256 + d
  BY SMT
<1>4. Int32(n) = <<a, b, c, d>>
  BY SMT DEF Int32
<1> HIDE DEF a, b, c, d
<1>5. a \in Bytes /\ b \in Bytes /\ c \in Bytes /\ d \in Bytes /\ a < 128
  BY <1>1, <1>2, SMT DEF Bytes
<1> DEFINE int == <<a, b, c, d>>
<1>6. int \in Seq(Bytes) /\ Len(int) = 4
  BY <1>5, SMT
<1>7. int[1] = a /\ int[2] = b /\ int[3] = c /\ int[4] = d
  BY SMT
<1> HIDE DEF int
<1>8. IntAt(int, 1) = int[1] * 16777216 + int[2] * 65536 + int[3] * 256 + int[4]
  BY SMT DEF IntAt
<1>9. Int32(n) = int
  BY <1>4, SMT DEF int
<1>10. QED
  <2>1. IntAt(int, 1) = n
    BY <1>3, <1>7, <1>8, SMT
  <2>2. QED
    BY <1>5, <1>6, <1>7, <1>9, <2>1, SMT

LEMMA MessageParts ==
    ASSUME NEW m \in Messages
    PROVE  /\ m.type \in Bytes
           /\ m.body \in Seq(Bytes)
           /\ Len(m.body) \in Nat
           /\ HeaderSize + Len(m.body) <= MaxCapacity
           /\ Len(m.body) + 1 <= MaxCapacity
           /\ Len(m.body) <= MaxCapacity
           /\ m = [type |-> m.type, body |-> m.body]
<1>1. m \in [type : {Data, Ack}, body : Seq(Bytes)]
  BY FrameAssumption, SMT
<1>2. m.type \in Bytes /\ m.body \in Seq(Bytes) /\ m = [type |-> m.type, body |-> m.body]
  BY <1>1, SMT DEF Data, Ack, Bytes
<1>3. Len(m.body) \in Nat
  BY <1>2, LenProperties, SMT
<1>4. HeaderSize + Len(m.body) <= MaxCapacity
  BY FrameAssumption, SMT
<1>5. QED
  BY <1>2, <1>3, <1>4, SMT DEF HeaderSize, MaxCapacity

\* What the decoder reads in a frame.
LEMMA FrameShape ==
    ASSUME NEW m \in Messages
    PROVE  /\ Frame(m) \in Seq(Bytes)
           /\ Len(Frame(m)) = HeaderSize + Len(m.body)
           /\ Frame(m)[1] = 202
           /\ Frame(m)[2] = 254
           /\ Frame(m)[3] = m.type
           /\ IntAt(Frame(m), 4) = Len(m.body)
           /\ \A i \in 1..Len(m.body) : Frame(m)[HeaderSize + i] = m.body[i]
<1> DEFINE n == Len(m.body)
           start == MagicNumber \o <<m.type>>
           header == start \o Int32(n)
<1>1. /\ m.type \in Bytes /\ m.body \in Seq(Bytes) /\ n \in Nat /\ n <= MaxCapacity
  BY MessageParts, SMT
<1>2. /\ Int32(n) \in Seq(Bytes) /\ Len(Int32(n)) = 4 /\ IntAt(Int32(n), 1) = n
  BY <1>1, IntRoundTrip, SMT
<1>3. /\ start \in Seq(Bytes) /\ Len(start) = 3
      /\ start[1] = 202 /\ start[2] = 254 /\ start[3] = m.type
  <2>1. /\ MagicNumber \in Seq(Bytes) /\ <<m.type>> \in Seq(Bytes)
        /\ Len(MagicNumber) = 2 /\ Len(<<m.type>>) = 1
        /\ MagicNumber[1] = 202 /\ MagicNumber[2] = 254
    BY <1>1, SMT DEF MagicNumber, Bytes
  <2>2. /\ start \in Seq(Bytes) /\ Len(start) = Len(MagicNumber) + Len(<<m.type>>)
        /\ \A i \in 1..Len(MagicNumber) : start[i] = MagicNumber[i]
        /\ \A i \in 1..Len(<<m.type>>) : start[Len(MagicNumber) + i] = <<m.type>>[i]
    BY <2>1, Joined
  <2>3. <<m.type>>[1] = m.type
    OBVIOUS
  <2> HIDE DEF start
  <2>4. QED
    BY <2>1, <2>2, <2>3, SMT
<1> HIDE DEF start, n
<1>4. /\ header \in Seq(Bytes) /\ Len(header) = 7
      /\ header[1] = 202 /\ header[2] = 254 /\ header[3] = m.type
      /\ \A i \in 1..4 : header[3 + i] = Int32(n)[i]
  <2>1. /\ header \in Seq(Bytes) /\ Len(header) = Len(start) + Len(Int32(n))
        /\ \A i \in 1..Len(start) : header[i] = start[i]
        /\ \A i \in 1..Len(Int32(n)) : header[Len(start) + i] = Int32(n)[i]
    <3>1. start \in Seq(Bytes) /\ Int32(n) \in Seq(Bytes)
      BY <1>2, <1>3
    <3>2. QED
      BY <3>1, Joined
  <2> HIDE DEF header
  <2>2. QED
    BY <1>2, <1>3, <2>1, SMT
<1> HIDE DEF header
<1>5. /\ header \o m.body \in Seq(Bytes)
      /\ Len(header \o m.body) = 7 + n
      /\ \A i \in 1..7 : (header \o m.body)[i] = header[i]
      /\ \A i \in 1..n : (header \o m.body)[7 + i] = m.body[i]
  <2> DEFINE whole == header \o m.body
  <2>1. /\ whole \in Seq(Bytes) /\ Len(whole) = Len(header) + Len(m.body)
        /\ \A i \in 1..Len(header) : whole[i] = header[i]
        /\ \A i \in 1..Len(m.body) : whole[Len(header) + i] = m.body[i]
    <3>1. header \in Seq(Bytes) /\ m.body \in Seq(Bytes)
      BY <1>1, <1>4
    <3>2. QED
      BY <3>1, Joined
  <2> HIDE DEF whole
  <2>2. /\ whole \in Seq(Bytes) /\ Len(whole) = 7 + n
        /\ \A i \in 1..7 : whole[i] = header[i]
        /\ \A i \in 1..n : whole[7 + i] = m.body[i]
    BY <1>1, <1>4, <2>1, SMT DEF n
  <2>3. QED
    BY <2>2, Zenon DEF whole
<1>6. Frame(m) = header \o m.body
  BY Zenon DEF Frame, header, start, n
<1>7. IntAt(header \o m.body, 4) = n
  <2>1. /\ header[4] = Int32(n)[1] /\ header[5] = Int32(n)[2]
        /\ header[6] = Int32(n)[3] /\ header[7] = Int32(n)[4]
    BY <1>4, SMT
  <2>2. IntAt(header, 4) = IntAt(Int32(n), 1)
    BY <2>1, SMT DEF IntAt
  <2>3. IntAt(header \o m.body, 4) = IntAt(header, 4)
    <3> DEFINE whole == header \o m.body
    <3>1. /\ whole[4] = header[4] /\ whole[5] = header[5]
          /\ whole[6] = header[6] /\ whole[7] = header[7]
      <4> HIDE DEF whole
      <4>1. \A i \in 1..7 : whole[i] = header[i]
        BY <1>5, Zenon DEF whole
      <4>2. QED
        BY <4>1, SMT
    <3> HIDE DEF whole
    <3>2. IntAt(whole, 4) = IntAt(header, 4)
      BY <3>1, SMT DEF IntAt
    <3>3. QED
      BY <3>2, Zenon DEF whole
  <2>4. QED
    BY <1>2, <2>2, <2>3, SMT
<1>8. QED
  BY <1>4, <1>5, <1>6, <1>7, SMT DEF HeaderSize, n

\* The length of an object never begins like the magic number.
LEMMA ObjectShape ==
    ASSUME NEW m \in Messages
    PROVE  /\ Object(m) \in Seq(Bytes)
           /\ Len(Object(m)) > 0
           /\ Object(m)[1] # 202
<1> DEFINE int == Int32(Len(m.body) + 1)
           version == <<5>>
<1>1. m.body \in Seq(Bytes) /\ Len(m.body) \in Nat /\ Len(m.body) + 1 <= MaxCapacity
  BY MessageParts, SMT
<1>2. int \in Seq(Bytes) /\ Len(int) = 4 /\ int[1] < 128
  BY <1>1, IntRoundTrip, SMT
<1>3. version \in Seq(Bytes) /\ Len(version) = 1
  BY SMT DEF Bytes
<1>4. Object(m) = (int \o version) \o m.body
  BY Zenon DEF Object
<1> HIDE DEF int, version
<1> DEFINE start == int \o version
           whole == start \o m.body
<1>5. /\ start \in Seq(Bytes) /\ Len(start) = 5 /\ start[1] = int[1]
  <2>1. /\ start \in Seq(Bytes) /\ Len(start) = Len(int) + Len(version)
        /\ \A i \in 1..Len(int) : start[i] = int[i]
    BY <1>2, <1>3, Joined
  <2> HIDE DEF start
  <2>2. QED
    BY <1>2, <1>3, <2>1, SMT
<1> HIDE DEF start
<1>6. /\ whole \in Seq(Bytes) /\ Len(whole) = 5 + Len(m.body) /\ whole[1] = int[1]
  <2>1. /\ whole \in Seq(Bytes) /\ Len(whole) = Len(start) + Len(m.body)
        /\ \A i \in 1..Len(start) : whole[i] = start[i]
    BY <1>1, <1>5, Joined
  <2> HIDE DEF whole
  <2>2. QED
    BY <1>1, <1>5, <2>1, SMT
<1>7. Object(m) = whole
  BY <1>4, Zenon DEF start
<1> HIDE DEF whole
<1>8. int[1] \in Int
  <2>1. 1 \in 1..Len(int)
    BY <1>2, SMT
  <2>2. int[1] \in Bytes
    BY <1>2, <2>1, ElementOfSeq, Zenon
  <2>3. QED
    BY <2>2, SMT DEF Bytes
<1>9. QED
  BY <1>1, <1>2, <1>6, <1>7, <1>8, SMT

LEMMA EncodedShape ==
    ASSUME NEW m \in Messages
    PROVE  Encoded(m) \in Seq(Bytes) /\ Len(Encoded(m)) > 0
<1>1. Len(Frame(m)) > 0
  BY FrameShape, MessageParts, SMT DEF HeaderSize
<1>2. QED
  BY <1>1, FrameShape, ObjectShape, SMT DEF Encoded

-------------------------------------------------------------------------------
(* The inductive invariant                                                 *)

\* What was sent and not decoded, on the connection as it is.
Todo == [i \in 1..(Len(sent) - decoded) |-> Encoded(sent[decoded + i])]

\* For both kinds of agent, what the decoder did not consume and what is on the wire are
\* the unread messages.
InPlace == open => cumulation \o wire = FlattenSeq(Todo)

\* Nothing is ever decoded of the objects of an older agent.
ObjectsUnread == speaks = "objects" => decoded = 0

\* callDecode runs only while the connection is up.
DecodesOpen == decoding => open

\* For both kinds of agent, what was handled are the data messages among those decoded.
HandledSoFar == handled = DataOf(SubSeq(sent, 1, decoded))

FrameInv ==
    /\ TypeOK
    /\ InPlace
    /\ ObjectsUnread
    /\ DecodesOpen
    /\ HandledSoFar
    /\ NothingLeftBehind

LEMMA TodoTyped ==
    ASSUME TypeOK
    PROVE  /\ Len(sent) \in Nat /\ decoded \in Nat /\ decoded <= Len(sent)
           /\ Todo \in Seq(Seq(Bytes))
           /\ Len(Todo) = Len(sent) - decoded
           /\ FlattenSeq(Todo) \in Seq(Bytes)
<1>1. sent \in Seq(Messages) /\ decoded \in 0..Len(sent)
  BY DEF TypeOK
<1>2. Len(sent) \in Nat /\ decoded \in Nat /\ decoded <= Len(sent)
  BY <1>1, LenProperties
<1>3. ASSUME NEW i \in 1..(Len(sent) - decoded)
      PROVE  Encoded(sent[decoded + i]) \in Seq(Bytes)
  <2>1. decoded + i \in 1..Len(sent)
    BY <1>2
  <2>2. sent[decoded + i] \in Messages
    BY <1>1, <2>1, ElementOfSeq
  <2>3. QED
    BY <2>2, EncodedShape
<1>4. Todo \in Seq(Seq(Bytes)) /\ Len(Todo) = Len(sent) - decoded
  BY <1>2, <1>3 DEF Todo
<1>5. QED
  BY <1>2, <1>4, FlattenType

\* A message sent comes last.
LEMMA SentIsLast ==
    ASSUME TypeOK, TypeOK', NEW m \in Messages, Send(m)
    PROVE  FlattenSeq(Todo') = FlattenSeq(Todo) \o Encoded(m)
<1> DEFINE more == Append(Todo, Encoded(m))
<1>1. /\ sent \in Seq(Messages) /\ Todo \in Seq(Seq(Bytes)) /\ Encoded(m) \in Seq(Bytes)
      /\ Len(sent) \in Nat /\ decoded \in Nat /\ decoded <= Len(sent)
      /\ Len(Todo) = Len(sent) - decoded
  BY TodoTyped, EncodedShape DEF TypeOK
<1>2. /\ sent' = Append(sent, m) /\ decoded' = decoded /\ speaks' = speaks
  BY DEF Send
<1>3. /\ Len(sent') = Len(sent) + 1 /\ sent'[Len(sent) + 1] = m
      /\ \A i \in 1..Len(sent) : sent'[i] = sent[i]
  BY <1>1, <1>2, AppendProperties
<1>4. /\ more \in Seq(Seq(Bytes)) /\ Len(more) = Len(Todo) + 1
      /\ more[Len(Todo) + 1] = Encoded(m)
      /\ \A i \in 1..Len(Todo) : more[i] = Todo[i]
  BY <1>1, AppendProperties
<1>5. Todo' \in Seq(Seq(Bytes)) /\ Len(Todo') = Len(sent) - decoded + 1
  <2>1. (Todo \in Seq(Seq(Bytes)) /\ Len(Todo) = Len(sent) - decoded)'
    BY TodoTyped, PTL
  <2>2. QED
    BY <1>1, <1>2, <1>3, <2>1
<1>6. Todo' = [i \in 1..(Len(sent') - decoded) |-> Encoded(sent'[decoded + i])]
  BY <1>2 DEF Todo, Encoded
<1>7. ASSUME NEW i \in 1..(Len(sent) - decoded + 1)
      PROVE  Todo'[i] = more[i]
  <2>1. Todo'[i] = Encoded(sent'[decoded + i])
    <3>1. i \in 1..(Len(sent') - decoded)
      <4> HIDE DEF more
      <4>1. Len(sent') = Len(sent) + 1 /\ Len(sent) \in Nat /\ decoded \in Nat
        BY <1>1, <1>3
      <4>2. QED
        BY <4>1, SMT
    <3>2. QED
      BY <1>6, <3>1, Zenon
  <2>2. CASE i <= Len(Todo)
    <3>1. i \in 1..Len(Todo) /\ i \in 1..(Len(sent) - decoded) /\ decoded + i \in 1..Len(sent)
      BY <1>1, <2>2
    <3>2. more[i] = Encoded(sent[decoded + i])
      <4>1. Todo[i] = Encoded(sent[decoded + i])
        BY <3>1, Zenon DEF Todo
      <4>2. QED
        BY <1>4, <3>1, <4>1, Zenon
    <3>3. sent'[decoded + i] = sent[decoded + i]
      BY <1>3, <3>1, Zenon
    <3>4. QED
      BY <2>1, <3>2, <3>3, Zenon
  <2>3. CASE i = Len(Todo) + 1
    <3>1. decoded + i = Len(sent) + 1
      BY <1>1, <2>3
    <3>2. QED
      BY <1>3, <1>4, <2>1, <2>3, <3>1, Zenon
  <2>4. QED
    <3>1. i <= Len(Todo) \/ i = Len(Todo) + 1
      <4> HIDE DEF more
      <4>1. i \in 1..(Len(Todo) + 1) /\ Len(Todo) \in Nat
        BY <1>1
      <4>2. QED
        BY <4>1
    <3>2. QED
      BY <2>2, <2>3, <3>1
<1>8. Todo' = more
  <2> HIDE DEF more
  <2>1. Len(Todo') = Len(more) /\ \A i \in 1..Len(Todo') : Todo'[i] = more[i]
    BY <1>1, <1>4, <1>5, <1>7
  <2>2. QED
    BY <1>4, <1>5, <2>1, SeqEqual
<1>9. FlattenSeq(more) = FlattenSeq(Todo) \o Encoded(m)
  BY <1>1, FlattenAppend
<1>10. QED
  BY <1>8, <1>9, Zenon

\* The message to be decoded next comes first.
LEMMA NextIsFirst ==
    ASSUME TypeOK, decoded < Len(sent)
    PROVE  /\ sent[decoded + 1] \in Messages
           /\ FlattenSeq(Tail(Todo)) \in Seq(Bytes)
           /\ Tail(Todo) \in Seq(Seq(Bytes))
           /\ Len(Tail(Todo)) = Len(sent) - decoded - 1
           /\ \A i \in 1..Len(Tail(Todo)) : Tail(Todo)[i] = Encoded(sent[decoded + 1 + i])
           /\ FlattenSeq(Todo) = Encoded(sent[decoded + 1]) \o FlattenSeq(Tail(Todo))
<1>1. /\ sent \in Seq(Messages) /\ Todo \in Seq(Seq(Bytes))
      /\ Len(sent) \in Nat /\ decoded \in Nat
      /\ Len(Todo) = Len(sent) - decoded
  BY TodoTyped DEF TypeOK
<1>2. 1 \in 1..(Len(sent) - decoded) /\ decoded + 1 \in 1..Len(sent) /\ Len(Todo) # 0
  BY <1>1
<1>3. Todo # <<>>
  BY <1>1, <1>2, EmptySeq
<1>4. Todo[1] = Encoded(sent[decoded + 1])
  BY <1>2, Zenon DEF Todo
<1>5. sent[decoded + 1] \in Messages
  BY <1>1, <1>2, ElementOfSeq
<1>6. /\ Tail(Todo) \in Seq(Seq(Bytes))
      /\ FlattenSeq(Todo) = Todo[1] \o FlattenSeq(Tail(Todo))
  BY <1>1, <1>3, FlattenHead
<1>7. /\ Len(Tail(Todo)) = Len(Todo) - 1
      /\ \A i \in 1..Len(Tail(Todo)) : Tail(Todo)[i] = Todo[i + 1]
  BY <1>1, <1>3, HeadTailProperties
<1>8. ASSUME NEW i \in 1..Len(Tail(Todo))
      PROVE  Tail(Todo)[i] = Encoded(sent[decoded + 1 + i])
  <2>1. i + 1 \in 1..(Len(sent) - decoded) /\ decoded + (i + 1) = decoded + 1 + i
    BY <1>1, <1>7
  <2>2. Todo[i + 1] = Encoded(sent[decoded + (i + 1)])
    BY <2>1, Zenon DEF Todo
  <2>3. QED
    BY <1>7, <2>1, <2>2, Zenon
<1>9. FlattenSeq(Tail(Todo)) \in Seq(Bytes)
  BY <1>6, FlattenType
<1>10. Len(Tail(Todo)) = Len(sent) - decoded - 1
  BY <1>1, <1>7
<1>11. QED
  BY <1>4, <1>5, <1>6, <1>8, <1>9, <1>10

LEMMA DecodedWasFirst ==
    ASSUME TypeOK, TypeOK', decoded < Len(sent),
           decoded' = decoded + 1, sent' = sent, speaks' = speaks
    PROVE  Todo' = Tail(Todo)
<1>1. /\ Tail(Todo) \in Seq(Seq(Bytes))
      /\ Len(Tail(Todo)) = Len(sent) - decoded - 1
      /\ \A i \in 1..Len(Tail(Todo)) : Tail(Todo)[i] = Encoded(sent[decoded + 1 + i])
  BY NextIsFirst
<1>2. Todo' \in Seq(Seq(Bytes)) /\ Len(Todo') = Len(sent) - (decoded + 1)
  <2>1. (Todo \in Seq(Seq(Bytes)) /\ Len(Todo) = Len(sent) - decoded)'
    BY TodoTyped, PTL
  <2>2. QED
    BY <2>1
<1>3. Todo' = [i \in 1..(Len(sent) - (decoded + 1)) |-> Encoded(sent[decoded + 1 + i])]
  BY DEF Todo, Encoded
<1>4. Len(sent) \in Nat /\ decoded \in Nat
  BY TodoTyped
<1>5. Len(Todo') = Len(Tail(Todo))
  BY <1>1, <1>2, <1>4
<1>6. ASSUME NEW i \in 1..Len(Todo')
      PROVE  Todo'[i] = Tail(Todo)[i]
  <2>1. i \in 1..(Len(sent) - (decoded + 1)) /\ i \in 1..Len(Tail(Todo))
    BY <1>2, <1>5
  <2>2. QED
    BY <1>1, <1>3, <2>1, Zenon
<1>7. QED
  BY <1>1, <1>2, <1>5, <1>6, SeqEqual
LEMMA AllRead ==
    ASSUME TypeOK, InPlace, open, ~(decoded < Len(sent))
    PROVE  cumulation = <<>> /\ wire = <<>> /\ decoded = Len(sent)
<1>1. /\ decoded = Len(sent) /\ Len(Todo) = 0 /\ Todo \in Seq(Seq(Bytes))
  BY TodoTyped
<1>2. FlattenSeq(Todo) = <<>>
  BY <1>1, EmptySeq, FlattenEmpty
<1>3. cumulation \o wire = <<>>
  BY <1>2 DEF InPlace
<1>4. cumulation \in Seq(Bytes) /\ wire \in Seq(Bytes)
  BY DEF TypeOK
<1>5. QED
  BY <1>1, <1>3, <1>4, ConcatEqualIffEmpty

\* The buffer is the beginning of the next message.
LEMMA BufferBegins ==
    ASSUME TypeOK, InPlace, open, decoded < Len(sent), NEW m, m = sent[decoded + 1]
    PROVE  /\ m \in Messages
           /\ Encoded(m) \in Seq(Bytes)
           /\ cumulation \o wire = Encoded(m) \o FlattenSeq(Tail(Todo))
           /\ \A i \in 1..Len(cumulation) : i <= Len(Encoded(m)) => cumulation[i] = Encoded(m)[i]
<1> DEFINE rest == FlattenSeq(Tail(Todo))
           whole == Encoded(m)
<1>1. m \in Messages /\ whole \in Seq(Bytes) /\ rest \in Seq(Bytes)
  BY NextIsFirst, EncodedShape
<1>2. cumulation \o wire = whole \o rest
  BY NextIsFirst DEF InPlace
<1>3. cumulation \in Seq(Bytes) /\ wire \in Seq(Bytes)
  BY DEF TypeOK
<1>4. /\ \A i \in 1..Len(cumulation) : (cumulation \o wire)[i] = cumulation[i]
      /\ Len(cumulation) \in Nat
  BY <1>3, Joined
<1> HIDE DEF whole, rest
<1>5. /\ \A i \in 1..Len(whole) : (whole \o rest)[i] = whole[i]
      /\ Len(whole) \in Nat
  BY <1>1, Joined
<1>6. ASSUME NEW i \in 1..Len(cumulation), i <= Len(whole)
      PROVE  cumulation[i] = whole[i]
  <2>1. i \in 1..Len(whole)
    BY <1>4, <1>5, <1>6
  <2>2. QED
    BY <1>2, <1>4, <1>5, <2>1, Zenon
<1>7. QED
  BY <1>1, <1>2, <1>6 DEF whole, rest

LEMMA MagicBytes ==
    ASSUME TypeOK, HeaderComplete
    PROVE  MagicMatches <=> cumulation[1] = 202 /\ cumulation[2] = 254
<1> DEFINE start == SubSeq(cumulation, 1, 2)
<1>1. cumulation \in Seq(Bytes) /\ Len(cumulation) \in Nat /\ Len(cumulation) >= 7
  BY LenProperties DEF TypeOK, HeaderComplete, HeaderSize
<1>2. \A i \in 1..2 : cumulation[i] \in Bytes
  BY <1>1, ElementOfSeq
<1>3. /\ start \in Seq(Bytes) /\ Len(start) = 2
      /\ \A i \in 1..2 : start[i] = cumulation[i]
  BY <1>2, SubSeqProperties
<1> HIDE DEF start
<1>4. start[1] = cumulation[1] /\ start[2] = cumulation[2]
  BY <1>3
<1>5. MagicNumber \in Seq(Bytes) /\ Len(MagicNumber) = 2 /\ MagicNumber[1] = 202 /\ MagicNumber[2] = 254
  BY DEF MagicNumber, Bytes
<1>6. start = MagicNumber <=> start[1] = 202 /\ start[2] = 254
  BY <1>3, <1>5, SeqEqual
<1>7. MagicMatches <=> start = MagicNumber
  BY DEF MagicMatches, start
<1>8. QED
  BY <1>4, <1>6, <1>7

\* A complete header is that of the next message.
LEMMA HeaderRead ==
    ASSUME TypeOK, InPlace, open, speaks = "frames", HeaderComplete
    PROVE  /\ decoded < Len(sent)
           /\ sent[decoded + 1] \in Messages
           /\ MagicMatches
           /\ cumulation[3] = sent[decoded + 1].type
           /\ BodyLength = Len(sent[decoded + 1].body)
<1>1. cumulation \in Seq(Bytes) /\ Len(cumulation) \in Nat /\ Len(cumulation) >= 7
  BY LenProperties DEF TypeOK, HeaderComplete, HeaderSize
<1>2. decoded < Len(sent)
  BY <1>1, AllRead, EmptySeq
<1> DEFINE m == sent[decoded + 1]
<1>3. /\ m \in Messages
      /\ \A i \in 1..Len(cumulation) : i <= Len(Encoded(m)) => cumulation[i] = Encoded(m)[i]
  BY <1>2, BufferBegins
<1> HIDE DEF m
<1>4. Encoded(m) = Frame(m)
  BY DEF Encoded
<1>5. /\ Len(Frame(m)) = HeaderSize + Len(m.body)
      /\ Frame(m)[1] = 202 /\ Frame(m)[2] = 254 /\ Frame(m)[3] = m.type
      /\ IntAt(Frame(m), 4) = Len(m.body)
  BY <1>3, FrameShape
<1>6. Len(Frame(m)) \in Nat /\ Len(Frame(m)) >= 7
  BY <1>3, <1>5, MessageParts DEF HeaderSize
<1>7. /\ cumulation[1] = Frame(m)[1] /\ cumulation[2] = Frame(m)[2]
      /\ cumulation[3] = Frame(m)[3] /\ cumulation[4] = Frame(m)[4]
      /\ cumulation[5] = Frame(m)[5] /\ cumulation[6] = Frame(m)[6]
      /\ cumulation[7] = Frame(m)[7]
  BY <1>1, <1>3, <1>4, <1>6
<1>8. MagicMatches
  BY <1>5, <1>7, MagicBytes
<1>9. BodyLength = IntAt(Frame(m), 4)
  BY <1>7, SMT DEF BodyLength, IntAt
<1>10. QED
  BY <1>2, <1>3, <1>5, <1>7, <1>8, <1>9 DEF m

\* No object is taken for a frame.
LEMMA ObjectsLookDifferent ==
    ASSUME TypeOK, InPlace, open, speaks = "objects", HeaderComplete
    PROVE  ~MagicMatches
<1>1. cumulation \in Seq(Bytes) /\ Len(cumulation) \in Nat /\ Len(cumulation) >= 7
  BY LenProperties DEF TypeOK, HeaderComplete, HeaderSize
<1>2. decoded < Len(sent)
  BY <1>1, AllRead, EmptySeq
<1> DEFINE m == sent[decoded + 1]
<1>3. /\ m \in Messages /\ Encoded(m) \in Seq(Bytes)
      /\ \A i \in 1..Len(cumulation) : i <= Len(Encoded(m)) => cumulation[i] = Encoded(m)[i]
  BY <1>2, BufferBegins
<1> HIDE DEF m
<1>4. Encoded(m) = Object(m)
  BY DEF Encoded
<1>5. Len(Object(m)) \in Nat /\ Len(Object(m)) >= 1 /\ Object(m)[1] # 202
  BY <1>3, ObjectShape, LenProperties
<1>6. 1 \in 1..Len(cumulation) /\ 1 <= Len(Encoded(m))
  BY <1>1, <1>4, <1>5
<1>7. cumulation[1] = Object(m)[1]
  <2>1. cumulation[1] = Encoded(m)[1]
    BY <1>3, <1>6, Zenon
  <2>2. QED
    BY <1>4, <2>1, Zenon
<1>8. QED
  BY <1>5, <1>7, MagicBytes, Zenon

\* A complete frame is the next message, and the others follow it.
LEMMA BodyRead ==
    ASSUME TypeOK, InPlace, open, speaks = "frames", HeaderComplete, BodyComplete,
           NEW size, size = HeaderSize + BodyLength
    PROVE  /\ [type |-> cumulation[3], body |-> SubSeq(cumulation, HeaderSize + 1, size)]
                  = sent[decoded + 1]
           /\ SubSeq(cumulation, size + 1, Len(cumulation)) \in Seq(Bytes)
           /\ SubSeq(cumulation, size + 1, Len(cumulation)) \o wire = FlattenSeq(Tail(Todo))
<1> DEFINE m == sent[decoded + 1]
           body == SubSeq(cumulation, HeaderSize + 1, size)
<1>1. /\ decoded < Len(sent) /\ m \in Messages
      /\ cumulation[3] = m.type /\ BodyLength = Len(m.body)
  BY HeaderRead
<1>2. /\ cumulation \o wire = Encoded(m) \o FlattenSeq(Tail(Todo))
      /\ \A i \in 1..Len(cumulation) : i <= Len(Encoded(m)) => cumulation[i] = Encoded(m)[i]
      /\ FlattenSeq(Tail(Todo)) \in Seq(Bytes)
  BY <1>1, BufferBegins, NextIsFirst
<1> HIDE DEF m
<1>3. Encoded(m) = Frame(m)
  BY DEF Encoded
<1>4. /\ Frame(m) \in Seq(Bytes) /\ Len(Frame(m)) = 7 + Len(m.body)
      /\ \A i \in 1..Len(m.body) : Frame(m)[7 + i] = m.body[i]
      /\ m.body \in Seq(Bytes) /\ Len(m.body) \in Nat
      /\ m = [type |-> m.type, body |-> m.body]
  BY <1>1, FrameShape, MessageParts DEF HeaderSize
<1>5. /\ cumulation \in Seq(Bytes) /\ wire \in Seq(Bytes) /\ Len(cumulation) \in Nat
      /\ size = 7 + Len(m.body) /\ Len(cumulation) >= size
  BY <1>1, <1>4, LenProperties DEF TypeOK, HeaderSize, BodyComplete
<1>6. body = m.body
  <2>1. ASSUME NEW i \in 1..Len(m.body)
        PROVE  cumulation[7 + i] = m.body[i]
    <3>1. 7 + i \in 1..Len(cumulation) /\ 7 + i <= Len(Frame(m))
      BY <1>4, <1>5
    <3>2. QED
      BY <1>2, <1>3, <1>4, <3>1, Zenon
  <2>2. ASSUME NEW j \in 8..size
        PROVE  cumulation[j] \in Bytes
    <3>1. j \in 1..Len(cumulation)
      BY <1>4, <1>5
    <3>2. QED
      BY <1>5, <3>1, ElementOfSeq
  <2>3. /\ SubSeq(cumulation, 8, size) \in Seq(Bytes)
        /\ Len(SubSeq(cumulation, 8, size)) = IF 8 <= size THEN size - 8 + 1 ELSE 0
        /\ \A i \in 1..(size - 8 + 1) : SubSeq(cumulation, 8, size)[i] = cumulation[8 + i - 1]
    <3>1. 8 \in Int /\ size \in Int
      BY <1>4, <1>5
    <3>2. QED
      BY <2>2, <3>1, SubSeqProperties
  <2>4. body = SubSeq(cumulation, 8, size)
    BY DEF HeaderSize
  <2> HIDE DEF body
  <2>5. Len(body) = Len(m.body)
    BY <1>4, <1>5, <2>3, <2>4
  <2>6. ASSUME NEW i \in 1..Len(body)
        PROVE  body[i] = m.body[i]
    <3>1. i \in 1..(size - 8 + 1) /\ 8 + i - 1 = 7 + i /\ i \in 1..Len(m.body)
      BY <1>4, <1>5, <2>5
    <3>2. QED
      BY <2>1, <2>3, <2>4, <3>1, Zenon
  <2>7. QED
    BY <1>4, <2>3, <2>4, <2>5, <2>6, SeqEqual
<1>7. /\ SubSeq(cumulation, size + 1, Len(cumulation)) \in Seq(Bytes)
      /\ SubSeq(cumulation, size + 1, Len(cumulation)) \o wire = FlattenSeq(Tail(Todo))
  <2>1. Len(Frame(m)) = size /\ Len(Frame(m)) <= Len(cumulation)
    BY <1>4, <1>5
  <2>2. cumulation \o wire = Frame(m) \o FlattenSeq(Tail(Todo))
    BY <1>2, <1>3, Zenon
  <2>3. /\ SubSeq(cumulation, Len(Frame(m)) + 1, Len(cumulation)) \in Seq(Bytes)
        /\ SubSeq(cumulation, Len(Frame(m)) + 1, Len(cumulation)) \o wire
              = FlattenSeq(Tail(Todo))
    <3> DEFINE whole == Frame(m)
               rest == FlattenSeq(Tail(Todo))
    <3>1. /\ whole \in Seq(Bytes) /\ rest \in Seq(Bytes)
          /\ cumulation \in Seq(Bytes) /\ wire \in Seq(Bytes)
          /\ cumulation \o wire = whole \o rest /\ Len(whole) <= Len(cumulation)
      BY <1>2, <1>4, <1>5, <2>1, <2>2, Zenon
    <3> HIDE DEF whole, rest
    <3>2. /\ SubSeq(cumulation, Len(whole) + 1, Len(cumulation)) \in Seq(Bytes)
          /\ SubSeq(cumulation, Len(whole) + 1, Len(cumulation)) \o wire = rest
      BY <3>1, CutStream
    <3>3. QED
      BY <3>2, Zenon DEF whole, rest
  <2>4. QED
    BY <2>1, <2>3, Zenon
<1>8. [type |-> cumulation[3], body |-> body] = m
  BY <1>1, <1>4, <1>6, Zenon
<1>9. QED
  BY <1>7, <1>8 DEF m
\* DataOf goes through the messages one by one.
LEMMA DataOfMore ==
    ASSUME NEW s \in Seq(Messages), NEW m \in Messages
    PROVE  /\ DataOf(s) \in Seq(Messages)
           /\ DataOf(Append(s, m)) = IF m.type = Data THEN Append(DataOf(s), m) ELSE DataOf(s)
<1> DEFINE Piece(x) == IF x.type = Data THEN <<x>> ELSE <<>>
           pieces == [i \in 1..Len(s) |-> Piece(s[i])]
           t == Append(s, m)
           more == Append(pieces, Piece(m))
<1>1. \A x \in Messages : Piece(x) \in Seq(Messages)
  OBVIOUS
<1>2. /\ Len(s) \in Nat /\ \A i \in 1..Len(s) : s[i] \in Messages
  BY ElementOfSeq, LenProperties
<1> HIDE DEF Piece
<1>3. pieces \in Seq(Seq(Messages)) /\ Len(pieces) = Len(s)
  BY <1>1, <1>2
<1>4. /\ Len(t) = Len(s) + 1 /\ t[Len(s) + 1] = m
      /\ \A i \in 1..Len(s) : t[i] = s[i]
  BY AppendProperties
<1>5. \A i \in 1..Len(s) : pieces[i] = Piece(s[i])
  OBVIOUS
<1> HIDE DEF pieces, t
<1>6. /\ more \in Seq(Seq(Messages)) /\ Len(more) = Len(s) + 1
      /\ more[Len(s) + 1] = Piece(m)
      /\ \A i \in 1..Len(s) : more[i] = pieces[i]
  BY <1>1, <1>3, AppendProperties
<1> DEFINE longer == [i \in 1..Len(t) |-> Piece(t[i])]
<1>7. longer = more
  <2>1. ASSUME NEW i \in 1..Len(t)
        PROVE  Piece(t[i]) = more[i] /\ t[i] \in Messages
    <3> HIDE DEF more
    <3>1. CASE i = Len(s) + 1
      BY <1>4, <1>6, <3>1
    <3>2. CASE i \in 1..Len(s)
      BY <1>2, <1>4, <1>5, <1>6, <3>2
    <3>3. i = Len(s) + 1 \/ i \in 1..Len(s)
      BY <1>2, <1>4
    <3>4. QED
      BY <3>1, <3>2, <3>3
  <2>2. longer \in Seq(Seq(Messages)) /\ Len(longer) = Len(t)
    BY <1>1, <1>2, <1>4, <2>1
  <2>3. \A i \in 1..Len(longer) : longer[i] = more[i]
    BY <2>1, <2>2
  <2> HIDE DEF longer, more
  <2>4. QED
    BY <1>4, <1>6, <2>2, <2>3, SeqEqual
<1>8. DataOf(s) = FlattenSeq(pieces) /\ DataOf(t) = FlattenSeq(longer)
  BY DEF DataOf, pieces, Piece
<1>9. /\ FlattenSeq(pieces) \in Seq(Messages)
      /\ FlattenSeq(more) = FlattenSeq(pieces) \o Piece(m)
  BY <1>1, <1>3, FlattenAppend
<1> HIDE DEF longer, more
<1>10. DataOf(s) \in Seq(Messages) /\ DataOf(t) = DataOf(s) \o Piece(m)
  BY <1>7, <1>8, <1>9
<1>11. CASE m.type = Data
  BY <1>10, <1>11, AppendIsConcat DEF t, Piece
<1>12. CASE m.type # Data
  BY <1>10, <1>12, ConcatEmptySeq DEF t, Piece
<1>13. QED
  BY <1>10, <1>11, <1>12 DEF t

LEMMA DataOfEmpty == DataOf(<<>>) = <<>>
<1>1. [i \in 1..Len(<<>>) |-> IF <<>>[i].type = Data THEN <<(<<>>)[i]>> ELSE <<>>] = <<>>
  OBVIOUS
<1>2. QED
  BY <1>1, FlattenEmpty DEF DataOf

-------------------------------------------------------------------------------
(* The steps                                                               *)

LEMMA StartsInPlace ==
    ASSUME Init
    PROVE  FrameInv
<1>1. /\ speaks \in {"frames", "objects"} /\ open = TRUE /\ sent = <<>> /\ wire = <<>>
      /\ cumulation = <<>> /\ decoding = FALSE /\ decoded = 0 /\ handled = <<>>
  BY DEF Init
<1>2. TypeOK
  <2>1. /\ <<>> \in Seq(Messages) /\ <<>> \in Seq(Bytes) /\ Len(<<>>) = 0
    OBVIOUS
  <2>2. 0 \in 0..0
    OBVIOUS
  <2>3. QED
    BY <1>1, <2>1, <2>2, Zenon DEF TypeOK
<1>3. Todo = <<>>
  BY <1>1, EmptySeq DEF Todo
<1>4. InPlace
  <2>1. <<>> \o <<>> = <<>>
    BY EmptySeq, ConcatEmptySeq
  <2>2. QED
    BY <1>1, <1>3, <2>1, FlattenEmpty DEF InPlace
<1>5. HandledSoFar
  <2>1. SubSeq(<<>>, 1, 0) = <<>>
    BY SubSeqEmpty
  <2>2. QED
    BY <1>1, <2>1, DataOfEmpty DEF HandledSoFar
<1>6. NothingLeftBehind
  BY <1>1, EmptySeq DEF NothingLeftBehind
<1>7. QED
  BY <1>1, <1>2, <1>4, <1>5, <1>6 DEF FrameInv, ObjectsUnread, DecodesOpen

LEMMA SendInPlace ==
    ASSUME FrameInv, NEW m \in Messages, Send(m)
    PROVE  FrameInv'
<1>1. /\ TypeOK /\ InPlace /\ ObjectsUnread /\ DecodesOpen /\ HandledSoFar /\ NothingLeftBehind
  BY DEF FrameInv
<1>2. /\ open /\ sent' = Append(sent, m) /\ wire' = wire \o Encoded(m)
      /\ speaks' = speaks /\ open' = open /\ cumulation' = cumulation
      /\ decoding' = decoding /\ decoded' = decoded /\ handled' = handled
  BY DEF Send
<1>3. /\ speaks \in {"frames", "objects"} /\ open \in BOOLEAN /\ sent \in Seq(Messages)
      /\ wire \in Seq(Bytes) /\ cumulation \in Seq(Bytes) /\ decoding \in BOOLEAN
      /\ decoded \in 0..Len(sent) /\ handled \in Seq(Messages)
  BY <1>1 DEF TypeOK
<1>4. Encoded(m) \in Seq(Bytes)
  BY EncodedShape
<1>5. /\ sent' \in Seq(Messages) /\ Len(sent) \in Nat /\ Len(sent') = Len(sent) + 1
      /\ sent'[Len(sent) + 1] = m
      /\ \A i \in 1..Len(sent) : sent'[i] = sent[i]
  BY <1>2, <1>3, AppendProperties, LenProperties
<1>6. TypeOK'
  <2>1. wire' \in Seq(Bytes)
    BY <1>2, <1>3, <1>4, Joined
  <2>2. decoded' \in 0..Len(sent')
    BY <1>2, <1>3, <1>5
  <2>3. QED
    BY <1>2, <1>3, <1>5, <2>1, <2>2, Zenon DEF TypeOK
<1>7. InPlace'
  <2>1. FlattenSeq(Todo') = FlattenSeq(Todo) \o Encoded(m)
    BY <1>1, <1>6, SentIsLast
  <2>2. cumulation \o wire = FlattenSeq(Todo)
    BY <1>1, <1>2 DEF InPlace
  <2>3. cumulation \o (wire \o Encoded(m)) = (cumulation \o wire) \o Encoded(m)
    BY <1>3, <1>4, ConcatAssociative
  <2>4. cumulation' \o wire' = FlattenSeq(Todo')
    BY <1>2, <2>1, <2>2, <2>3, Zenon
  <2>5. QED
    BY <2>4 DEF InPlace
<1>8. HandledSoFar'
  <2>1. SubSeq(sent', 1, decoded) = SubSeq(sent, 1, decoded)
    <3>1. CASE decoded = 0
      BY <3>1, SubSeqEmpty
    <3>2. CASE decoded # 0
      <4>1. 1 \in 1..Len(sent) /\ decoded \in 1..Len(sent)
        BY <1>3, <1>5, <3>2
      <4>2. /\ <<m>> \in Seq(Messages) /\ sent' = sent \o <<m>>
        BY <1>2, <1>3, AppendIsConcat
      <4>3. QED
        BY <1>3, <4>1, <4>2, SubSeqOfConcat1
    <3>3. QED
      BY <3>1, <3>2
  <2>2. QED
    BY <1>1, <1>2, <2>1 DEF HandledSoFar
<1>9. NothingLeftBehind'
  <2>1. SUFFICES ASSUME speaks = "frames", ~decoding, decoded' # Len(sent')
                 PROVE  Len(cumulation) < Len(Frame(sent'[decoded + 1]))
    BY <1>2 DEF NothingLeftBehind, Frame
  <2>2. CASE decoded < Len(sent)
    <3>1. decoded + 1 \in 1..Len(sent) /\ decoded # Len(sent)
      BY <1>3, <1>5, <2>2
    <3>2. sent'[decoded + 1] = sent[decoded + 1]
      BY <1>5, <3>1, Zenon
    <3>3. QED
      BY <1>1, <1>2, <2>1, <3>1, <3>2 DEF NothingLeftBehind
  <2>3. CASE ~(decoded < Len(sent))
    <3>1. cumulation = <<>> /\ decoded = Len(sent)
      BY <1>1, <1>2, <2>3, AllRead
    <3>2. Len(Frame(m)) > 0
      BY FrameShape, MessageParts DEF HeaderSize
    <3>3. Len(cumulation) = 0
      BY <3>1, EmptySeq
    <3>4. QED
      BY <1>5, <3>1, <3>2, <3>3
  <2>4. QED
    BY <2>2, <2>3
<1>10. QED
  BY <1>1, <1>2, <1>6, <1>7, <1>8, <1>9 DEF FrameInv, ObjectsUnread, DecodesOpen

LEMMA DeliverInPlace ==
    ASSUME FrameInv, NEW n \in 1..Len(wire), Deliver(n)
    PROVE  FrameInv'
<1> DEFINE piece == SubSeq(wire, 1, n)
           rest == SubSeq(wire, n + 1, Len(wire))
<1>1. /\ TypeOK /\ InPlace /\ ObjectsUnread /\ HandledSoFar
  BY DEF FrameInv
<1>2. /\ open /\ cumulation' = cumulation \o piece /\ wire' = rest /\ decoding' = TRUE
      /\ speaks' = speaks /\ open' = open /\ sent' = sent
      /\ decoded' = decoded /\ handled' = handled
  BY DEF Deliver
<1>3. /\ speaks \in {"frames", "objects"} /\ open \in BOOLEAN /\ sent \in Seq(Messages)
      /\ wire \in Seq(Bytes) /\ cumulation \in Seq(Bytes)
      /\ decoded \in 0..Len(sent) /\ handled \in Seq(Messages)
  BY <1>1 DEF TypeOK
<1>4. Len(wire) \in Nat /\ n \in Nat /\ n <= Len(wire)
  BY <1>3, LenProperties
<1>5. \A i \in 1..Len(wire) : wire[i] \in Bytes
  BY <1>3, ElementOfSeq
<1>6. piece \in Seq(Bytes) /\ rest \in Seq(Bytes)
  <2>1. \A i \in 1..n : wire[i] \in Bytes
    BY <1>4, <1>5
  <2>2. \A i \in (n + 1)..Len(wire) : wire[i] \in Bytes
    BY <1>4, <1>5
  <2>3. piece \in Seq(Bytes)
    BY <1>4, <2>1, SubSeqProperties
  <2>4. rest \in Seq(Bytes)
    BY <1>4, <2>2, SubSeqProperties
  <2>5. QED
    BY <2>3, <2>4
<1>7. piece \o rest = wire
  <2>1. 1 \in 1..(Len(wire) + 1) /\ n \in (1 - 1)..Len(wire) /\ Len(wire) \in n..Len(wire)
    BY <1>4
  <2>2. piece \o rest = SubSeq(wire, 1, Len(wire))
    BY <1>3, <2>1, ConcatAdjacentSubSeq
  <2>3. QED
    BY <1>3, <2>2, SubSeqFull
<1> HIDE DEF piece, rest
<1>8. cumulation \o piece \in Seq(Bytes)
  BY <1>3, <1>6, Joined
<1>9. TypeOK'
  BY <1>2, <1>3, <1>6, <1>8, Zenon DEF TypeOK
<1>10. InPlace'
  <2>1. (cumulation \o piece) \o rest = cumulation \o (piece \o rest)
    <3>1. \A x, y, z \in Seq(Bytes) : (x \o y) \o z = x \o (y \o z)
      BY ConcatAssociative
    <3>2. QED
      BY <1>3, <1>6, <3>1, Zenon
  <2>2. cumulation \o wire = FlattenSeq(Todo)
    BY <1>1, <1>2 DEF InPlace
  <2>3. Todo' = Todo
    BY <1>2 DEF Todo, Encoded
  <2>4. cumulation' \o wire' = FlattenSeq(Todo')
    BY <1>2, <1>7, <2>1, <2>2, <2>3, Zenon
  <2>5. QED
    BY <2>4 DEF InPlace
<1>11. QED
  BY <1>1, <1>2, <1>9, <1>10
     DEF FrameInv, ObjectsUnread, DecodesOpen, HandledSoFar, NothingLeftBehind

\* The decoder stops only where no whole message is left.
LEMMA StopInPlace ==
    ASSUME FrameInv, TooShort \/ OtherProtocol \/ Incomplete
    PROVE  FrameInv'
<1>1. /\ TypeOK /\ InPlace /\ ObjectsUnread /\ DecodesOpen /\ HandledSoFar
  BY DEF FrameInv
<1>2. /\ decoding /\ decoding' = FALSE
      /\ speaks' = speaks /\ open' = open /\ sent' = sent /\ wire' = wire
      /\ cumulation' = cumulation /\ decoded' = decoded /\ handled' = handled
  BY DEF TooShort, OtherProtocol, Incomplete, Stop
<1>3. open
  BY <1>1, <1>2 DEF DecodesOpen
<1>4. TypeOK'
  BY <1>1, <1>2 DEF TypeOK
<1>5. InPlace'
  <2>1. Todo' = Todo
    BY <1>2 DEF Todo, Encoded
  <2>2. QED
    BY <1>1, <1>2, <2>1 DEF InPlace
<1>6. NothingLeftBehind'
  <2> DEFINE m == sent[decoded + 1]
  <2>1. SUFFICES ASSUME speaks = "frames", decoded # Len(sent)
                 PROVE  Len(cumulation) < Len(Frame(m))
    BY <1>2 DEF NothingLeftBehind, Frame
  <2>2. decoded < Len(sent)
    BY <1>1, <2>1, TodoTyped
  <2>3. m \in Messages
    BY <1>1, <2>2, NextIsFirst
  <2>4. /\ Len(Frame(m)) = HeaderSize + Len(m.body) /\ Len(m.body) \in Nat
        /\ Len(cumulation) \in Nat
    BY <1>1, <2>3, FrameShape, MessageParts, LenProperties DEF TypeOK
  <2>5. CASE ~HeaderComplete
    BY <2>4, <2>5 DEF HeaderComplete, HeaderSize
  <2>6. CASE HeaderComplete
    <3>1. MagicMatches /\ BodyLength = Len(m.body)
      BY <1>1, <1>3, <2>1, <2>6, HeaderRead
    <3>2. ~BodyComplete
      BY <2>6, <3>1 DEF TooShort, OtherProtocol, Incomplete
    <3>3. ~(Len(cumulation) - HeaderSize >= Len(m.body))
      BY <3>1, <3>2 DEF BodyComplete
    <3> HIDE DEF m
    <3>4. QED
      BY <2>4, <3>3 DEF HeaderSize
  <2>7. QED
    BY <2>5, <2>6
<1>7. QED
  BY <1>1, <1>2, <1>4, <1>5, <1>6
     DEF FrameInv, ObjectsUnread, DecodesOpen, HandledSoFar

LEMMA DecodeInPlace ==
    ASSUME FrameInv, Decode
    PROVE  FrameInv'
<1> DEFINE size == HeaderSize + BodyLength
           m == [type |-> cumulation[3], body |-> SubSeq(cumulation, HeaderSize + 1, size)]
           left == SubSeq(cumulation, size + 1, Len(cumulation))
<1>1. /\ TypeOK /\ InPlace /\ ObjectsUnread /\ DecodesOpen /\ HandledSoFar
  BY DEF FrameInv
<1>2. /\ decoding /\ HeaderComplete /\ MagicMatches /\ BodyComplete
      /\ cumulation' = left /\ decoded' = decoded + 1
      /\ handled' = IF m.type = Data THEN Append(handled, m) ELSE handled
      /\ speaks' = speaks /\ open' = open /\ sent' = sent /\ wire' = wire
      /\ decoding' = decoding
  BY DEF Decode, Forwarded
<1>3. open
  BY <1>1, <1>2 DEF DecodesOpen
<1>4. /\ speaks \in {"frames", "objects"} /\ open \in BOOLEAN /\ sent \in Seq(Messages)
      /\ wire \in Seq(Bytes) /\ decoding \in BOOLEAN
      /\ decoded \in 0..Len(sent) /\ handled \in Seq(Messages)
  BY <1>1 DEF TypeOK
<1>5. speaks = "frames"
  BY <1>1, <1>2, <1>3, <1>4, ObjectsLookDifferent
<1>6. decoded < Len(sent) /\ sent[decoded + 1] \in Messages
  BY <1>1, <1>2, <1>3, <1>5, HeaderRead
<1>7. /\ m = sent[decoded + 1] /\ left \in Seq(Bytes)
      /\ left \o wire = FlattenSeq(Tail(Todo))
  BY <1>1, <1>2, <1>3, <1>5, BodyRead
<1> HIDE DEF m, left
<1>8. Len(sent) \in Nat /\ decoded \in Nat
  BY <1>1, TodoTyped
<1>9. TypeOK'
  <2>1. decoded' \in 0..Len(sent')
    BY <1>2, <1>6, <1>8
  <2>2. handled' \in Seq(Messages)
    BY <1>2, <1>4, <1>6, <1>7, AppendProperties
  <2>3. QED
    BY <1>2, <1>4, <1>7, <2>1, <2>2, Zenon DEF TypeOK
<1>10. InPlace'
  <2>1. Todo' = Tail(Todo)
    BY <1>1, <1>2, <1>6, <1>9, DecodedWasFirst
  <2>2. cumulation' \o wire' = FlattenSeq(Todo')
    BY <1>2, <1>7, <2>1, Zenon
  <2>3. QED
    BY <2>2 DEF InPlace
<1>11. HandledSoFar'
  <2> DEFINE before == SubSeq(sent, 1, decoded)
             after == SubSeq(sent, 1, decoded + 1)
  <2>1. before \in Seq(Messages)
    <3>1. \A i \in 1..decoded : sent[i] \in Messages
      <4>1. \A i \in 1..decoded : i \in 1..Len(sent)
        BY <1>6, <1>8
      <4>2. QED
        BY <1>4, <4>1, ElementOfSeq
    <3>2. QED
      BY <1>8, <3>1, SubSeqProperties
  <2>2. after = Append(before, m)
    <3>1. 1 \in 1..Len(sent) /\ decoded + 1 \in 1..Len(sent) /\ (decoded + 1) - 1 = decoded
      BY <1>6, <1>8
    <3>2. after = SubSeq(sent, 1, (decoded + 1) - 1) \o <<sent[decoded + 1]>>
      BY <1>4, <3>1, SubSeqRecursiveSecond
    <3>3. Append(before, m) = before \o <<m>>
      BY <1>6, <1>7, <2>1, AppendIsConcat
    <3>4. QED
      BY <1>7, <3>1, <3>2, <3>3
  <2> HIDE DEF before, after
  <2>3. DataOf(after) = IF m.type = Data THEN Append(DataOf(before), m) ELSE DataOf(before)
    BY <1>6, <1>7, <2>1, <2>2, DataOfMore
  <2>4. handled = DataOf(before)
    BY <1>1 DEF HandledSoFar, before
  <2>5. handled' = DataOf(after)
    BY <1>2, <2>3, <2>4
  <2>6. QED
    BY <1>2, <2>5 DEF HandledSoFar, after
<1>12. QED
  BY <1>1, <1>2, <1>3, <1>5, <1>9, <1>10, <1>11
     DEF FrameInv, ObjectsUnread, DecodesOpen, NothingLeftBehind

LEMMA CloseInPlace ==
    ASSUME FrameInv, Close
    PROVE  FrameInv'
<1>1. TypeOK'
  <2>1. <<>> \in Seq(Bytes)
    OBVIOUS
  <2>2. QED
    BY <2>1 DEF FrameInv, TypeOK, Close
<1>2. QED
  BY <1>1
     DEF FrameInv, Close, InPlace, ObjectsUnread, DecodesOpen, HandledSoFar, NothingLeftBehind

LEMMA StutterInPlace ==
    ASSUME FrameInv, UNCHANGED vars
    PROVE  FrameInv'
BY DEF FrameInv, vars, TypeOK, InPlace, Todo, Encoded, ObjectsUnread, DecodesOpen,
       HandledSoFar, NothingLeftBehind

LEMMA StaysInPlace ==
    ASSUME FrameInv, [Next]_vars
    PROVE  FrameInv'
<1>1. CASE \E m \in Messages : Send(m)
  BY <1>1, SendInPlace
<1>2. CASE \E n \in 1..Len(wire) : Deliver(n)
  BY <1>2, DeliverInPlace
<1>3. CASE DecoderStep
  BY <1>3, StopInPlace, DecodeInPlace DEF DecoderStep
<1>4. CASE Close
  BY <1>4, CloseInPlace
<1>5. CASE UNCHANGED vars
  BY <1>5, StutterInPlace
<1>6. QED
  BY <1>1, <1>2, <1>3, <1>4, <1>5 DEF Next

LEMMA FrameInvHolds == Spec => []FrameInv
BY StartsInPlace, StaysInPlace, PTL DEF Spec

-------------------------------------------------------------------------------
(* The theorems                                                            *)

\* Types; the decoder never decodes more messages than were sent.
THEOREM TypeCorrect == Spec => []TypeOK
<1>1. FrameInv => TypeOK
  BY DEF FrameInv
<1>2. QED
  BY <1>1, FrameInvHolds, PTL

\* BinaryMessageDecoder.decode never loses its place in the stream, wherever TCP cuts
\* it, and whatever bytes the bodies contain.
THEOREM PlaceKept == Spec => []KeepsItsPlace
<1>1. FrameInv => KeepsItsPlace
  <2>1. SUFFICES ASSUME FrameInv, speaks = "frames", open
                 PROVE  cumulation \o wire =
                            FlattenSeq([i \in 1..(Len(sent) - decoded) |-> Frame(sent[decoded + i])])
    BY DEF KeepsItsPlace
  <2>2. Todo = [i \in 1..(Len(sent) - decoded) |-> Frame(sent[decoded + i])]
    BY <2>1 DEF Todo, Encoded
  <2>3. QED
    BY <2>1, <2>2 DEF FrameInv, InPlace
<1>2. QED
  BY <1>1, FrameInvHolds, PTL

\* ServerHandler gets the data messages of an agent unchanged, each once and in order;
\* acknowledgements go no further than ControlCommandHandler.
THEOREM MessagesInOrder == Spec => []HandledInOrder
<1>1. FrameInv => HandledInOrder
  BY DEF FrameInv, HandledSoFar, HandledInOrder
<1>2. QED
  BY <1>1, FrameInvHolds, PTL

\* When ByteToMessageDecoder stops calling decode, no whole message waits in the buffer.
THEOREM NoneLeftBehind == Spec => []NothingLeftBehind
<1>1. FrameInv => NothingLeftBehind
  BY DEF FrameInv
<1>2. QED
  BY <1>1, FrameInvHolds, PTL
===============================================================================
