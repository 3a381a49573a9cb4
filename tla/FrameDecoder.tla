------------------------------ MODULE FrameDecoder ------------------------------
(***************************************************************************)
(* One connection from an agent to the server, as bytes: NettyClient.send   *)
(* and BinaryMessageEncoder frame each message, TCP delivers the bytes in   *)
(* pieces of any size, Netty's ByteToMessageDecoder accumulates them and    *)
(* calls BinaryMessageDecoder.decode until it makes no progress, and        *)
(* ControlCommandHandler passes the DATA messages on to ServerHandler.      *)
(*                                                                         *)
(* The server also expects agents that have not been upgraded, which send   *)
(* serialized objects: ObjectEncoder frames those differently. A byte is a  *)
(* number, a body a short sequence of bytes. Nobody sends a frame of        *)
(* unknown type, for which MessageType.fromValue would throw.               *)
(***************************************************************************)
EXTENDS Integers, Sequences, SequencesExt

CONSTANTS
    Messages,       \* messages an agent may send: [type, body]
    MaxSent         \* bound on the messages sent

\* MessageType.
Data == 1
Ack == 3

Bytes == 0..255
HeaderSize == 7

\* Integer.MAX_VALUE, which no ByteBuf exceeds: a frame is written into one.
MaxCapacity == 2147483647

ASSUME FrameAssumption ==
    /\ Messages \subseteq [type : {Data, Ack}, body : Seq(Bytes)]
    /\ \A m \in Messages : HeaderSize + Len(m.body) <= MaxCapacity
    /\ MaxSent \in Nat

VARIABLES
    speaks,         \* "frames", or "objects" for an agent that was not upgraded
    open,           \* is the connection up?
    sent,           \* history: messages sent
    wire,           \* bytes sent and not delivered
    cumulation,     \* bytes delivered and not consumed by decode
    decoding,       \* ByteToMessageDecoder.callDecode goes on
    decoded,        \* history: number of messages decoded
    handled         \* messages ServerHandler received

vars == <<speaks, open, sent, wire, cumulation, decoding, decoded, handled>>

MagicNumber == <<202, 254>>

\* ByteBuf.writeInt and getInt: four bytes, the highest first.
Int32(n) == <<n \div 16777216, (n \div 65536) % 256, (n \div 256) % 256, n % 256>>
IntAt(bytes, i) ==
    bytes[i] * 16777216 + bytes[i + 1] * 65536 + bytes[i + 2] * 256 + bytes[i + 3]

FrameNoLength(m) ==                 \* mutant: the length counts the header
    MagicNumber \o <<m.type>> \o Int32(Len(m.body) + HeaderSize) \o m.body

\* BinaryMessageEncoder.encode.
Frame(m) == MagicNumber \o <<m.type>> \o Int32(Len(m.body)) \o m.body

\* ObjectEncoder: length, version of the stream format, object.
Object(m) == Int32(Len(m.body) + 1) \o <<5>> \o m.body

Encoded(m) == IF speaks = "frames" THEN Frame(m) ELSE Object(m)

Init ==
    /\ speaks \in {"frames", "objects"}
    /\ open = TRUE
    /\ sent = <<>>
    /\ wire = <<>>
    /\ cumulation = <<>>
    /\ decoding = FALSE
    /\ decoded = 0
    /\ handled = <<>>

\* NettyClient.send, sendMessage. The older protocol has no other messages than data.
Send(m) ==
    /\ open
    /\ Len(sent) < MaxSent
    /\ speaks = "objects" => m.type = Data
    /\ sent' = Append(sent, m)
    /\ wire' = wire \o Encoded(m)
    /\ UNCHANGED <<speaks, open, cumulation, decoding, decoded, handled>>

\* TCP delivers the next n bytes.
Deliver(n) ==
    /\ open
    /\ ~decoding
    /\ cumulation' = cumulation \o SubSeq(wire, 1, n)
    /\ wire' = SubSeq(wire, n + 1, Len(wire))
    /\ decoding' = TRUE
    /\ UNCHANGED <<speaks, open, sent, decoded, handled>>

\* decode returns without consuming a byte, which ends callDecode.
Stop ==
    /\ decoding' = FALSE
    /\ UNCHANGED <<speaks, open, sent, wire, cumulation, decoded, handled>>

HeaderComplete == Len(cumulation) >= HeaderSize
MagicMatches == SubSeq(cumulation, 1, 2) = MagicNumber
BodyLength == IntAt(cumulation, 4)
BodyComplete == Len(cumulation) - HeaderSize >= BodyLength

TooShort ==
    /\ decoding
    /\ ~HeaderComplete
    /\ Stop

\* The bytes stay where they are: nothing hands them to ObjectDecoder.
OtherProtocol ==
    /\ decoding
    /\ HeaderComplete
    /\ ~MagicMatches
    /\ Stop

IncompleteConsumed ==               \* mutant: resetReaderIndex is forgotten
    /\ decoding
    /\ HeaderComplete
    /\ MagicMatches
    /\ ~BodyComplete
    /\ decoding' = FALSE
    /\ cumulation' = SubSeq(cumulation, HeaderSize + 1, Len(cumulation))
    /\ UNCHANGED <<speaks, open, sent, wire, decoded, handled>>

\* resetReaderIndex.
Incomplete ==
    /\ decoding
    /\ HeaderComplete
    /\ MagicMatches
    /\ ~BodyComplete
    /\ Stop

AlwaysForwarded(m) == TRUE          \* mutant

\* ControlCommandHandler: an ACK ends here.
Forwarded(m) == m.type = Data

DecodeOnce ==                       \* mutant: one message for each delivery
    /\ decoding
    /\ HeaderComplete
    /\ MagicMatches
    /\ BodyComplete
    /\ LET size == HeaderSize + BodyLength
           m == [type |-> cumulation[3],
                 body |-> SubSeq(cumulation, HeaderSize + 1, size)] IN
          /\ cumulation' = SubSeq(cumulation, size + 1, Len(cumulation))
          /\ decoded' = decoded + 1
          /\ handled' = IF Forwarded(m) THEN Append(handled, m) ELSE handled
    /\ decoding' = FALSE
    /\ UNCHANGED <<speaks, open, sent, wire>>

\* A whole message is there.
Decode ==
    /\ decoding
    /\ HeaderComplete
    /\ MagicMatches
    /\ BodyComplete
    /\ LET size == HeaderSize + BodyLength
           m == [type |-> cumulation[3],
                 body |-> SubSeq(cumulation, HeaderSize + 1, size)] IN
          /\ cumulation' = SubSeq(cumulation, size + 1, Len(cumulation))
          /\ decoded' = decoded + 1
          /\ handled' = IF Forwarded(m) THEN Append(handled, m) ELSE handled
    /\ UNCHANGED <<speaks, open, sent, wire, decoding>>

DecoderStep == TooShort \/ OtherProtocol \/ Incomplete \/ Decode

\* The connection breaks; what was not delivered, and half a frame, are dropped.
Close ==
    /\ open
    /\ ~decoding
    /\ open' = FALSE
    /\ wire' = <<>>
    /\ cumulation' = <<>>
    /\ UNCHANGED <<speaks, sent, decoding, decoded, handled>>

Next ==
    \/ \E m \in Messages : Send(m)
    \/ \E n \in 1..Len(wire) : Deliver(n)
    \/ DecoderStep
    \/ Close

Spec == Init /\ [][Next]_vars

\* TCP delivers what it was given, and the event loop decodes.
Fairness == WF_vars(DecoderStep) /\ WF_vars(\E n \in 1..Len(wire) : Deliver(n))

FairSpec == Spec /\ Fairness

-------------------------------------------------------------------------------
(* Properties                                                              *)

\* The data messages among those of s, in their order.
DataOf(s) == FlattenSeq([i \in 1..Len(s) |-> IF s[i].type = Data THEN <<s[i]>> ELSE <<>>])

\* Types, and how far the decoder can have come.
TypeOK ==
    /\ speaks \in {"frames", "objects"}
    /\ open \in BOOLEAN
    /\ sent \in Seq(Messages)
    /\ wire \in Seq(Bytes)
    /\ cumulation \in Seq(Bytes)
    /\ decoding \in BOOLEAN
    /\ decoded \in 0..Len(sent)
    /\ handled \in Seq(Messages)

\* ServerHandler gets the data messages that were sent, each once, unchanged and in
\* order, wherever TCP cuts the stream and whatever the bodies contain.
HandledInOrder ==
    speaks = "frames" => handled = DataOf(SubSeq(sent, 1, decoded))

\* The decoder never loses its place: the bytes it has not consumed, with those on
\* the wire, are the frames of the messages it has not decoded.
KeepsItsPlace ==
    speaks = "frames" /\ open =>
        cumulation \o wire =
            FlattenSeq([i \in 1..(Len(sent) - decoded) |-> Frame(sent[decoded + i])])

\* When it stops, no whole message is left behind.
NothingLeftBehind ==
    speaks = "frames" /\ ~decoding /\ open =>
        \/ decoded = Len(sent)
        \/ Len(cumulation) < Len(Frame(sent[decoded + 1]))

\* Every data message is handled, unless the connection breaks.
AllHandled ==
    \A k \in 1..MaxSent :
        speaks = "frames" /\ Len(sent) >= k ~> decoded >= k \/ ~open

\* "跳过当前消息让后续解码器处理（向后兼容）" (BinaryMessageDecoder.java:15): the objects
\* of an agent that was not upgraded reach ServerHandler as well.
ObjectsHandled ==
    [](speaks = "objects") =>
        \A k \in 1..MaxSent : Len(sent) >= k ~> Len(handled) >= k \/ ~open
===============================================================================
