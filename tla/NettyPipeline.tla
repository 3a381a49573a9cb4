---------------------------- MODULE NettyPipeline ----------------------------
(***************************************************************************)
(* The channel pipelines of NettyClient.connect and NebulaServer.start, and *)
(* what becomes of an object written into one. Netty hands a write to the   *)
(* outbound handlers in front of the writer, from the nearest to the head   *)
(* of the pipeline, and the head accepts nothing but bytes.                 *)
(***************************************************************************)
EXTENDS Naturals, Sequences

\* In the order of the addLast calls: the head of the pipeline is first.
AgentPipeline ==
    <<"BinaryMessageDecoder", "ControlMessageHandler", "ObjectDecoder",
      "BinaryMessageEncoder", "ObjectEncoder">>

ServerPipeline ==
    <<"BinaryMessageDecoder", "BinaryMessageEncoder", "ObjectDecoder",
      "ControlCommandHandler", "ServerHandler">>

\* MessageToByteEncoder encodes the objects of its own type and passes the others
\* on as they are: BinaryMessageEncoder takes a Message, ObjectEncoder a
\* Serializable, which a Message is not.
Encodes(handler, form) ==
    \/ handler = "BinaryMessageEncoder" /\ form = "Message"
    \/ handler = "ObjectEncoder" /\ form = "Serializable"

\* Does an object written in front of position `at` reach the socket?
ReachesSocket(pipeline, at, form) ==
    \E i \in 1..at - 1 : Encodes(pipeline[i], form)

\* Channel.writeAndFlush starts behind the last handler.
ChannelWrite(pipeline, form) == ReachesSocket(pipeline, Len(pipeline) + 1, form)

\* ChannelHandlerContext.writeAndFlush starts at the handler itself.
ContextWrite(pipeline, handler, form) ==
    \E at \in DOMAIN pipeline :
        pipeline[at] = handler /\ ReachesSocket(pipeline, at, form)
===============================================================================
