----------------------------- MODULE MCFrameDecoder -----------------------------
(* Instance of FrameDecoder for TLC: an empty body, and bodies that look like a *)
(* header or the beginning of one.                                              *)
EXTENDS FrameDecoder

MCMessages ==
    {[type |-> Data, body |-> <<>>], [type |-> Data, body |-> MagicNumber],
     [type |-> Data, body |-> <<0, 202>>], [type |-> Ack, body |-> <<254>>]}
===============================================================================
