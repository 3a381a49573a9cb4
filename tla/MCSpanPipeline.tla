---------------------------- MODULE MCSpanPipeline ----------------------------
(***************************************************************************)
(* SpanPipeline for TLC. Handlers are interchangeable, and spans of the    *)
(* same speed are.                                                         *)
(***************************************************************************)
EXTENDS SpanPipeline, TLC

Symmetry ==
    Permutations(Handlers) \union Permutations(Slow) \union Permutations(Spans \ Slow)
===============================================================================
