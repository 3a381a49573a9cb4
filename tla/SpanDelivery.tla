----------------------------- MODULE SpanDelivery -----------------------------
(***************************************************************************)
(* What the server promises about a span once ServerHandler has accepted   *)
(* it, whatever carries it (Redis list, fallback queue, batch): the span   *)
(* is held until it is indexed in Elasticsearch or struck by a fault, an   *)
(* indexed span stays indexed, and nothing is indexed that never arrived.  *)
(* Copies are invisible here: a span is held as long as one copy is.       *)
(***************************************************************************)
CONSTANT Spans      \* identifiers of the spans agents may send

VARIABLES
    accepted,       \* spans handed to ServerHandler.handleMonitoringData
    held,           \* spans of which some component still holds a copy
    stored,         \* document ids present in Elasticsearch
    hit             \* spans of which a fault destroyed a copy

vars == <<accepted, held, stored, hit>>

TypeOK ==
    /\ accepted \subseteq Spans
    /\ held \subseteq Spans
    /\ stored \subseteq Spans
    /\ hit \subseteq Spans

Init ==
    /\ accepted = {}
    /\ held = {}
    /\ stored = {}
    /\ hit = {}

Accept(s) ==
    /\ s \in Spans \ accepted
    /\ accepted' = accepted \union {s}
    /\ held' = held \union {s}
    /\ UNCHANGED <<stored, hit>>

\* Copies of the spans S are indexed and copies of the spans L are destroyed.
\* A span may remain held, through another copy; a span outside S and L does.
Settle(S, L) ==
    /\ stored' = stored \union S
    /\ hit' = hit \union L
    /\ held' \subseteq held
    /\ held \ held' \subseteq S \union L
    /\ UNCHANGED accepted

Next ==
    \/ \E s \in Spans : Accept(s)
    \/ \E S, L \in SUBSET held : Settle(S, L)

Spec == Init /\ [][Next]_vars

-------------------------------------------------------------------------------
\* No span vanishes and none is invented: what was accepted is what is still
\* held, indexed, or known to have been struck by a fault.
Conserved == accepted = held \union stored \union hit

\* Nothing that was indexed or struck is ever forgotten, and a span leaves the
\* pipeline only into the index or into the set of struck spans.
LeavesOnlySettled ==
    [][/\ stored \subseteq stored'
       /\ held \ held' \subseteq stored' \union hit']_vars
===============================================================================
