-------------------------- MODULE SpanPipelineProofs --------------------------
(***************************************************************************)
(* Proofs about SpanPipeline, for any number of spans, handlers, attempts, *)
(* faults and any capacities.                                              *)
(***************************************************************************)
EXTENDS SpanPipeline, FiniteSetTheorems, TLAPS

-------------------------------------------------------------------------------
(* Facts about the ranges of sequences                                     *)

\* Appending adds exactly the appended element to a queue's contents.
LEMMA RangeOfAppend ==
    ASSUME NEW S, NEW q \in Seq(S), NEW x \in S
    PROVE  Range(Append(q, x)) = Range(q) \union {x}
<1>1. DOMAIN Append(q, x) = 1..Len(q) + 1 /\ DOMAIN q = 1..Len(q)
  OBVIOUS
<1>2. \A i \in 1..Len(q) : Append(q, x)[i] = q[i]
  OBVIOUS
<1>3. Append(q, x)[Len(q) + 1] = x /\ Len(q) \in Nat
  OBVIOUS
<1>4. 1..Len(q) + 1 = (1..Len(q)) \union {Len(q) + 1}
  BY <1>3
<1>5. QED
  BY <1>1, <1>2, <1>3, <1>4 DEF Range

\* A non-empty queue holds its head and what its tail holds.
LEMMA RangeOfTail ==
    ASSUME NEW S, NEW q \in Seq(S), q # <<>>
    PROVE  /\ Head(q) \in S
           /\ Range(q) = Range(Tail(q)) \union {Head(q)}
<1>1. Len(q) \in Nat \ {0} /\ DOMAIN q = 1..Len(q)
  OBVIOUS
<1>2. Len(Tail(q)) = Len(q) - 1 /\ DOMAIN Tail(q) = 1..Len(q) - 1
  OBVIOUS
<1>3. \A i \in 1..Len(q) - 1 : Tail(q)[i] = q[i + 1]
  OBVIOUS
<1>4. Head(q) = q[1] /\ Head(q) \in S
  BY <1>1
<1>5. ASSUME NEW i \in 1..Len(q)
      PROVE  q[i] = q[1] \/ q[i] \in Range(Tail(q))
  <2>1. CASE i = 1
    BY <2>1
  <2>2. CASE i # 1
    <3>1. i - 1 \in 1..Len(q) - 1 /\ (i - 1) + 1 = i
      BY <1>1, <2>2
    <3>2. QED
      BY <1>2, <1>3, <3>1 DEF Range
  <2>3. QED
    BY <2>1, <2>2
<1>6. \A i \in 1..Len(q) - 1 : Tail(q)[i] \in Range(q)
  BY <1>1, <1>3 DEF Range
<1>7. q[1] \in Range(q)
  BY <1>1 DEF Range
<1>8. QED
  BY <1>1, <1>2, <1>4, <1>5, <1>6, <1>7 DEF Range

\* A queue of spans holds spans.
LEMMA RangeOfSeqIn ==
    ASSUME NEW S, NEW q \in Seq(S)
    PROVE  Range(q) \subseteq S
BY DEF Range

\* An empty queue holds nothing.
LEMMA RangeOfEmpty == Range(<<>>) = {}
BY DEF Range

-------------------------------------------------------------------------------
(* Type correctness                                                        *)

\* The ways a handler leaves an action keep the handlers' types.
LEMMA HandlersTypedAfter ==
    ASSUME HandlersTyped, pool' \in BOOLEAN, NEW h \in Handlers
    PROVE  /\ Finish(h) => HandlersTyped'
           /\ \A e \in BOOLEAN :
                 hpc[h] = "attempt" /\ NextAttempt(h, e) => HandlersTyped'
<1> USE PipelineAssumption DEF HandlersTyped
<1>1. ASSUME Finish(h)
      PROVE  HandlersTyped'
  BY <1>1 DEF Finish
<1>2. ASSUME NEW e \in BOOLEAN, hpc[h] = "attempt", NextAttempt(h, e)
      PROVE  HandlersTyped'
  <2>1. retry' \in [Handlers -> 0..MaxAttempts]
    BY <1>2 DEF NextAttempt
  <2>2. hpc' \in [Handlers -> {"idle", "attempt", "backoff", "fallback"}]
    BY <1>2 DEF NextAttempt
  <2>3. ASSUME NEW g \in Handlers
        PROVE  /\ inHand'[g] = NoSpan <=> hpc'[g] = "idle"
               /\ hpc'[g] \in {"attempt", "backoff"} => retry'[g] < MaxAttempts
    BY <1>2 DEF NextAttempt
  <2>4. QED
    BY <1>2, <2>1, <2>2, <2>3 DEF NextAttempt
<1>3. QED
  BY <1>1, <1>2

\* What every pool initialisation leaves is a Boolean.
LEMMA PoolTyped == InitPool \subseteq BOOLEAN /\ CreatePool \subseteq BOOLEAN
BY DEF InitPool, CreatePool

\* The fault counter stays within its bound.
LEMMA FaultsTyped ==
    ASSUME TypeOK, Fault \/ NoFault \/ FailingCommand
    PROVE  faults' \in 0..MaxFaults
BY PipelineAssumption
   DEF TypeOK, HistoryTyped, Fault, NoFault, FailingCommand

\* A handler that is not idle holds a span.
LEMMA BusyHoldsSpan ==
    ASSUME TypeOK, NEW h \in Handlers, hpc[h] # "idle"
    PROVE  inHand[h] \in Spans
BY DEF TypeOK, HandlersTyped

\* An action of a handler thread keeps the types.
LEMMA HandlerType ==
    ASSUME TypeOK, NEW h \in Handlers,
           (\E s \in Spans : Receive(h, s)) \/ HandlerStep(h)
    PROVE  TypeOK'
<1> USE PipelineAssumption, PoolTyped, FaultsTyped, HandlersTypedAfter, BusyHoldsSpan
    DEF TypeOK, QueuesTyped, WorkerTyped, HistoryTyped,
        redisVars, workerVars, historyVars
<1>1. ASSUME NEW s \in Spans, Receive(h, s)
      PROVE  TypeOK'
  <2>1. HandlersTyped'
    BY <1>1 DEF Receive, HandlersTyped
  <2>2. QED
    BY <1>1, <2>1 DEF Receive
<1>2. CASE Push(h)
  <2>1. HandlersTyped'
    BY <1>2 DEF Push
  <2>2. QueuesTyped'
    BY <1>2 DEF Push
  <2>3. QED
    BY <1>2, <2>1, <2>2 DEF Push
<1>3. CASE PushUnacknowledged(h)
  <2>1. inHand[h] \in Spans
    BY <1>3 DEF PushUnacknowledged
  <2>2. HandlersTyped'
    BY <1>3 DEF PushUnacknowledged
  <2>3. QueuesTyped'
    BY <1>3, <2>1 DEF PushUnacknowledged
  <2>4. HistoryTyped'
    <3>1. ambiguous' \in [Spans -> Nat]
      BY <1>3, <2>1 DEF PushUnacknowledged
    <3>2. faults' \in 0..MaxFaults
      BY <1>3 DEF PushUnacknowledged
    <3>3. QED
      BY <1>3, <3>1, <3>2 DEF PushUnacknowledged
  <2>5. QED
    BY <1>3, <2>2, <2>3, <2>4 DEF PushUnacknowledged
<1>4. CASE PushFails(h)
  BY <1>4 DEF PushFails
<1>5. CASE NoConnection(h)
  BY <1>5 DEF NoConnection
<1>6. CASE Backoff(h)
  <2>1. HandlersTyped'
    BY <1>6 DEF Backoff, HandlersTyped
  <2>2. QED
    BY <1>6, <2>1 DEF Backoff
<1>7. CASE Fallback(h)
  <2>1. HandlersTyped'
    <3>1. pool' \in BOOLEAN
      BY <1>7 DEF Fallback, HandlersTyped
    <3>2. QED
      BY <1>7, <3>1 DEF Fallback
  <2>2. inHand[h] \in Spans
    BY <1>7 DEF Fallback
  <2>3. QueuesTyped'
    BY <1>7, <2>2 DEF Fallback
  <2>4. QED
    BY <1>7, <2>1, <2>3 DEF Fallback
<1>8. QED
  BY <1>1, <1>2, <1>3, <1>4, <1>5, <1>6, <1>7 DEF HandlerStep

\* Taking a span into the batch keeps the worker's types: the batch never
\* outgrows BatchSize, and one that reaches it is about to be sent.
LEMMA TakeTyped ==
    ASSUME TypeOK, wpc # "flush", NEW s \in Spans, Take(s),
           workerPool' \in BOOLEAN, UNCHANGED cooldown
    PROVE  WorkerTyped'
<1> USE PipelineAssumption DEF TypeOK, WorkerTyped, Take
<1>1. batch' \in Seq(Spans) /\ Len(batch') = Len(batch) + 1
  OBVIOUS
<1>2. submitted' \in [Spans -> Nat]
  OBVIOUS
<1>3. Len(batch') <= BatchSize /\ (wpc' # "flush" => Len(batch') < BatchSize)
  BY <1>1
<1>4. QED
  BY <1>1, <1>2, <1>3

\* The handlers' types depend on the handlers' variables alone.
LEMMA HandlersFrame ==
    ASSUME HandlersTyped, UNCHANGED handlerVars
    PROVE  HandlersTyped'
BY DEF HandlersTyped, handlerVars

\* An action of the worker thread keeps the types.
LEMMA WorkerType ==
    ASSUME TypeOK, WorkerStep
    PROVE  TypeOK'
<1> USE PipelineAssumption, PoolTyped, FaultsTyped, HandlersFrame
    DEF TypeOK, QueuesTyped, HistoryTyped, redisVars, historyVars
<1>1. CASE AwaitPool
  BY <1>1 DEF AwaitPool, WorkerTyped
<1>2. CASE EnterLoop
  BY <1>2 DEF EnterLoop, WorkerTyped
<1>3. CASE Reconnect
  BY <1>3 DEF Reconnect, WorkerTyped
<1>4. CASE ReadRedis
  <2>1. Head(redisList) \in Spans /\ Tail(redisList) \in Seq(Spans)
    BY <1>4 DEF ReadRedis
  <2>2. WorkerTyped'
    <3>1. workerPool' \in BOOLEAN
      BY <1>4 DEF ReadRedis, WorkerTyped
    <3>2. QED
      BY <1>4, <2>1, <3>1, TakeTyped DEF ReadRedis
  <2>3. QED
    BY <1>4, <2>1, <2>2 DEF ReadRedis
<1>5. CASE ReadReplyLost
  <2>1. Head(redisList) \in Spans /\ Tail(redisList) \in Seq(Spans)
    BY <1>5 DEF ReadReplyLost
  <2>2. QED
    BY <1>5, <2>1 DEF ReadReplyLost, WorkerTyped
<1>6. CASE ReadNothing
  BY <1>6 DEF ReadNothing, WorkerTyped
<1>7. CASE ReadFails
  BY <1>7 DEF ReadFails, WorkerTyped
<1>8. CASE SkipRead
  BY <1>8 DEF SkipRead, WorkerTyped
<1>9. CASE PollMemory
  <2>1. Head(memQueue) \in Spans /\ Tail(memQueue) \in Seq(Spans)
        /\ Len(Tail(memQueue)) <= QueueCapacity
    BY <1>9 DEF PollMemory
  <2>2. WorkerTyped'
    <3>1. workerPool' \in BOOLEAN
      BY <1>9 DEF PollMemory, WorkerTyped
    <3>2. QED
      BY <1>9, <2>1, <3>1, TakeTyped DEF PollMemory
  <2>3. QED
    BY <1>9, <2>1, <2>2 DEF PollMemory
<1>10. CASE PollNothing
  BY <1>10 DEF PollNothing, WorkerTyped
<1>11. ASSUME NEW S \in SUBSET Range(batch), Flush(S)
       PROVE  TypeOK'
  <2>1. Range(batch) \subseteq Spans
    BY RangeOfSeqIn DEF WorkerTyped
  <2>2. WorkerTyped'
    BY <1>11 DEF Flush, WorkerTyped
  <2>3. QED
    BY <1>11, <2>1, <2>2 DEF Flush
<1>12. CASE Wake
  BY <1>12 DEF Wake, WorkerTyped
<1>13. QED
  BY <1>1, <1>2, <1>3, <1>4, <1>5, <1>6, <1>7, <1>8, <1>9, <1>10, <1>11, <1>12
     DEF WorkerStep

\* Every step keeps the types.
LEMMA StepType ==
    ASSUME TypeOK, [Next]_vars
    PROVE  TypeOK'
<1>1. CASE UNCHANGED vars
  BY <1>1 DEF vars, TypeOK, QueuesTyped, HandlersTyped, WorkerTyped, HistoryTyped,
              redisVars, handlerVars, workerVars, historyVars
<1>2. ASSUME NEW h \in Handlers, (\E s \in Spans : Receive(h, s)) \/ HandlerStep(h)
      PROVE  TypeOK'
  BY <1>2, HandlerType
<1>3. CASE WorkerStep
  BY <1>3, WorkerType
<1>4. CASE CooldownElapses
  BY <1>4, FaultsTyped
     DEF CooldownElapses, TypeOK, QueuesTyped, HandlersTyped, WorkerTyped,
         HistoryTyped, redisVars, handlerVars, historyVars
<1>5. CASE RedisFails \/ RedisRecovers
  BY <1>5, FaultsTyped
     DEF RedisFails, RedisRecovers, TypeOK, QueuesTyped, HandlersTyped, WorkerTyped,
         HistoryTyped, handlerVars, workerVars, historyVars
<1>6. CASE Crash
  <2>1. Volatile \subseteq Spans
    BY RangeOfSeqIn
       DEF Volatile, InHands, TypeOK, QueuesTyped, HandlersTyped, WorkerTyped
  <2>2. HandlersTyped'
    BY <1>6, PoolTyped, PipelineAssumption DEF Crash, HandlersTyped
  <2>3. WorkerTyped'
    <3>1. batch' \in Seq(Spans) /\ Len(batch') = 0
      BY <1>6 DEF Crash
    <3>2. submitted' \in [Spans -> Nat] /\ workerPool' \in BOOLEAN
      BY <1>6, PoolTyped DEF Crash, TypeOK, WorkerTyped
    <3>3. Len(batch') <= BatchSize /\ Len(batch') < BatchSize
      BY <3>1, PipelineAssumption
    <3>4. /\ wpc' \in {"start", "top", "read", "poll", "flush", "sleep"}
          /\ cooldown' \in BOOLEAN /\ idle' \in BOOLEAN
      BY <1>6 DEF Crash
    <3>5. QED
      BY <3>1, <3>2, <3>3, <3>4 DEF WorkerTyped
  <2>4. QueuesTyped'
    BY <1>6, PipelineAssumption DEF Crash, QueuesTyped, TypeOK, redisVars
  <2>5. HistoryTyped'
    BY <1>6, <2>1, FaultsTyped DEF Crash, HistoryTyped, TypeOK
  <2>6. QED
    BY <2>2, <2>3, <2>4, <2>5 DEF TypeOK
<1>7. QED
  BY <1>1, <1>2, <1>3, <1>4, <1>5, <1>6 DEF Next

\* The initial states are well typed.
LEMMA InitType ==
    ASSUME Init
    PROVE  TypeOK
<1> USE PipelineAssumption, PoolTyped DEF Init
<1>1. QueuesTyped
  BY DEF QueuesTyped
<1>2. HandlersTyped
  BY DEF HandlersTyped
<1>3. WorkerTyped
  <2>1. submitted \in [Spans -> Nat]
    OBVIOUS
  <2>2. batch \in Seq(Spans) /\ Len(batch) = 0
    OBVIOUS
  <2>3. Len(batch) <= BatchSize /\ Len(batch) < BatchSize
    BY <2>2
  <2>4. /\ wpc \in {"start", "top", "read", "poll", "flush", "sleep"}
        /\ workerPool \in BOOLEAN /\ cooldown \in BOOLEAN /\ idle \in BOOLEAN
    OBVIOUS
  <2>5. QED
    BY <2>1, <2>2, <2>3, <2>4 DEF WorkerTyped
<1>4. HistoryTyped
  BY DEF HistoryTyped
<1>5. QED
  BY <1>1, <1>2, <1>3, <1>4 DEF TypeOK

\* In every behaviour the state is well typed: in particular the fallback queue
\* never exceeds its capacity nor the batch BatchSize.
THEOREM TypeCorrect == Spec => []TypeOK
<1>1. Init => TypeOK
  BY InitType
<1>2. TypeOK /\ [Next]_vars => TypeOK'
  BY StepType
<1>3. QED
  BY <1>1, <1>2, PTL DEF Spec

-------------------------------------------------------------------------------
(* What each step does to the spans the server holds                       *)

\* A handler that finishes lets go of its span and of nothing else.
LEMMA HandsAfterFinish ==
    ASSUME HandlersTyped, NEW h \in Handlers, Finish(h)
    PROVE  /\ InHands' \subseteq InHands
           /\ InHands \subseteq InHands' \union {inHand[h]}
<1>1. \A g \in Handlers : inHand'[g] = IF g = h THEN NoSpan ELSE inHand[g]
  BY DEF Finish, HandlersTyped
<1>2. QED
  BY <1>1 DEF InHands

\* A busy handler's span is among the spans in hand.
LEMMA BusyInHands ==
    ASSUME TypeOK, NEW h \in Handlers, hpc[h] # "idle"
    PROVE  inHand[h] \in InHands
BY DEF TypeOK, HandlersTyped, InHands

\* Writing to Redis or to the fallback queue, failing to, and waiting: no handler
\* action loses a span or makes one up.
LEMMA HandlerEffect ==
    ASSUME TypeOK, NEW h \in Handlers, HandlerStep(h)
    PROVE  Held' = Held /\ UNCHANGED <<accepted, stored, hit>>
<1> USE BusyHoldsSpan, BusyInHands DEF TypeOK, Held, Volatile, workerVars, historyVars
<1>1. CASE Push(h)
  <2>1. Range(redisList') = Range(redisList) \union {inHand[h]}
    BY <1>1, RangeOfAppend DEF Push, QueuesTyped
  <2>2. QED
    BY <1>1, <2>1, HandsAfterFinish DEF Push
<1>2. CASE PushUnacknowledged(h)
  <2>1. Range(redisList') = Range(redisList) \union {inHand[h]}
    BY <1>2, RangeOfAppend DEF PushUnacknowledged, QueuesTyped
  <2>2. QED
    BY <1>2, <2>1 DEF PushUnacknowledged, NextAttempt, InHands
<1>3. CASE PushFails(h) \/ NoConnection(h)
  BY <1>3 DEF PushFails, NoConnection, NextAttempt, InHands, redisVars
<1>4. CASE Backoff(h)
  BY <1>4 DEF Backoff, InHands, redisVars
<1>5. CASE Fallback(h)
  <2>1. Range(memQueue') = Range(memQueue) \union {inHand[h]}
    BY <1>5, RangeOfAppend DEF Fallback, QueuesTyped
  <2>2. QED
    BY <1>5, <2>1, HandsAfterFinish DEF Fallback, redisVars
<1>6. QED
  BY <1>1, <1>2, <1>3, <1>4, <1>5 DEF HandlerStep

\* Receiving adds exactly the received span.
LEMMA ReceiveEffect ==
    ASSUME TypeOK, NEW h \in Handlers, NEW s \in Spans, Receive(h, s)
    PROVE  Delivery!Accept(s)
<1>1. \A g \in Handlers : inHand'[g] = IF g = h THEN s ELSE inHand[g]
  BY DEF Receive, TypeOK, HandlersTyped
<1>2. inHand[h] = NoSpan
  BY DEF Receive, TypeOK, HandlersTyped
<1>3. InHands' = InHands \union {s}
  BY <1>1, <1>2, PipelineAssumption DEF InHands
<1>4. Held' = Held \union {s}
  BY <1>3 DEF Receive, Held, Volatile, redisVars, workerVars
<1>5. QED
  BY <1>4 DEF Receive, Delivery!Accept

\* A worker action moves spans from a queue to the batch, or settles them: the
\* spans S are indexed, the spans L are struck, and only by a fault.
LEMMA WorkerEffect ==
    ASSUME TypeOK, WorkerStep
    PROVE  \E S, L \in SUBSET Held : Delivery!Settle(S, L) /\ (L # {} => Fault)
<1> DEFINE Quiet == Held' = Held /\ UNCHANGED <<accepted, stored, hit>>
<1>1. Quiet => Delivery!Settle({}, {})
  BY DEF Delivery!Settle
<1>2. CASE AwaitPool \/ EnterLoop \/ Reconnect \/ ReadNothing \/ ReadFails \/ SkipRead
           \/ PollNothing \/ Wake
  <2>1. Quiet
    BY <1>2
       DEF AwaitPool, EnterLoop, Reconnect, ReadNothing, ReadFails, SkipRead,
           PollNothing, Wake, Held, Volatile, InHands, redisVars, handlerVars,
           historyVars
  <2>2. QED
    BY <1>1, <2>1
<1>3. CASE ReadRedis
  <2>1. Range(redisList) = Range(redisList') \union {Head(redisList)}
    BY <1>3, RangeOfTail DEF ReadRedis, TypeOK, QueuesTyped
  <2>2. Range(batch') = Range(batch) \union {Head(redisList)}
    BY <1>3, RangeOfTail, RangeOfAppend
       DEF ReadRedis, Take, TypeOK, QueuesTyped, WorkerTyped
  <2>3. Quiet
    BY <1>3, <2>1, <2>2
       DEF ReadRedis, Held, Volatile, InHands, handlerVars, historyVars
  <2>4. QED
    BY <1>1, <2>3
<1>4. CASE PollMemory
  <2>1. Range(memQueue) = Range(memQueue') \union {Head(memQueue)}
    BY <1>4, RangeOfTail DEF PollMemory, TypeOK, QueuesTyped
  <2>2. Range(batch') = Range(batch) \union {Head(memQueue)}
    BY <1>4, RangeOfTail, RangeOfAppend
       DEF PollMemory, Take, TypeOK, QueuesTyped, WorkerTyped
  <2>3. Quiet
    BY <1>4, <2>1, <2>2
       DEF PollMemory, Held, Volatile, InHands, redisVars, handlerVars, historyVars
  <2>4. QED
    BY <1>1, <2>3
<1>5. CASE ReadReplyLost
  <2> DEFINE s == Head(redisList)
  <2>1. Range(redisList) = Range(redisList') \union {s}
    BY <1>5, RangeOfTail DEF ReadReplyLost, TypeOK, QueuesTyped
  <2>2. s \in Held
    BY <2>1 DEF Held
  <2>3. Held' \subseteq Held /\ Held \ Held' \subseteq {s}
    BY <1>5, <2>1 DEF ReadReplyLost, Held, Volatile, InHands, handlerVars
  <2>4. Delivery!Settle({}, {s}) /\ Fault
    BY <1>5, <2>3 DEF ReadReplyLost, Delivery!Settle
  <2>5. QED
    BY <2>2, <2>4
<1>6. ASSUME NEW S \in SUBSET Range(batch), Flush(S)
      PROVE  \E T, L \in SUBSET Held : Delivery!Settle(T, L) /\ (L # {} => Fault)
  <2>1. Range(batch') = {}
    BY <1>6, RangeOfEmpty DEF Flush
  <2>2. Held' \subseteq Held /\ Held \ Held' \subseteq Range(batch)
    BY <1>6, <2>1 DEF Flush, Held, Volatile, InHands, redisVars, handlerVars
  <2>3. Delivery!Settle(S, Range(batch) \ S)
    BY <1>6, <2>2 DEF Flush, Delivery!Settle
  <2>4. Range(batch) \ S # {} => Fault
    BY <1>6 DEF Flush
  <2>5. S \subseteq Held /\ Range(batch) \ S \subseteq Held
    BY DEF Held, Volatile
  <2>6. QED
    BY <2>3, <2>4, <2>5
<1>7. QED
  BY <1>2, <1>3, <1>4, <1>5, <1>6 DEF WorkerStep

\* Every step accepts one span, or settles spans and strikes some only by a fault.
LEMMA StepEffect ==
    ASSUME TypeOK, [Next]_vars
    PROVE  \/ \E s \in Spans : Delivery!Accept(s)
           \/ \E S, L \in SUBSET Held : Delivery!Settle(S, L) /\ (L # {} => Fault)
<1> DEFINE Quiet == Held' = Held /\ UNCHANGED <<accepted, stored, hit>>
<1>1. Quiet => \E S, L \in SUBSET Held : Delivery!Settle(S, L) /\ (L # {} => Fault)
  <2>1. Quiet => Delivery!Settle({}, {})
    BY DEF Delivery!Settle
  <2>2. QED
    BY <2>1
<1>2. CASE UNCHANGED vars
  <2>1. Quiet
    BY <1>2 DEF vars, redisVars, handlerVars, workerVars, historyVars, Held, Volatile,
                InHands
  <2>2. QED
    BY <1>1, <2>1
<1>3. ASSUME NEW h \in Handlers, NEW s \in Spans, Receive(h, s)
      PROVE  \E x \in Spans : Delivery!Accept(x)
  BY <1>3, ReceiveEffect
<1>4. ASSUME NEW h \in Handlers, HandlerStep(h)
      PROVE  Quiet
  BY <1>4, HandlerEffect
<1>5. CASE WorkerStep
  BY <1>5, WorkerEffect
<1>6. CASE CooldownElapses \/ RedisFails \/ RedisRecovers
  <2>1. Quiet
    BY <1>6 DEF CooldownElapses, RedisFails, RedisRecovers, Held, Volatile, InHands,
                redisVars, handlerVars, workerVars, historyVars
  <2>2. QED
    BY <1>1, <2>1
<1>7. CASE Crash
  <2>1. Volatile' = {}
    BY <1>7, RangeOfEmpty DEF Crash, Volatile, InHands
  <2>2. Held' \subseteq Held /\ Held \ Held' \subseteq Volatile
    BY <1>7, <2>1 DEF Crash, Held, redisVars
  <2>3. Delivery!Settle({}, Volatile) /\ Fault
    BY <1>7, <2>2 DEF Crash, Delivery!Settle
  <2>4. Volatile \subseteq Held
    BY DEF Held
  <2>5. QED
    BY <2>3, <2>4
<1>8. QED
  BY <1>1, <1>2, <1>3, <1>4, <1>5, <1>6, <1>7 DEF Next

-------------------------------------------------------------------------------
(* Delivery                                                                *)

\* Nothing is held before the first span arrives.
LEMMA InitDelivery ==
    ASSUME Init
    PROVE  Delivery!Init
BY RangeOfEmpty DEF Init, Delivery!Init, Held, Volatile, InHands

\* The pipeline, with its retries, fallback, batches and restarts, implements
\* SpanDelivery: a span is accepted once, and leaves the server only by being
\* indexed or by being struck.
THEOREM PipelineRefinesDelivery == Spec => DeliverySpec
<1>1. Init => Delivery!Init
  BY InitDelivery
<1>2. TypeOK /\ [Next]_vars => [Delivery!Next]_Delivery!vars
  BY StepEffect DEF Delivery!Next
<1>3. QED
  BY <1>1, <1>2, TypeCorrect, PTL DEF Spec, DeliverySpec, Delivery!Spec

\* Accepted spans are exactly those held, indexed or struck: no sequence of
\* retries, reconnections, flushes and crashes makes one vanish unnoticed.
THEOREM SpansConserved == Spec => []Conserved
<1>1. Init => Conserved
  BY InitDelivery DEF Conserved, Delivery!Init
<1>2. TypeOK /\ Conserved /\ [Next]_vars => Conserved'
  <2> SUFFICES ASSUME TypeOK, Conserved, [Next]_vars
               PROVE  Conserved'
    OBVIOUS
  <2>1. ASSUME NEW s \in Spans, Delivery!Accept(s)
        PROVE  Conserved'
    BY <2>1 DEF Conserved, Delivery!Accept
  <2>2. ASSUME NEW S \in SUBSET Held, NEW L \in SUBSET Held, Delivery!Settle(S, L)
        PROVE  Conserved'
    BY <2>2 DEF Conserved, Delivery!Settle
  <2>3. QED
    BY <2>1, <2>2, StepEffect
<1>3. QED
  BY <1>1, <1>2, TypeCorrect, PTL DEF Spec

\* The server alone never drops the last copy of a span: a step in which one
\* disappears before it is indexed is charged to the environment.
THEOREM LossIsAFault == Spec => LossNeedsFault
<1>1. TypeOK /\ [Next]_vars =>
          [(Held \union stored) \ (Held \union stored)' # {} => Fault]_vars
  <2> SUFFICES ASSUME TypeOK, [Next]_vars,
                      (Held \union stored) \ (Held \union stored)' # {}
               PROVE  Fault
    OBVIOUS
  <2>1. \A s \in Spans : ~Delivery!Accept(s)
    BY DEF Delivery!Accept
  <2>2. PICK S \in SUBSET Held, L \in SUBSET Held :
            Delivery!Settle(S, L) /\ (L # {} => Fault)
    BY <2>1, StepEffect
  <2>3. L # {}
    BY <2>2 DEF Delivery!Settle
  <2>4. QED
    BY <2>2, <2>3
<1>2. QED
  BY <1>1, TypeCorrect, PTL DEF Spec, LossNeedsFault

-------------------------------------------------------------------------------
(* One copy of each span                                                   *)

Once(q, s) == \A i, j \in DOMAIN q : q[i] = s /\ q[j] = s => i = j

\* The span s has at most one copy, none once it is settled, and has been
\* submitted for diagnosis only if it has reached the batch.
Alone(s) ==
    /\ \A g, h \in Handlers : inHand[g] = s /\ inHand[h] = s => g = h
    /\ Once(redisList, s) /\ Once(memQueue, s) /\ Once(batch, s)
    /\ s \in InHands => s \notin Range(redisList) \union Range(memQueue) \union Range(batch)
    /\ s \in Range(redisList) => s \notin Range(memQueue) \union Range(batch)
    /\ s \in Range(memQueue) => s \notin Range(batch)
    /\ s \in Held => s \notin stored \union hit
    /\ submitted[s] <= 1
    /\ s \in InHands \union Range(redisList) \union Range(memQueue) => submitted[s] = 0
    /\ s \notin accepted => submitted[s] = 0

AloneUnlessAmbiguous == \A s \in Spans : ambiguous[s] = 0 => Alone(s)

\* Appending keeps an element unique if it was not there before.
LEMMA OnceAppend ==
    ASSUME NEW S, NEW q \in Seq(S), NEW x \in S, NEW s, Once(q, s),
           x = s => s \notin Range(q)
    PROVE  Once(Append(q, x), s)
<1>1. DOMAIN Append(q, x) = 1..Len(q) + 1 /\ DOMAIN q = 1..Len(q) /\ Len(q) \in Nat
  OBVIOUS
<1>2. \A i \in 1..Len(q) : Append(q, x)[i] = q[i] /\ q[i] \in Range(q)
  BY DEF Range
<1>3. Append(q, x)[Len(q) + 1] = x
  OBVIOUS
<1>4. \A i \in 1..Len(q) + 1 : i \in 1..Len(q) \/ i = Len(q) + 1
  BY <1>1
<1>5. QED
  BY <1>1, <1>2, <1>3, <1>4 DEF Once

\* Removing the head keeps an element unique, and removes its only copy.
LEMMA OnceTail ==
    ASSUME NEW S, NEW q \in Seq(S), q # <<>>, NEW s, Once(q, s)
    PROVE  /\ Once(Tail(q), s)
           /\ Head(q) = s => s \notin Range(Tail(q))
<1>1. Len(q) \in Nat \ {0} /\ DOMAIN q = 1..Len(q) /\ Head(q) = q[1]
  OBVIOUS
<1>2. DOMAIN Tail(q) = 1..Len(q) - 1
  OBVIOUS
<1>3. \A i \in 1..Len(q) - 1 : Tail(q)[i] = q[i + 1] /\ i + 1 \in 1..Len(q) /\ i + 1 # 1
  BY <1>1
<1>4. Once(Tail(q), s)
  <2> SUFFICES ASSUME NEW i \in 1..Len(q) - 1, NEW j \in 1..Len(q) - 1,
                      Tail(q)[i] = s, Tail(q)[j] = s
               PROVE  i = j
    BY <1>2 DEF Once
  <2>1. i + 1 = j + 1
    BY <1>1, <1>3 DEF Once
  <2>2. QED
    BY <2>1
<1>5. ASSUME Head(q) = s, NEW i \in 1..Len(q) - 1
      PROVE  Tail(q)[i] # s
  BY <1>1, <1>3, <1>5 DEF Once
<1>6. QED
  BY <1>2, <1>4, <1>5 DEF Range

\* An empty queue holds nothing twice.
LEMMA OnceEmpty == \A s : Once(<<>>, s)
BY DEF Once

\* A handler that finishes empties its hand: other hands are as they were, and a
\* span it alone held is in no hand.
LEMMA FinishAlone ==
    ASSUME TypeOK, NEW h \in Handlers, hpc[h] # "idle", Finish(h),
           NEW s \in Spans, Alone(s)
    PROVE  /\ \A g1, g2 \in Handlers : inHand'[g1] = s /\ inHand'[g2] = s => g1 = g2
           /\ s = inHand[h] => s \notin InHands' /\ s \in InHands
           /\ s # inHand[h] => (s \in InHands' <=> s \in InHands)
<1>1. \A g \in Handlers : inHand'[g] = IF g = h THEN NoSpan ELSE inHand[g]
  BY DEF Finish, TypeOK, HandlersTyped
<1>2. \A g1, g2 \in Handlers : inHand[g1] = s /\ inHand[g2] = s => g1 = g2
  BY DEF Alone
<1>3. s # NoSpan
  BY PipelineAssumption
<1>4. QED
  BY <1>1, <1>2, <1>3 DEF InHands

\* No handler action makes a second copy of a span, unless the reply to its LPUSH
\* is lost.
LEMMA HandlerAlone ==
    ASSUME TypeOK, NEW h \in Handlers, HandlerStep(h),
           NEW s \in Spans, Alone(s), ambiguous'[s] = 0
    PROVE  Alone(s)'
<1> USE BusyHoldsSpan, BusyInHands DEF TypeOK, workerVars, historyVars
<1>1. CASE Push(h)
  <2> DEFINE x == inHand[h]
  <2>1. x \in Spans /\ x \in InHands /\ redisList \in Seq(Spans)
    BY <1>1 DEF Push, QueuesTyped
  <2>2. Range(redisList') = Range(redisList) \union {x}
    BY <1>1, <2>1, RangeOfAppend DEF Push
  <2>3. x = s => s \notin Range(redisList)
    BY <2>1 DEF Alone
  <2>4. Once(redisList', s)
    BY <1>1, <2>1, <2>3, OnceAppend DEF Push, Alone
  <2>5. /\ \A g1, g2 \in Handlers : inHand'[g1] = s /\ inHand'[g2] = s => g1 = g2
        /\ s = x => s \notin InHands' /\ s \in InHands
        /\ s # x => (s \in InHands' <=> s \in InHands)
    BY <1>1, FinishAlone DEF Push
  <2>6. Held' = Held
    BY HandlerEffect
  <2>7. UNCHANGED <<memQueue, batch, submitted, stored, hit, accepted>>
    BY <1>1 DEF Push
  <2>8. QED
    BY <2>2, <2>4, <2>5, <2>6, <2>7 DEF Alone
<1>2. CASE PushUnacknowledged(h)
  <2>1. inHand[h] # s
    BY <1>2 DEF PushUnacknowledged, HistoryTyped
  <2>2. inHand[h] \in Spans /\ redisList \in Seq(Spans)
    BY <1>2 DEF PushUnacknowledged, QueuesTyped
  <2>3. Range(redisList') = Range(redisList) \union {inHand[h]}
    BY <1>2, <2>2, RangeOfAppend DEF PushUnacknowledged
  <2>4. Once(redisList', s)
    BY <1>2, <2>1, <2>2, OnceAppend DEF PushUnacknowledged, Alone
  <2>5. Held' = Held
    BY HandlerEffect
  <2>6. UNCHANGED <<inHand, memQueue, batch, submitted, stored, hit, accepted>>
    BY <1>2 DEF PushUnacknowledged, NextAttempt
  <2>7. InHands' = InHands
    BY <2>6 DEF InHands
  <2>8. QED
    BY <2>1, <2>3, <2>4, <2>5, <2>6, <2>7 DEF Alone
<1>3. CASE PushFails(h) \/ NoConnection(h) \/ Backoff(h)
  <2>1. UNCHANGED <<inHand, redisList, memQueue, batch, submitted, stored, hit, accepted>>
    BY <1>3 DEF PushFails, NoConnection, Backoff, NextAttempt, redisVars
  <2>2. InHands' = InHands /\ Held' = Held
    BY <2>1 DEF InHands, Held, Volatile
  <2>3. QED
    BY <2>1, <2>2 DEF Alone
<1>4. CASE Fallback(h)
  <2> DEFINE x == inHand[h]
  <2>1. x \in Spans /\ x \in InHands /\ memQueue \in Seq(Spans)
    BY <1>4 DEF Fallback, QueuesTyped
  <2>2. Range(memQueue') = Range(memQueue) \union {x}
    BY <1>4, <2>1, RangeOfAppend DEF Fallback
  <2>3. x = s => s \notin Range(memQueue)
    BY <2>1 DEF Alone
  <2>4. Once(memQueue', s)
    BY <1>4, <2>1, <2>3, OnceAppend DEF Fallback, Alone
  <2>5. /\ \A g1, g2 \in Handlers : inHand'[g1] = s /\ inHand'[g2] = s => g1 = g2
        /\ s = x => s \notin InHands' /\ s \in InHands
        /\ s # x => (s \in InHands' <=> s \in InHands)
    BY <1>4, FinishAlone DEF Fallback
  <2>6. Held' = Held
    BY HandlerEffect
  <2>7. UNCHANGED <<redisList, batch, submitted, stored, hit, accepted>>
    BY <1>4 DEF Fallback, redisVars
  <2>8. QED
    BY <2>2, <2>4, <2>5, <2>6, <2>7 DEF Alone
<1>5. QED
  BY <1>1, <1>2, <1>3, <1>4 DEF HandlerStep

\* A received span is new, so the copy in the handler's hand is its only one.
LEMMA ReceiveAlone ==
    ASSUME TypeOK, Conserved, NEW h \in Handlers, NEW x \in Spans, Receive(h, x),
           NEW s \in Spans, Alone(s)
    PROVE  Alone(s)'
<1>1. \A g \in Handlers : inHand'[g] = IF g = h THEN x ELSE inHand[g]
  BY DEF Receive, TypeOK, HandlersTyped
<1>2. inHand[h] = NoSpan /\ x # NoSpan
  BY PipelineAssumption DEF Receive, TypeOK, HandlersTyped
<1>3. InHands' = InHands \union {x}
  BY <1>1, <1>2, PipelineAssumption DEF InHands
<1>4. UNCHANGED <<redisList, memQueue, batch, submitted, stored, hit>>
  BY DEF Receive, redisVars, workerVars
<1>5. x \notin Held \union stored \union hit /\ x \notin accepted
  BY DEF Receive, Conserved
<1>6. \A g1, g2 \in Handlers : inHand'[g1] = s /\ inHand'[g2] = s => g1 = g2
  <2>1. s = x => \A g \in Handlers : inHand[g] # s
    BY <1>5, PipelineAssumption DEF Held, Volatile, InHands
  <2>2. QED
    BY <1>1, <2>1 DEF Alone
<1>7. accepted' = accepted \union {x} /\ Held' = Held \union {x}
  BY <1>3, <1>4 DEF Receive, Held, Volatile
<1>8. QED
  BY <1>3, <1>4, <1>5, <1>6, <1>7 DEF Alone, Held, Volatile

\* The span the worker took was the only copy in the queue it came from; it is now
\* the only copy in the batch, submitted once if slow.
LEMMA WorkerAlone ==
    ASSUME TypeOK, Conserved, WorkerStep, NEW s \in Spans, Alone(s)
    PROVE  Alone(s)'
<1> USE DEF TypeOK
<1>1. CASE AwaitPool \/ EnterLoop \/ Reconnect \/ ReadNothing \/ ReadFails \/ SkipRead
           \/ PollNothing \/ Wake
  <2>1. UNCHANGED <<inHand, redisList, memQueue, batch, submitted, stored, hit, accepted>>
    BY <1>1
       DEF AwaitPool, EnterLoop, Reconnect, ReadNothing, ReadFails, SkipRead,
           PollNothing, Wake, redisVars, handlerVars, historyVars
  <2>2. InHands' = InHands /\ Held' = Held
    BY <2>1 DEF InHands, Held, Volatile
  <2>3. QED
    BY <2>1, <2>2 DEF Alone
<1>2. CASE ReadRedis
  <2> DEFINE x == Head(redisList)
  <2>1. redisList \in Seq(Spans) /\ redisList # <<>> /\ batch \in Seq(Spans)
    BY <1>2 DEF ReadRedis, QueuesTyped, WorkerTyped
  <2>2. x \in Spans /\ x \in Range(redisList)
        /\ Range(redisList) = Range(redisList') \union {x}
    BY <1>2, <2>1, RangeOfTail DEF ReadRedis
  <2>3. Once(redisList', s) /\ (x = s => s \notin Range(redisList'))
    BY <1>2, <2>1, OnceTail DEF ReadRedis, Alone
  <2>4. x = s => s \notin Range(batch)
    BY <2>2 DEF Alone
  <2>5. Once(batch', s) /\ Range(batch') = Range(batch) \union {x}
    BY <1>2, <2>1, <2>2, <2>4, OnceAppend, RangeOfAppend DEF ReadRedis, Take, Alone
  <2>6. UNCHANGED <<inHand, memQueue, stored, hit, accepted>>
    BY <1>2 DEF ReadRedis, handlerVars, historyVars
  <2>7. submitted'[s] = IF x = s /\ s \in Slow THEN submitted[s] + 1 ELSE submitted[s]
    BY <1>2, <2>2 DEF ReadRedis, Take, WorkerTyped
  <2>8. x = s => submitted[s] = 0
    BY <2>2 DEF Alone
  <2>9. submitted'[s] <= 1 /\ (x # s => submitted'[s] = submitted[s])
    BY <2>7, <2>8 DEF Alone
  <2>10. InHands' = InHands /\ Held' = Held
    BY <2>2, <2>5, <2>6 DEF InHands, Held, Volatile
  <2>11. x = s => s \in accepted
    BY <2>2 DEF Conserved, Held
  <2>12. QED
    BY <2>2, <2>3, <2>5, <2>6, <2>9, <2>10, <2>11 DEF Alone
<1>3. CASE PollMemory
  <2> DEFINE x == Head(memQueue)
  <2>1. memQueue \in Seq(Spans) /\ memQueue # <<>> /\ batch \in Seq(Spans)
    BY <1>3 DEF PollMemory, QueuesTyped, WorkerTyped
  <2>2. x \in Spans /\ x \in Range(memQueue)
        /\ Range(memQueue) = Range(memQueue') \union {x}
    BY <1>3, <2>1, RangeOfTail DEF PollMemory
  <2>3. Once(memQueue', s) /\ (x = s => s \notin Range(memQueue'))
    BY <1>3, <2>1, OnceTail DEF PollMemory, Alone
  <2>4. x = s => s \notin Range(batch)
    BY <2>2 DEF Alone
  <2>5. Once(batch', s) /\ Range(batch') = Range(batch) \union {x}
    BY <1>3, <2>1, <2>2, <2>4, OnceAppend, RangeOfAppend DEF PollMemory, Take, Alone
  <2>6. UNCHANGED <<inHand, redisList, stored, hit, accepted>>
    BY <1>3 DEF PollMemory, redisVars, handlerVars, historyVars
  <2>7. submitted'[s] = IF x = s /\ s \in Slow THEN submitted[s] + 1 ELSE submitted[s]
    BY <1>3, <2>2 DEF PollMemory, Take, WorkerTyped
  <2>8. x = s => submitted[s] = 0
    BY <2>2 DEF Alone
  <2>9. submitted'[s] <= 1 /\ (x # s => submitted'[s] = submitted[s])
    BY <2>7, <2>8 DEF Alone
  <2>10. InHands' = InHands /\ Held' = Held
    BY <2>2, <2>5, <2>6 DEF InHands, Held, Volatile
  <2>11. x = s => s \in accepted
    BY <2>2 DEF Conserved, Held, Volatile
  <2>12. QED
    BY <2>2, <2>3, <2>5, <2>6, <2>9, <2>10, <2>11 DEF Alone
<1>4. CASE ReadReplyLost
  <2> DEFINE x == Head(redisList)
  <2>1. redisList \in Seq(Spans) /\ redisList # <<>>
    BY <1>4 DEF ReadReplyLost, QueuesTyped
  <2>2. x \in Range(redisList) /\ Range(redisList) = Range(redisList') \union {x}
    BY <1>4, <2>1, RangeOfTail DEF ReadReplyLost
  <2>3. Once(redisList', s) /\ (x = s => s \notin Range(redisList'))
    BY <1>4, <2>1, OnceTail DEF ReadReplyLost, Alone
  <2>4. UNCHANGED <<inHand, memQueue, batch, submitted, stored, accepted>>
        /\ hit' = hit \union {x}
    BY <1>4 DEF ReadReplyLost, handlerVars
  <2>5. InHands' = InHands
    BY <2>4 DEF InHands
  <2>6. Held' \subseteq Held /\ (x = s => s \notin Held')
    BY <2>2, <2>3, <2>4, <2>5 DEF Alone, Held, Volatile
  <2>7. QED
    BY <2>2, <2>3, <2>4, <2>5, <2>6 DEF Alone
<1>5. ASSUME NEW S \in SUBSET Range(batch), Flush(S)
      PROVE  Alone(s)'
  <2>1. batch' = <<>> /\ Range(batch') = {} /\ Once(batch', s)
    BY <1>5, RangeOfEmpty, OnceEmpty DEF Flush
  <2>2. UNCHANGED <<inHand, redisList, memQueue, submitted, accepted>>
        /\ stored' \union hit' = stored \union hit \union Range(batch)
    BY <1>5 DEF Flush, redisVars, handlerVars
  <2>3. InHands' = InHands
    BY <2>2 DEF InHands
  <2>4. Held' \subseteq Held /\ (s \in Range(batch) => s \notin Held')
    BY <2>1, <2>2, <2>3 DEF Alone, Held, Volatile
  <2>5. QED
    BY <2>1, <2>2, <2>3, <2>4 DEF Alone
<1>6. QED
  BY <1>1, <1>2, <1>3, <1>4, <1>5 DEF WorkerStep

\* A restart destroys the copies the process held and makes none.
LEMMA CrashAlone ==
    ASSUME TypeOK, Crash, NEW s \in Spans, Alone(s)
    PROVE  Alone(s)'
<1>1. /\ \A g \in Handlers : inHand'[g] = NoSpan
      /\ InHands' = {}
  BY DEF Crash, InHands
<1>2. /\ memQueue' = <<>> /\ batch' = <<>>
      /\ Range(memQueue') = {} /\ Range(batch') = {}
      /\ Once(memQueue', s) /\ Once(batch', s)
  BY RangeOfEmpty, OnceEmpty DEF Crash
<1>3. /\ UNCHANGED <<redisList, submitted, stored, accepted>>
      /\ hit' = hit \union Volatile
  BY DEF Crash, redisVars
<1>4. Held' \subseteq Held /\ (s \in Volatile => s \notin Held')
  BY <1>1, <1>2, <1>3 DEF Alone, Held, Volatile
<1>5. s # NoSpan
  BY PipelineAssumption
<1>6. QED
  BY <1>1, <1>2, <1>3, <1>4, <1>5 DEF Alone

\* The count of lost replies never goes down.
LEMMA AmbiguityGrows ==
    ASSUME TypeOK, [Next]_vars, NEW s \in Spans, ambiguous'[s] = 0
    PROVE  ambiguous[s] = 0
<1>1. ASSUME NEW h \in Handlers, PushUnacknowledged(h)
      PROVE  ambiguous[s] = 0
  BY <1>1 DEF PushUnacknowledged, TypeOK, HistoryTyped
<1>2. CASE UNCHANGED ambiguous
  BY <1>2
<1>3. ASSUME NEW h \in Handlers, NEW x \in Spans, Receive(h, x)
      PROVE  UNCHANGED ambiguous
  BY <1>3 DEF Receive
<1>4. ASSUME NEW h \in Handlers, HandlerStep(h), ~PushUnacknowledged(h)
      PROVE  UNCHANGED ambiguous
  BY <1>4 DEF HandlerStep, Push, PushFails, NoConnection, Backoff, Fallback, historyVars
<1>5. WorkerStep => UNCHANGED ambiguous
  BY DEF WorkerStep, AwaitPool, EnterLoop, Reconnect, ReadRedis, ReadReplyLost,
         ReadNothing, ReadFails, SkipRead, PollMemory, PollNothing, Flush, Wake,
         historyVars
<1>6. CooldownElapses \/ RedisFails \/ RedisRecovers \/ Crash \/ UNCHANGED vars
          => UNCHANGED ambiguous
  BY DEF CooldownElapses, RedisFails, RedisRecovers, Crash, vars, historyVars
<1>7. QED
  BY <1>1, <1>2, <1>3, <1>4, <1>5, <1>6 DEF Next

\* Every step keeps each span whose LPUSHes were all acknowledged in one place.
LEMMA StepAlone ==
    ASSUME TypeOK, Conserved, AloneUnlessAmbiguous, [Next]_vars
    PROVE  AloneUnlessAmbiguous'
<1> SUFFICES ASSUME NEW s \in Spans, ambiguous'[s] = 0
             PROVE  Alone(s)'
  BY DEF AloneUnlessAmbiguous
<1>1. Alone(s)
  BY AmbiguityGrows DEF AloneUnlessAmbiguous
<1>2. CASE CooldownElapses \/ RedisFails \/ RedisRecovers \/ UNCHANGED vars
  <2>1. UNCHANGED <<inHand, redisList, memQueue, batch, submitted, stored, hit, accepted>>
    BY <1>2 DEF CooldownElapses, RedisFails, RedisRecovers, vars, redisVars, handlerVars,
                workerVars, historyVars
  <2>2. InHands' = InHands /\ Held' = Held
    BY <2>1 DEF InHands, Held, Volatile
  <2>3. QED
    BY <1>1, <2>1, <2>2 DEF Alone
<1>3. QED
  BY <1>1, <1>2, ReceiveAlone, HandlerAlone, WorkerAlone, CrashAlone DEF Next

\* A span with one copy is in one place, and in none once it is settled.
LEMMA AlonePlaces ==
    ASSUME TypeOK, NEW s \in Spans, Alone(s)
    PROVE  /\ \A p, q \in Places(s) : p = q
           /\ Places(s) = {} \/ s \notin stored \union hit
<1> DEFINE InHand == {"hand"} \X {h \in Handlers : inHand[h] = s}
           InRedis == {"redis"} \X {i \in DOMAIN redisList : redisList[i] = s}
           InMemory == {"memory"} \X {i \in DOMAIN memQueue : memQueue[i] = s}
           InBatch == {"batch"} \X {i \in DOMAIN batch : batch[i] = s}
<1>1. Places(s) = InHand \union InRedis \union InMemory \union InBatch
  BY DEF Places
<1>2. /\ InHand # {} => s \in InHands
      /\ InRedis # {} => s \in Range(redisList)
      /\ InMemory # {} => s \in Range(memQueue)
      /\ InBatch # {} => s \in Range(batch)
  BY PipelineAssumption DEF InHands, Range
<1>3. \A p, q \in InHand : p = q
  BY DEF Alone
<1>4. \A p, q \in InRedis : p = q
  BY DEF Alone, Once
<1>5. \A p, q \in InMemory : p = q
  BY DEF Alone, Once
<1>6. \A p, q \in InBatch : p = q
  BY DEF Alone, Once
<1>7. Places(s) \in {{}, InHand, InRedis, InMemory, InBatch}
  <2> HIDE DEF InHand, InRedis, InMemory, InBatch
  <2>1. /\ s \in InHands =>
              s \notin Range(redisList) \union Range(memQueue) \union Range(batch)
        /\ s \in Range(redisList) => s \notin Range(memQueue) \union Range(batch)
        /\ s \in Range(memQueue) => s \notin Range(batch)
    BY DEF Alone
  <2>2. \/ InRedis = {} /\ InMemory = {} /\ InBatch = {}
        \/ InHand = {} /\ InMemory = {} /\ InBatch = {}
        \/ InHand = {} /\ InRedis = {} /\ InBatch = {}
        \/ InHand = {} /\ InRedis = {} /\ InMemory = {}
    BY <1>2, <2>1
  <2>3. QED
    BY <1>1, <2>2
<1>8. Places(s) # {} => s \in Held
  <2> HIDE DEF InHand, InRedis, InMemory, InBatch
  <2>1. QED
    BY <1>1, <1>2 DEF Held, Volatile
<1>9. \A p, q \in Places(s) : p = q
  <2> HIDE DEF InHand, InRedis, InMemory, InBatch
  <2>1. QED
    BY <1>3, <1>4, <1>5, <1>6, <1>7
<1>10. QED
  BY <1>8, <1>9 DEF Alone

\* No copy exists before the first span arrives.
LEMMA InitAlone ==
    ASSUME Init
    PROVE  AloneUnlessAmbiguous
<1>1. InHands = {} /\ Held = {}
  BY RangeOfEmpty DEF Init, InHands, Held, Volatile
<1>2. \A s \in Spans : s # NoSpan
  BY PipelineAssumption
<1>3. QED
  BY <1>1, <1>2, RangeOfEmpty, OnceEmpty DEF Init, AloneUnlessAmbiguous, Alone

\* Through every retry, fallback, reconnection and restart, a span whose LPUSHes
\* were all answered is in one place until it is settled, and then in none.
THEOREM OnePlace == Spec => []OnePlaceUnlessAmbiguous
<1>1. TypeOK /\ AloneUnlessAmbiguous => OnePlaceUnlessAmbiguous
  BY AlonePlaces DEF AloneUnlessAmbiguous, OnePlaceUnlessAmbiguous
<1>2. TypeOK /\ Conserved /\ AloneUnlessAmbiguous /\ [Next]_vars => AloneUnlessAmbiguous'
  BY StepAlone
<1>3. QED
  BY <1>1, <1>2, InitAlone, TypeCorrect, SpansConserved, PTL DEF Spec

-------------------------------------------------------------------------------
(* Slow spans and the diagnosis executor                                   *)

\* The worker submits a slow span when it takes it into the batch, and no other.
SlowTaken ==
    /\ \A s \in Slow \intersect (Range(batch) \union stored) : submitted[s] > 0
    /\ \A s \in Spans \ Slow : submitted[s] = 0

\* What takes a span into the batch.
LEMMA TakeSubmits ==
    ASSUME TypeOK, SlowTaken, NEW x \in Spans, Take(x), stored' = stored
    PROVE  SlowTaken'
<1>1. /\ batch' = Append(batch, x) /\ batch \in Seq(Spans)
      /\ submitted' = IF x \in Slow THEN [submitted EXCEPT ![x] = @ + 1] ELSE submitted
      /\ submitted \in [Spans -> Nat]
  BY DEF Take, TypeOK, WorkerTyped
<1>2. Range(batch') = Range(batch) \union {x}
  BY <1>1, RangeOfAppend
<1>3. \A s \in Spans : submitted'[s] = IF s = x /\ x \in Slow THEN submitted[s] + 1
                                       ELSE submitted[s]
  BY <1>1
<1>4. \A s \in Slow : s \in Spans /\ submitted[s] \in Nat
  BY <1>1, PipelineAssumption
<1>5. \A s \in Slow \intersect (Range(batch) \union stored \union {x}) : submitted'[s] > 0
  BY <1>3, <1>4 DEF SlowTaken
<1>6. \A s \in Spans \ Slow : submitted'[s] = 0
  BY <1>3 DEF SlowTaken
<1>7. QED
  BY <1>2, <1>5, <1>6 DEF SlowTaken

\* Nothing else submits or unsubmits a span; the index gets spans of the batch.
LEMMA StepTaken ==
    ASSUME TypeOK, SlowTaken, [Next]_vars
    PROVE  SlowTaken'
<1>1. CASE ReadRedis
  <2>1. Take(Head(redisList)) /\ stored' = stored
    BY <1>1 DEF ReadRedis
  <2>2. Head(redisList) \in Spans
    BY <1>1, RangeOfTail DEF ReadRedis, TypeOK, QueuesTyped
  <2>3. QED
    BY <2>1, <2>2, TakeSubmits
<1>2. CASE PollMemory
  <2>1. Take(Head(memQueue)) /\ stored' = stored
    BY <1>2 DEF PollMemory
  <2>2. Head(memQueue) \in Spans
    BY <1>2, RangeOfTail DEF PollMemory, TypeOK, QueuesTyped
  <2>3. QED
    BY <2>1, <2>2, TakeSubmits
<1>3. ASSUME NEW S \in SUBSET Range(batch), Flush(S)
      PROVE  SlowTaken'
  <2>1. stored' = stored \union S /\ batch' = <<>> /\ submitted' = submitted
    BY <1>3 DEF Flush
  <2>2. Range(batch') = {}
    BY <2>1, RangeOfEmpty
  <2>3. QED
    BY <2>1, <2>2 DEF SlowTaken
<1>4. CASE Crash
  <2>1. stored' = stored /\ batch' = <<>> /\ submitted' = submitted
    BY <1>4 DEF Crash
  <2>2. Range(batch') = {}
    BY <2>1, RangeOfEmpty
  <2>3. QED
    BY <2>1, <2>2 DEF SlowTaken
<1>5. ASSUME UNCHANGED <<batch, stored, submitted>>
      PROVE  SlowTaken'
  BY <1>5 DEF SlowTaken
<1>6. ASSUME \/ \E h \in Handlers : HandlerStep(h) \/ \E s \in Spans : Receive(h, s)
             \/ AwaitPool \/ EnterLoop \/ Reconnect \/ ReadReplyLost \/ ReadNothing
             \/ ReadFails \/ SkipRead \/ PollNothing \/ Wake
             \/ CooldownElapses \/ RedisFails \/ RedisRecovers \/ UNCHANGED vars
      PROVE  UNCHANGED <<batch, stored, submitted>>
  BY <1>6
     DEF HandlerStep, Receive, Push, PushUnacknowledged, PushFails, NoConnection, Backoff,
         Fallback, AwaitPool, EnterLoop, Reconnect, ReadReplyLost, ReadNothing, ReadFails,
         SkipRead, PollNothing, Wake, CooldownElapses, RedisFails, RedisRecovers, vars,
         workerVars
<1>7. QED
  BY <1>1, <1>2, <1>3, <1>4, <1>5, <1>6 DEF Next, WorkerStep

\* No slow span is indexed without having been submitted for diagnosis, and no other
\* span is ever submitted, whatever fails, and through restarts.
THEOREM SlowIsSubmitted == Spec => []SlowStoredWereSubmitted
<1>1. Init => SlowTaken
  BY RangeOfEmpty, PipelineAssumption DEF Init, SlowTaken
<1>2. TypeOK /\ SlowTaken /\ [Next]_vars => SlowTaken'
  BY StepTaken
<1>3. SlowTaken => SlowStoredWereSubmitted
  BY DEF SlowTaken, SlowStoredWereSubmitted
<1>4. QED
  BY <1>1, <1>2, <1>3, TypeCorrect, PTL DEF Spec

-------------------------------------------------------------------------------
(* Submissions and copies                                                  *)

\* Each copy of a span that has not reached the batch can still be submitted once.
Copies(q, s) == Cardinality({i \in DOMAIN q : q[i] = s})

Waiting(s) ==
    (IF s \in InHands THEN 1 ELSE 0) + Copies(redisList, s) + Copies(memQueue, s)

InOneHand(s) == \A g, h \in Handlers : inHand[g] = s /\ inHand[h] = s => g = h

PushedOnce ==
    \A s \in Spans :
        /\ InOneHand(s)
        /\ s \notin accepted => submitted[s] = 0
        /\ submitted[s] + Waiting(s) <= 1 + ambiguous[s]

\* A span has copies in a queue if and only if it is there.
LEMMA CopiesType ==
    ASSUME NEW S, NEW q \in Seq(S), NEW s
    PROVE  /\ IsFiniteSet({i \in DOMAIN q : q[i] = s})
           /\ Copies(q, s) \in Nat
           /\ s \notin Range(q) => Copies(q, s) = 0
<1> DEFINE At == {i \in DOMAIN q : q[i] = s}
<1>1. DOMAIN q = 1..Len(q) /\ Len(q) \in Nat
  OBVIOUS
<1>2. IsFiniteSet(DOMAIN q)
  BY <1>1, FS_Interval
<1>3. At \in SUBSET DOMAIN q
  OBVIOUS
<1>4. IsFiniteSet(At) /\ Cardinality(At) \in Nat
  BY <1>2, <1>3, FS_Subset, FS_CardinalityType
<1>5. s \notin Range(q) => At = {}
  BY DEF Range
<1>6. QED
  BY <1>4, <1>5, FS_EmptySet DEF Copies

LEMMA CopiesAppend ==
    ASSUME NEW S, NEW q \in Seq(S), NEW x \in S, NEW s
    PROVE  Copies(Append(q, x), s) = Copies(q, s) + (IF x = s THEN 1 ELSE 0)
<1> DEFINE At == {i \in DOMAIN q : q[i] = s}
           New == {i \in DOMAIN Append(q, x) : Append(q, x)[i] = s}
<1>1. /\ DOMAIN q = 1..Len(q) /\ Len(q) \in Nat
      /\ DOMAIN Append(q, x) = 1..Len(q) + 1
      /\ \A i \in DOMAIN q : Append(q, x)[i] = q[i]
      /\ Append(q, x)[Len(q) + 1] = x
  OBVIOUS
<1>2. DOMAIN Append(q, x) = DOMAIN q \union {Len(q) + 1} /\ Len(q) + 1 \notin DOMAIN q
  BY <1>1
<1>3. New = IF x = s THEN At \union {Len(q) + 1} ELSE At
  BY <1>1, <1>2
<1>4. IsFiniteSet(At) /\ Cardinality(At) \in Nat
  BY CopiesType DEF Copies
<1>5. Cardinality(New) = Cardinality(At) + (IF x = s THEN 1 ELSE 0)
  <2>1. Len(q) + 1 \notin At
    BY <1>2
  <2> HIDE DEF At, New
  <2>2. Cardinality(At \union {Len(q) + 1}) = Cardinality(At) + 1
    BY <1>4, <2>1, FS_AddElement
  <2>3. QED
    BY <1>3, <1>4, <2>2
<1>6. QED
  BY <1>5 DEF Copies

LEMMA CopiesTail ==
    ASSUME NEW S, NEW q \in Seq(S), q # <<>>, NEW s
    PROVE  Copies(q, s) = Copies(Tail(q), s) + (IF Head(q) = s THEN 1 ELSE 0)
<1> DEFINE At == {i \in DOMAIN q : q[i] = s}
           Left == {i \in DOMAIN Tail(q) : Tail(q)[i] = s}
           f == [i \in Left |-> i + 1]
<1>1. /\ DOMAIN q = 1..Len(q) /\ Len(q) \in Nat \ {0} /\ Head(q) = q[1]
      /\ DOMAIN Tail(q) = 1..Len(q) - 1 /\ Tail(q) \in Seq(S)
      /\ \A i \in DOMAIN Tail(q) : Tail(q)[i] = q[i + 1]
  OBVIOUS
<1>2. f \in Bijection(Left, At \ {1})
  <2>1. \A i \in Left : i + 1 \in At \ {1}
    BY <1>1
  <2>2. f \in [Left -> At \ {1}]
    BY <2>1
  <2>3. \A i, j \in Left : f[i] = f[j] => i = j
    BY <1>1
  <2>4. ASSUME NEW j \in At \ {1}
        PROVE  \E i \in Left : f[i] = j
    <3>1. j - 1 \in DOMAIN Tail(q) /\ (j - 1) + 1 = j
      BY <1>1
    <3>2. j - 1 \in Left
      BY <1>1, <3>1
    <3>3. QED
      BY <3>1, <3>2
  <2> HIDE DEF At, Left, f
  <2>5. f \in Injection(Left, At \ {1}) /\ f \in Surjection(Left, At \ {1})
    BY <2>2, <2>3, <2>4 DEF Injection, Surjection, IsInjective
  <2>6. QED
    BY <2>5 DEF Bijection
<1>3. IsFiniteSet(Left) /\ Cardinality(Left) \in Nat
  BY <1>1, CopiesType DEF Copies
<1>4. ExistsBijection(Left, At \ {1})
  BY <1>2 DEF ExistsBijection
<1>5. Cardinality(At \ {1}) = Cardinality(Left)
  <2> HIDE DEF At, Left, f
  <2>1. QED
    BY <1>3, <1>4, FS_Bijection
<1>6. IsFiniteSet(At) /\ Cardinality(At) \in Nat
  BY CopiesType DEF Copies
<1>7. Cardinality(At \ {1}) = IF 1 \in At THEN Cardinality(At) - 1 ELSE Cardinality(At)
  <2> HIDE DEF At
  <2>1. QED
    BY <1>6, FS_RemoveElement
<1>8. 1 \in At <=> Head(q) = s
  BY <1>1
<1>9. Cardinality(At) = Cardinality(Left) + (IF Head(q) = s THEN 1 ELSE 0)
  <2> HIDE DEF At, Left
  <2>1. QED
    BY <1>3, <1>5, <1>6, <1>7, <1>8
<1>10. QED
  BY <1>9 DEF Copies

LEMMA CopiesEmpty == \A s : Copies(<<>>, s) = 0
BY FS_EmptySet DEF Copies

LEMMA WaitingType ==
    ASSUME TypeOK, NEW s \in Spans
    PROVE  /\ Copies(redisList, s) \in Nat /\ Copies(memQueue, s) \in Nat
           /\ Waiting(s) \in Nat
           /\ s \notin Held => Waiting(s) = 0
           /\ submitted[s] \in Nat /\ ambiguous[s] \in Nat
<1>1. redisList \in Seq(Spans) /\ memQueue \in Seq(Spans)
  BY DEF TypeOK, QueuesTyped
<1>2. /\ Copies(redisList, s) \in Nat /\ Copies(memQueue, s) \in Nat
      /\ s \notin Range(redisList) => Copies(redisList, s) = 0
      /\ s \notin Range(memQueue) => Copies(memQueue, s) = 0
  BY <1>1, CopiesType
<1>3. submitted[s] \in Nat /\ ambiguous[s] \in Nat
  BY DEF TypeOK, WorkerTyped, HistoryTyped
<1>4. QED
  BY <1>2, <1>3 DEF Waiting, Held, Volatile

\* A handler that finishes takes its copy of the span out of its hand.
LEMMA FinishCounts ==
    ASSUME TypeOK, NEW h \in Handlers, hpc[h] # "idle", Finish(h),
           NEW s \in Spans, InOneHand(s)
    PROVE  /\ InOneHand(s)'
           /\ (IF s \in InHands' THEN 1 ELSE 0) + (IF inHand[h] = s THEN 1 ELSE 0)
                 = IF s \in InHands THEN 1 ELSE 0
<1>1. \A g \in Handlers : inHand'[g] = IF g = h THEN NoSpan ELSE inHand[g]
  BY DEF Finish, TypeOK, HandlersTyped
<1>2. s # NoSpan
  BY PipelineAssumption
<1>3. InOneHand(s)'
  BY <1>1, <1>2 DEF InOneHand
<1>4. inHand[h] = s => s \in InHands /\ s \notin InHands'
  BY <1>1, <1>2 DEF InHands, InOneHand
<1>5. inHand[h] # s => (s \in InHands' <=> s \in InHands)
  BY <1>1, <1>2 DEF InHands
<1>6. QED
  BY <1>3, <1>4, <1>5

\* A write moves the copy from the hand to a queue; one whose reply is lost makes
\* another copy, and counts.
LEMMA HandlerCounts ==
    ASSUME TypeOK, NEW h \in Handlers, HandlerStep(h), NEW s \in Spans, InOneHand(s)
    PROVE  /\ InOneHand(s)' /\ UNCHANGED <<submitted, accepted>>
           /\ Waiting(s)' + ambiguous[s] <= Waiting(s) + ambiguous'[s]
<1> USE BusyHoldsSpan, WaitingType DEF workerVars, historyVars
<1> DEFINE x == inHand[h]
           one == IF x = s THEN 1 ELSE 0
<1>1. redisList \in Seq(Spans) /\ memQueue \in Seq(Spans) /\ ambiguous \in [Spans -> Nat]
  BY DEF TypeOK, QueuesTyped, HistoryTyped
<1>2. CASE Push(h)
  <2>1. x \in Spans /\ redisList' = Append(redisList, x) /\ hpc[h] # "idle" /\ Finish(h)
    BY <1>2 DEF Push
  <2>2. Copies(redisList', s) = Copies(redisList, s) + one
    BY <1>1, <2>1, CopiesAppend
  <2>3. InOneHand(s)' /\ (IF s \in InHands' THEN 1 ELSE 0) + one
                            = IF s \in InHands THEN 1 ELSE 0
    BY <2>1, FinishCounts
  <2>4. UNCHANGED <<memQueue, submitted, accepted, ambiguous>>
    BY <1>2 DEF Push
  <2>5. Waiting(s)' = Waiting(s)
    BY <2>2, <2>3, <2>4 DEF Waiting
  <2>6. QED
    BY <2>3, <2>4, <2>5
<1>3. CASE PushUnacknowledged(h)
  <2>1. x \in Spans /\ redisList' = Append(redisList, x) /\ inHand' = inHand
    BY <1>3 DEF PushUnacknowledged, NextAttempt
  <2>2. Copies(redisList', s) = Copies(redisList, s) + one
    BY <1>1, <2>1, CopiesAppend
  <2>3. InOneHand(s)' /\ InHands' = InHands
    BY <2>1 DEF InOneHand, InHands
  <2>4. UNCHANGED <<memQueue, submitted, accepted>>
    BY <1>3 DEF PushUnacknowledged
  <2>5. ambiguous'[s] = ambiguous[s] + one
    BY <1>1, <1>3, <2>1 DEF PushUnacknowledged
  <2>6. Waiting(s)' = Waiting(s) + one
    BY <2>2, <2>3, <2>4 DEF Waiting
  <2>7. QED
    BY <2>3, <2>4, <2>5, <2>6
<1>4. CASE PushFails(h) \/ NoConnection(h) \/ Backoff(h)
  <2>1. UNCHANGED <<inHand, redisList, memQueue, submitted, accepted, ambiguous>>
    BY <1>4 DEF PushFails, NoConnection, Backoff, NextAttempt, redisVars
  <2>2. InHands' = InHands /\ InOneHand(s)'
    BY <2>1 DEF InHands, InOneHand
  <2>3. Waiting(s)' = Waiting(s)
    BY <2>1, <2>2 DEF Waiting
  <2>4. QED
    BY <2>1, <2>2, <2>3
<1>5. CASE Fallback(h)
  <2>1. x \in Spans /\ memQueue' = Append(memQueue, x) /\ hpc[h] # "idle" /\ Finish(h)
    BY <1>5 DEF Fallback
  <2>2. Copies(memQueue', s) = Copies(memQueue, s) + one
    BY <1>1, <2>1, CopiesAppend
  <2>3. InOneHand(s)' /\ (IF s \in InHands' THEN 1 ELSE 0) + one
                            = IF s \in InHands THEN 1 ELSE 0
    BY <2>1, FinishCounts
  <2>4. UNCHANGED <<redisList, submitted, accepted, ambiguous>>
    BY <1>5 DEF Fallback, redisVars
  <2>5. Waiting(s)' = Waiting(s)
    BY <2>2, <2>3, <2>4 DEF Waiting
  <2>6. QED
    BY <2>3, <2>4, <2>5
<1>6. QED
  BY <1>2, <1>3, <1>4, <1>5 DEF HandlerStep

\* Taking a span submits it at most once, and no other.
LEMMA TakeCounts ==
    ASSUME TypeOK, NEW x \in Spans, Take(x), NEW s \in Spans
    PROVE  /\ submitted'[s] \in Nat
           /\ submitted'[s] <= submitted[s] + (IF x = s THEN 1 ELSE 0)
           /\ x # s => submitted'[s] = submitted[s]
<1>1. submitted \in [Spans -> Nat]
  BY DEF TypeOK, WorkerTyped
<1>2. submitted'[s] = IF x = s /\ x \in Slow THEN submitted[s] + 1 ELSE submitted[s]
  BY <1>1 DEF Take
<1>3. submitted[s] \in Nat
  BY <1>1
<1>4. QED
  BY <1>2, <1>3

\* The worker submits a span at most once for each copy it takes out of a queue.
LEMMA WorkerCounts ==
    ASSUME TypeOK, WorkerStep, NEW s \in Spans, InOneHand(s)
    PROVE  /\ InOneHand(s)' /\ UNCHANGED <<accepted, ambiguous>>
           /\ submitted'[s] + Waiting(s)' <= submitted[s] + Waiting(s)
           /\ s \notin Held => submitted'[s] = submitted[s]
<1> USE DEF historyVars
<1>1. /\ redisList \in Seq(Spans) /\ memQueue \in Seq(Spans)
      /\ submitted \in [Spans -> Nat]
  BY DEF TypeOK, QueuesTyped, WorkerTyped
<1>2. inHand' = inHand
  BY DEF WorkerStep, AwaitPool, EnterLoop, Reconnect, ReadRedis, ReadReplyLost, ReadNothing,
         ReadFails, SkipRead, PollMemory, PollNothing, Flush, Wake, handlerVars
<1>3. InHands' = InHands /\ InOneHand(s)'
  BY <1>2 DEF InHands, InOneHand
<1>4. CASE ReadRedis
  <2> DEFINE x == Head(redisList)
             one == IF x = s THEN 1 ELSE 0
  <2>1. /\ redisList # <<>> /\ redisList' = Tail(redisList) /\ Take(x)
        /\ UNCHANGED <<memQueue, accepted, ambiguous>>
    BY <1>4 DEF ReadRedis
  <2>2. /\ Copies(redisList, s) = Copies(redisList', s) + one
        /\ Copies(redisList', s) \in Nat
    <3>1. Tail(redisList) \in Seq(Spans)
      BY <1>1, <2>1
    <3>2. Copies(Tail(redisList), s) \in Nat
      BY <3>1, CopiesType
    <3>3. QED
      BY <1>1, <2>1, <3>2, CopiesTail
  <2>3. x \in Spans /\ x \in Held
    BY <1>1, <2>1, RangeOfTail DEF Held
  <2>4. /\ submitted'[s] <= submitted[s] + one /\ submitted'[s] \in Nat
        /\ s \notin Held => submitted'[s] = submitted[s]
    BY <2>1, <2>3, TakeCounts
  <2>5. submitted[s] \in Nat /\ Waiting(s) \in Nat
    BY WaitingType
  <2>6. Waiting(s)' + one = Waiting(s)
    BY <1>3, <2>1, <2>2, WaitingType DEF Waiting
  <2>7. Waiting(s)' \in Nat
    BY <2>1, <2>2, WaitingType DEF Waiting
  <2>8. submitted'[s] + Waiting(s)' <= submitted[s] + Waiting(s)
    BY <2>4, <2>5, <2>6, <2>7
  <2>9. QED
    BY <1>3, <2>1, <2>4, <2>8
<1>5. CASE PollMemory
  <2> DEFINE x == Head(memQueue)
             one == IF x = s THEN 1 ELSE 0
  <2>1. /\ memQueue # <<>> /\ memQueue' = Tail(memQueue) /\ Take(x)
        /\ UNCHANGED <<redisList, accepted, ambiguous>>
    BY <1>5 DEF PollMemory, redisVars
  <2>2. /\ Copies(memQueue, s) = Copies(memQueue', s) + one
        /\ Copies(memQueue', s) \in Nat
    <3>1. Tail(memQueue) \in Seq(Spans)
      BY <1>1, <2>1
    <3>2. Copies(Tail(memQueue), s) \in Nat
      BY <3>1, CopiesType
    <3>3. QED
      BY <1>1, <2>1, <3>2, CopiesTail
  <2>3. x \in Spans /\ x \in Held
    BY <1>1, <2>1, RangeOfTail DEF Held, Volatile
  <2>4. /\ submitted'[s] <= submitted[s] + one /\ submitted'[s] \in Nat
        /\ s \notin Held => submitted'[s] = submitted[s]
    BY <2>1, <2>3, TakeCounts
  <2>5. submitted[s] \in Nat /\ Waiting(s) \in Nat
    BY WaitingType
  <2>6. Waiting(s)' + one = Waiting(s)
    BY <1>3, <2>1, <2>2, WaitingType DEF Waiting
  <2>7. Waiting(s)' \in Nat
    BY <2>1, <2>2, WaitingType DEF Waiting
  <2>8. submitted'[s] + Waiting(s)' <= submitted[s] + Waiting(s)
    BY <2>4, <2>5, <2>6, <2>7
  <2>9. QED
    BY <1>3, <2>1, <2>4, <2>8
<1>6. CASE ReadReplyLost
  <2>1. /\ redisList # <<>> /\ redisList' = Tail(redisList)
        /\ UNCHANGED <<memQueue, submitted, accepted, ambiguous>>
    BY <1>6 DEF ReadReplyLost
  <2>2. /\ Copies(Tail(redisList), s) \in Nat
        /\ Copies(Tail(redisList), s) <= Copies(redisList, s)
    <3>1. Tail(redisList) \in Seq(Spans)
      BY <1>1, <2>1
    <3>2. Copies(Tail(redisList), s) \in Nat
      BY <3>1, CopiesType
    <3>3. Copies(redisList, s)
             = Copies(Tail(redisList), s) + (IF Head(redisList) = s THEN 1 ELSE 0)
      BY <1>1, <2>1, CopiesTail
    <3>4. QED
      BY <3>2, <3>3
  <2>3. Waiting(s)' \in Nat /\ Waiting(s)' <= Waiting(s)
    BY <1>3, <2>1, <2>2, WaitingType DEF Waiting
  <2>4. QED
    BY <1>3, <2>1, <2>3, WaitingType
<1>7. CASE ~(ReadRedis \/ PollMemory \/ ReadReplyLost)
  <2>1. UNCHANGED <<redisList, memQueue, submitted, accepted, ambiguous>>
    BY <1>7
       DEF WorkerStep, AwaitPool, EnterLoop, Reconnect, ReadNothing, ReadFails, SkipRead,
           PollNothing, Flush, Wake, redisVars
  <2>2. Waiting(s)' = Waiting(s)
    BY <1>3, <2>1 DEF Waiting
  <2>3. QED
    BY <1>3, <2>1, <2>2, WaitingType
<1>8. QED
  BY <1>4, <1>5, <1>6, <1>7

\* Every step keeps the account.
LEMMA StepPushedOnce ==
    ASSUME TypeOK, Conserved, PushedOnce, [Next]_vars
    PROVE  PushedOnce'
<1> SUFFICES ASSUME NEW s \in Spans
             PROVE  /\ InOneHand(s)'
                    /\ s \notin accepted' => submitted'[s] = 0
                    /\ submitted'[s] + Waiting(s)' <= 1 + ambiguous'[s]
  BY DEF PushedOnce
<1> USE WaitingType
<1>1. /\ InOneHand(s)
      /\ s \notin accepted => submitted[s] = 0
      /\ submitted[s] + Waiting(s) <= 1 + ambiguous[s]
  BY DEF PushedOnce
<1>2. TypeOK'
  BY StepType
<1>3. Waiting(s)' \in Nat /\ submitted'[s] \in Nat /\ ambiguous'[s] \in Nat
  <2>1. redisList' \in Seq(Spans) /\ memQueue' \in Seq(Spans)
    BY <1>2 DEF TypeOK, QueuesTyped
  <2>2. Copies(redisList', s) \in Nat /\ Copies(memQueue', s) \in Nat
    BY <2>1, CopiesType
  <2>3. QED
    BY <1>2, <2>2 DEF Waiting, TypeOK, WorkerTyped, HistoryTyped
<1>4. ASSUME NEW h \in Handlers, NEW x \in Spans, Receive(h, x)
      PROVE  /\ InOneHand(s)'
             /\ s \notin accepted' => submitted'[s] = 0
             /\ submitted'[s] + Waiting(s)' <= 1 + ambiguous'[s]
  <2>1. \A g \in Handlers : inHand'[g] = IF g = h THEN x ELSE inHand[g]
    BY <1>4 DEF Receive, TypeOK, HandlersTyped
  <2>2. inHand[h] = NoSpan /\ x # NoSpan
    BY <1>4, PipelineAssumption DEF Receive, TypeOK, HandlersTyped
  <2>3. /\ UNCHANGED <<redisList, memQueue, submitted, ambiguous>>
        /\ x \notin accepted /\ accepted' = accepted \union {x}
    BY <1>4 DEF Receive, redisVars, workerVars
  <2>4. InHands' = InHands \union {x}
    BY <2>1, <2>2, PipelineAssumption DEF InHands
  <2>5. CASE s # x
    <3>1. InOneHand(s)' /\ (s \in InHands' <=> s \in InHands)
      BY <1>1, <2>1, <2>4, <2>5 DEF InOneHand
    <3>2. Waiting(s)' = Waiting(s)
      BY <2>3, <3>1 DEF Waiting
    <3>3. QED
      BY <1>1, <2>3, <3>1, <3>2
  <2>6. CASE s = x
    <3>1. s \notin Held /\ submitted[s] = 0
      BY <1>1, <2>3, <2>6 DEF Conserved
    <3>2. \A g \in Handlers : inHand[g] # s
      BY <3>1, PipelineAssumption DEF Held, Volatile, InHands
    <3>3. InOneHand(s)'
      BY <2>1, <3>2 DEF InOneHand
    <3>4. Waiting(s) = 0 /\ s \notin InHands
      BY <3>1 DEF Held, Volatile
    <3>5. Copies(redisList, s) = 0 /\ Copies(memQueue, s) = 0
      BY <3>4 DEF Waiting
    <3>6. Waiting(s)' = 1
      BY <2>3, <2>4, <2>6, <3>5 DEF Waiting
    <3>7. QED
      BY <1>3, <2>3, <2>6, <3>1, <3>3, <3>6
  <2>7. QED
    BY <2>5, <2>6
<1>5. ASSUME NEW h \in Handlers, HandlerStep(h)
      PROVE  /\ InOneHand(s)'
             /\ s \notin accepted' => submitted'[s] = 0
             /\ submitted'[s] + Waiting(s)' <= 1 + ambiguous'[s]
  <2>1. /\ InOneHand(s)' /\ UNCHANGED <<submitted, accepted>>
        /\ Waiting(s)' + ambiguous[s] <= Waiting(s) + ambiguous'[s]
    BY <1>1, <1>5, HandlerCounts
  <2>2. QED
    BY <1>1, <1>3, <2>1
<1>6. CASE WorkerStep
  <2>1. /\ InOneHand(s)' /\ UNCHANGED <<accepted, ambiguous>>
        /\ submitted'[s] + Waiting(s)' <= submitted[s] + Waiting(s)
        /\ s \notin Held => submitted'[s] = submitted[s]
    BY <1>1, <1>6, WorkerCounts
  <2>2. s \notin accepted => s \notin Held
    BY DEF Conserved
  <2>3. QED
    BY <1>1, <1>3, <2>1, <2>2
<1>7. CASE Crash
  <2>1. /\ \A g \in Handlers : inHand'[g] = NoSpan
        /\ UNCHANGED <<redisList, submitted, accepted, ambiguous>> /\ memQueue' = <<>>
    BY <1>7 DEF Crash, redisVars
  <2>2. InOneHand(s)' /\ s \notin InHands'
    BY <2>1, PipelineAssumption DEF InOneHand, InHands
  <2>3. Waiting(s)' <= Waiting(s)
    BY <2>1, <2>2, CopiesEmpty DEF Waiting
  <2>4. QED
    BY <1>1, <1>3, <2>1, <2>2, <2>3
<1>8. CASE CooldownElapses \/ RedisFails \/ RedisRecovers \/ UNCHANGED vars
  <2>1. UNCHANGED <<inHand, redisList, memQueue, submitted, accepted, ambiguous>>
    BY <1>8 DEF CooldownElapses, RedisFails, RedisRecovers, vars, redisVars, handlerVars,
                workerVars, historyVars
  <2>2. InHands' = InHands /\ InOneHand(s)'
    BY <1>1, <2>1 DEF InHands, InOneHand
  <2>3. Waiting(s)' = Waiting(s)
    BY <2>1, <2>2 DEF Waiting
  <2>4. QED
    BY <1>1, <2>1, <2>2, <2>3
<1>9. QED
  BY <1>4, <1>5, <1>6, <1>7, <1>8 DEF Next

\* A slow span is diagnosed once, and once more for each LPUSH that was applied
\* although its reply was lost; retries, the fallback queue, reconnections and restarts
\* repeat nothing.
THEOREM SubmittedOnce == Spec => []SubmittedOncePerPush
<1>1. Init => PushedOnce
  <2> SUFFICES ASSUME Init, NEW s \in Spans
               PROVE  InOneHand(s) /\ submitted[s] + Waiting(s) <= 1 + ambiguous[s]
                      /\ submitted[s] = 0
    BY DEF PushedOnce
  <2>1. InHands = {} /\ InOneHand(s)
    BY PipelineAssumption DEF Init, InHands, InOneHand
  <2>2. Waiting(s) = 0
    BY <2>1, CopiesEmpty DEF Init, Waiting
  <2>3. QED
    BY <2>1, <2>2 DEF Init
<1>2. TypeOK /\ Conserved /\ PushedOnce /\ [Next]_vars => PushedOnce'
  BY StepPushedOnce
<1>3. TypeOK /\ PushedOnce => SubmittedOncePerPush
  <2> SUFFICES ASSUME TypeOK, PushedOnce, NEW s \in Slow
               PROVE  submitted[s] <= 1 + ambiguous[s]
    BY DEF SubmittedOncePerPush
  <2>1. s \in Spans
    BY PipelineAssumption
  <2>2. QED
    BY <2>1, WaitingType DEF PushedOnce
<1>4. QED
  BY <1>1, <1>2, <1>3, TypeCorrect, SpansConserved, PTL DEF Spec
===============================================================================
