----------------------------- MODULE SpanPipeline -----------------------------
(***************************************************************************)
(* The path of a span through the server: ServerHandler.writeToRedis on    *)
(* the Netty event loops, the Redis list nebula:monitor:queue, the         *)
(* in-memory fallback MonitoringDataQueue, and the ESSyncWorker thread     *)
(* that batches spans into Elasticsearch and hands slow ones to the        *)
(* diagnosis executor.                                                     *)
(*                                                                         *)
(* A span is abstracted to its identifier, which is also its Elasticsearch *)
(* document id. Redis and Elasticsearch are outside the program: what they *)
(* may answer is nondeterministic, and every bad answer is charged to the  *)
(* budget MaxFaults so that faults are finite.                             *)
(***************************************************************************)
EXTENDS Naturals, Sequences, FiniteSets, Functions

CONSTANTS
    Spans,          \* span identifiers
    Slow,           \* those for which SlowTraceDetector.shouldDiagnose holds
    Handlers,       \* event-loop threads, each running one handler at a time
    NoSpan,         \* what an idle handler holds
    QueueCapacity,  \* bound of MonitoringDataQueue (10000 in the code)
    BatchSize,      \* ESSyncWorker.BATCH_SIZE (50 in the code)
    MaxAttempts,    \* LPUSH attempts of writeToRedis (3 in the code)
    MaxFaults       \* bound on environment faults

ASSUME PipelineAssumption ==
    /\ NoSpan \notin Spans
    /\ Slow \subseteq Spans
    /\ QueueCapacity \in Nat \ {0}
    /\ BatchSize \in Nat \ {0}
    /\ MaxAttempts \in Nat \ {0}
    /\ MaxFaults \in Nat

VARIABLES
    redisUp,        \* does Redis answer?
    redisList,      \* the list; LPUSH appends here and RPOP takes the head
    pool,           \* RedisPoolManager.jedisPool # null
    hpc,            \* where each handler thread is
    inHand,         \* the span each handler is writing
    retry,          \* writeToRedis's loop counter
    memQueue,       \* MonitoringDataQueue
    wpc,            \* where the worker thread is
    workerPool,     \* ESSyncWorker.jedisPool # null
    cooldown,       \* less than RETRY_SLEEP_MS since the last reconnection
    batch,          \* ESSyncWorker's batch
    idle,           \* did this turn of the loop find no span?
    stored,         \* document ids in Elasticsearch
    submitted,      \* per span, calls of submitDiagnosisTask
    accepted,       \* history: spans handed to handleMonitoringData
    hit,            \* history: spans of which a fault destroyed a copy
    ambiguous,      \* history: per span, LPUSHes applied but reported failed
    faults          \* faults so far

redisVars == <<redisUp, redisList>>
handlerVars == <<pool, hpc, inHand, retry>>
workerVars == <<wpc, workerPool, cooldown, batch, idle, submitted>>
historyVars == <<accepted, hit, ambiguous>>
vars == <<redisVars, handlerVars, memQueue, workerVars, stored, historyVars,
          faults>>

-------------------------------------------------------------------------------
(* The environment's answers                                               *)

Fault == faults < MaxFaults /\ faults' = faults + 1

NoFault == UNCHANGED faults

\* A failing command costs nothing while Redis is down.
FailingCommand == IF redisUp THEN Fault ELSE NoFault

\* Constructing a JedisPool: it may throw when Redis does not answer, and the
\* caller then keeps null.
CreatePool == IF redisUp THEN {TRUE} ELSE BOOLEAN

\* RedisPoolManager.init: creates the pool only when there is none.
InitPool == IF pool THEN {TRUE} ELSE CreatePool

InHands == {inHand[h] : h \in Handlers} \ {NoSpan}

\* Spans held only by the server process.
Volatile == InHands \union Range(memQueue) \union Range(batch)

Held == Volatile \union Range(redisList)

Init ==
    /\ redisUp \in BOOLEAN
    /\ redisList = <<>>
    /\ pool \in CreatePool
    /\ hpc = [h \in Handlers |-> "idle"]
    /\ inHand = [h \in Handlers |-> NoSpan]
    /\ retry = [h \in Handlers |-> 0]
    /\ memQueue = <<>>
    /\ wpc = "start"
    /\ workerPool \in CreatePool
    /\ cooldown = FALSE
    /\ batch = <<>>
    /\ idle = FALSE
    /\ stored = {}
    /\ submitted = [s \in Spans |-> 0]
    /\ accepted = {}
    /\ hit = {}
    /\ ambiguous = [s \in Spans |-> 0]
    /\ faults = 0

-------------------------------------------------------------------------------
(* ServerHandler, on an event-loop thread                                  *)

\* channelRead0 / handleMonitoringData: a span arrives, the pool is initialised.
Receive(h, s) ==
    /\ hpc[h] = "idle"
    /\ s \notin accepted
    /\ accepted' = accepted \union {s}
    /\ inHand' = [inHand EXCEPT ![h] = s]
    /\ retry' = [retry EXCEPT ![h] = 0]
    /\ hpc' = [hpc EXCEPT ![h] = "attempt"]
    /\ pool' \in InitPool
    /\ NoFault
    /\ UNCHANGED <<redisVars, memQueue, workerVars, stored, hit, ambiguous>>

\* The handler returns to its event loop.
Finish(h) ==
    /\ hpc' = [hpc EXCEPT ![h] = "idle"]
    /\ inHand' = [inHand EXCEPT ![h] = NoSpan]
    /\ UNCHANGED retry

NextAttemptUncounted(h, onException) ==     \* mutant: the catch skips retry++
    /\ retry' = [retry EXCEPT ![h] = IF onException THEN @ ELSE @ + 1]
    /\ hpc' = [hpc EXCEPT ![h] =
                  IF retry'[h] >= MaxAttempts THEN "fallback"
                  ELSE IF onException THEN "backoff" ELSE "attempt"]
    /\ UNCHANGED inHand

NextAttemptReturns(h, onException) ==       \* mutant: null connection, no fallback
    /\ retry' = [retry EXCEPT ![h] = @ + 1]
    /\ IF retry[h] + 1 >= MaxAttempts /\ ~onException
       THEN /\ hpc' = [hpc EXCEPT ![h] = "idle"]
            /\ inHand' = [inHand EXCEPT ![h] = NoSpan]
       ELSE /\ hpc' = [hpc EXCEPT ![h] =
                          IF retry[h] + 1 >= MaxAttempts THEN "fallback"
                          ELSE IF onException THEN "backoff" ELSE "attempt"]
            /\ UNCHANGED inHand

\* The attempt failed. After an exception the loop sleeps before the next one;
\* `continue` on a null connection skips that sleep.
NextAttempt(h, onException) ==
    /\ retry' = [retry EXCEPT ![h] = @ + 1]
    /\ hpc' = [hpc EXCEPT ![h] =
                  IF retry[h] + 1 >= MaxAttempts THEN "fallback"
                  ELSE IF onException THEN "backoff" ELSE "attempt"]
    /\ UNCHANGED inHand

PushTwice(h) ==                             \* mutant: the success flag is forgotten
    /\ hpc[h] = "attempt"
    /\ redisUp
    /\ pool' \in InitPool
    /\ redisList' = Append(redisList, inHand[h])
    /\ NextAttempt(h, TRUE)
    /\ NoFault
    /\ UNCHANGED <<redisUp, memQueue, workerVars, stored, historyVars>>

\* writeToRedis: getConnection and LPUSH succeed.
Push(h) ==
    /\ hpc[h] = "attempt"
    /\ redisUp
    /\ pool' \in InitPool
    /\ redisList' = Append(redisList, inHand[h])
    /\ Finish(h)
    /\ NoFault
    /\ UNCHANGED <<redisUp, memQueue, workerVars, stored, historyVars>>

\* LPUSH is applied but its reply never comes back: the exception is caught and
\* the attempt counts as failed.
PushUnacknowledged(h) ==
    /\ hpc[h] = "attempt"
    /\ redisUp
    /\ pool' \in InitPool
    /\ redisList' = Append(redisList, inHand[h])
    /\ ambiguous' = [ambiguous EXCEPT ![inHand[h]] = @ + 1]
    /\ NextAttempt(h, TRUE)
    /\ Fault
    /\ UNCHANGED <<redisUp, memQueue, workerVars, stored, accepted, hit>>

\* LPUSH fails without being applied.
PushFails(h) ==
    /\ hpc[h] = "attempt"
    /\ pool' = TRUE
    /\ NextAttempt(h, TRUE)
    /\ FailingCommand
    /\ UNCHANGED <<redisVars, memQueue, workerVars, stored, historyVars>>

\* getConnection returns null: no pool, or getResource threw.
NoConnection(h) ==
    /\ hpc[h] = "attempt"
    /\ pool' \in InitPool
    /\ NextAttempt(h, FALSE)
    /\ FailingCommand
    /\ UNCHANGED <<redisVars, memQueue, workerVars, stored, historyVars>>

BackoffReturns(h) ==                        \* mutant: an interrupted sleep returns
    /\ hpc[h] = "backoff"
    /\ Finish(h)
    /\ NoFault
    /\ UNCHANGED <<redisVars, pool, memQueue, workerVars, stored, historyVars>>

\* The event loop wakes from Thread.sleep between two attempts.
Backoff(h) ==
    /\ hpc[h] = "backoff"
    /\ hpc' = [hpc EXCEPT ![h] = "attempt"]
    /\ NoFault
    /\ UNCHANGED <<redisVars, pool, inHand, retry, memQueue, workerVars, stored,
                   historyVars>>

DropWhenFull(h) ==                          \* mutant: offer instead of put
    /\ hpc[h] = "fallback"
    /\ memQueue' = IF Len(memQueue) < QueueCapacity
                   THEN Append(memQueue, inHand[h]) ELSE memQueue
    /\ Finish(h)
    /\ NoFault
    /\ UNCHANGED <<redisVars, pool, workerVars, stored, historyVars>>

FallbackOneShort(h) ==                      \* mutant: the last slot is never used
    /\ hpc[h] = "fallback"
    /\ Len(memQueue) + 1 < QueueCapacity
    /\ memQueue' = Append(memQueue, inHand[h])
    /\ Finish(h)
    /\ NoFault
    /\ UNCHANGED <<redisVars, pool, workerVars, stored, historyVars>>

\* MonitoringDataQueue.add: put blocks the event loop while the queue is full.
Fallback(h) ==
    /\ hpc[h] = "fallback"
    /\ Len(memQueue) < QueueCapacity
    /\ memQueue' = Append(memQueue, inHand[h])
    /\ Finish(h)
    /\ NoFault
    /\ UNCHANGED <<redisVars, pool, workerVars, stored, historyVars>>

HandlerStep(h) ==
    \/ Push(h)
    \/ PushUnacknowledged(h)
    \/ PushFails(h)
    \/ NoConnection(h)
    \/ Backoff(h)
    \/ Fallback(h)

-------------------------------------------------------------------------------
(* ESSyncWorker, on its own thread                                         *)

\* run, before the loop: nothing is drained until a pool exists.
AwaitPool ==
    /\ wpc = "start"
    /\ ~workerPool
    /\ workerPool' \in CreatePool
    /\ NoFault
    /\ UNCHANGED <<redisVars, handlerVars, memQueue, wpc, cooldown, batch, idle,
                   submitted, stored, historyVars>>

EnterLoop ==
    /\ wpc = "start"
    /\ workerPool
    /\ wpc' = "top"
    /\ NoFault
    /\ UNCHANGED <<redisVars, handlerVars, memQueue, workerPool, cooldown, batch,
                   idle, submitted, stored, historyVars>>

ReconnectNever ==                           \* mutant: the pool is never rebuilt
    /\ wpc = "top"
    /\ wpc' = "read"
    /\ NoFault
    /\ UNCHANGED <<redisVars, handlerVars, memQueue, workerPool, cooldown, batch,
                   idle, submitted, stored, historyVars>>

\* tryReconnectRedisPool: at most one attempt every RETRY_SLEEP_MS.
Reconnect ==
    /\ wpc = "top"
    /\ wpc' = "read"
    /\ IF workerPool \/ cooldown
       THEN UNCHANGED <<workerPool, cooldown>>
       ELSE workerPool' \in CreatePool /\ cooldown' = TRUE
    /\ NoFault
    /\ UNCHANGED <<redisVars, handlerVars, memQueue, batch, idle, submitted,
                   stored, historyVars>>

\* RETRY_SLEEP_MS have passed since the last reconnection.
CooldownElapses ==
    /\ cooldown
    /\ cooldown' = FALSE
    /\ NoFault
    /\ UNCHANGED <<redisVars, handlerVars, memQueue, wpc, workerPool, batch, idle,
                   submitted, stored, historyVars>>

TakeOneMore(s) ==                           \* mutant: > BATCH_SIZE
    /\ batch' = Append(batch, s)
    /\ submitted' = IF s \in Slow THEN [submitted EXCEPT ![s] = @ + 1]
                    ELSE submitted
    /\ idle' = FALSE
    /\ wpc' = IF Len(batch) + 1 > BatchSize THEN "flush" ELSE "top"

TakeFullUnsubmitted(s) ==                   \* mutant: a full batch skips diagnosis
    /\ batch' = Append(batch, s)
    /\ submitted' = IF s \in Slow /\ Len(batch) + 1 < BatchSize
                    THEN [submitted EXCEPT ![s] = @ + 1] ELSE submitted
    /\ idle' = FALSE
    /\ wpc' = IF Len(batch) + 1 >= BatchSize THEN "flush" ELSE "top"

\* A span was found: it joins the batch, is submitted for diagnosis if slow, and
\* a full batch is sent at once.
Take(s) ==
    /\ batch' = Append(batch, s)
    /\ submitted' = IF s \in Slow THEN [submitted EXCEPT ![s] = @ + 1]
                    ELSE submitted
    /\ idle' = FALSE
    /\ wpc' = IF Len(batch) + 1 >= BatchSize THEN "flush" ELSE "top"

\* RPOP returns a span. If giving the connection back then throws, the pool is
\* closed but the span is already in hand.
ReadRedis ==
    /\ wpc = "read"
    /\ workerPool
    /\ redisUp
    /\ redisList # <<>>
    /\ redisList' = Tail(redisList)
    /\ Take(Head(redisList))
    /\ \/ NoFault /\ UNCHANGED workerPool
       \/ Fault /\ workerPool' = FALSE
    /\ UNCHANGED <<redisUp, handlerVars, memQueue, cooldown, stored, historyVars>>

\* RPOP removes a span but its reply is lost: the pool is closed, the span gone.
ReadReplyLost ==
    /\ wpc = "read"
    /\ workerPool
    /\ redisUp
    /\ redisList # <<>>
    /\ redisList' = Tail(redisList)
    /\ hit' = hit \union {Head(redisList)}
    /\ workerPool' = FALSE
    /\ wpc' = "poll"
    /\ Fault
    /\ UNCHANGED <<redisUp, handlerVars, memQueue, cooldown, batch, idle, submitted,
                   stored, accepted, ambiguous>>

\* RPOP returns nil.
ReadNothing ==
    /\ wpc = "read"
    /\ workerPool
    /\ redisUp
    /\ redisList = <<>>
    /\ wpc' = "poll"
    /\ NoFault
    /\ UNCHANGED <<redisVars, handlerVars, memQueue, workerPool, cooldown, batch,
                   idle, submitted, stored, historyVars>>

\* getResource or RPOP throws: the worker closes its pool.
ReadFails ==
    /\ wpc = "read"
    /\ workerPool
    /\ workerPool' = FALSE
    /\ wpc' = "poll"
    /\ FailingCommand
    /\ UNCHANGED <<redisVars, handlerVars, memQueue, cooldown, batch, idle,
                   submitted, stored, historyVars>>

SkipRead ==
    /\ wpc = "read"
    /\ ~workerPool
    /\ wpc' = "poll"
    /\ NoFault
    /\ UNCHANGED <<redisVars, handlerVars, memQueue, workerPool, cooldown, batch,
                   idle, submitted, stored, historyVars>>

\* Redis gave nothing: MonitoringDataQueue.poll.
PollMemory ==
    /\ wpc = "poll"
    /\ memQueue # <<>>
    /\ memQueue' = Tail(memQueue)
    /\ Take(Head(memQueue))
    /\ NoFault
    /\ UNCHANGED <<redisVars, handlerVars, workerPool, cooldown, stored, historyVars>>

PollNeverFlushes ==                         \* mutant: only a full batch is sent
    /\ wpc = "poll"
    /\ memQueue = <<>>
    /\ idle' = TRUE
    /\ wpc' = "sleep"
    /\ NoFault
    /\ UNCHANGED <<redisVars, handlerVars, memQueue, workerPool, cooldown, batch,
                   submitted, stored, historyVars>>

\* No span anywhere: a partial batch is sent now, and then the worker sleeps.
PollNothing ==
    /\ wpc = "poll"
    /\ memQueue = <<>>
    /\ idle' = TRUE
    /\ wpc' = IF batch = <<>> THEN "sleep" ELSE "flush"
    /\ NoFault
    /\ UNCHANGED <<redisVars, handlerVars, memQueue, workerPool, cooldown, batch,
                   submitted, stored, historyVars>>

FlushKeepsBatch(S) ==                       \* mutant: batch.clear() only on success
    /\ wpc = "flush"
    /\ stored' = stored \union S
    /\ hit' = hit \union (Range(batch) \ S)
    /\ batch' = IF S = Range(batch) THEN <<>> ELSE batch
    /\ wpc' = IF idle THEN "sleep" ELSE "top"
    /\ IF S = Range(batch) THEN NoFault ELSE Fault
    /\ UNCHANGED <<redisVars, handlerVars, memQueue, workerPool, cooldown, idle,
                   submitted, accepted, ambiguous>>

\* sendToES: the bulk request indexes the spans of S. Rejected items and thrown
\* exceptions are only logged, and run clears the batch all the same.
Flush(S) ==
    /\ wpc = "flush"
    /\ stored' = stored \union S
    /\ hit' = hit \union (Range(batch) \ S)
    /\ batch' = <<>>
    /\ wpc' = IF idle THEN "sleep" ELSE "top"
    /\ IF S = Range(batch) THEN NoFault ELSE Fault
    /\ UNCHANGED <<redisVars, handlerVars, memQueue, workerPool, cooldown, idle,
                   submitted, accepted, ambiguous>>

Wake ==
    /\ wpc = "sleep"
    /\ wpc' = "top"
    /\ NoFault
    /\ UNCHANGED <<redisVars, handlerVars, memQueue, workerPool, cooldown, batch,
                   idle, submitted, stored, historyVars>>

WorkerStep ==
    \/ AwaitPool
    \/ EnterLoop
    \/ Reconnect
    \/ ReadRedis
    \/ ReadReplyLost
    \/ ReadNothing
    \/ ReadFails
    \/ SkipRead
    \/ PollMemory
    \/ PollNothing
    \/ \E S \in SUBSET Range(batch) : Flush(S)
    \/ Wake

-------------------------------------------------------------------------------
(* The environment                                                         *)

RedisFails ==
    /\ redisUp
    /\ redisUp' = FALSE
    /\ Fault
    /\ UNCHANGED <<redisList, handlerVars, memQueue, workerVars, stored, historyVars>>

RedisRecovers ==
    /\ ~redisUp
    /\ redisUp' = TRUE
    /\ NoFault
    /\ UNCHANGED <<redisList, handlerVars, memQueue, workerVars, stored, historyVars>>

\* The server process dies and NebulaServer.start runs again: the Redis list and
\* the index survive, everything else starts afresh.
Crash ==
    /\ hit' = hit \union Volatile
    /\ pool' \in CreatePool
    /\ hpc' = [h \in Handlers |-> "idle"]
    /\ inHand' = [h \in Handlers |-> NoSpan]
    /\ retry' = [h \in Handlers |-> 0]
    /\ memQueue' = <<>>
    /\ wpc' = "start"
    /\ workerPool' \in CreatePool
    /\ cooldown' = FALSE
    /\ batch' = <<>>
    /\ idle' = FALSE
    /\ Fault
    /\ UNCHANGED <<redisVars, submitted, stored, accepted, ambiguous>>

Next ==
    \/ \E h \in Handlers, s \in Spans : Receive(h, s)
    \/ \E h \in Handlers : HandlerStep(h)
    \/ WorkerStep
    \/ CooldownElapses
    \/ RedisFails
    \/ RedisRecovers
    \/ Crash

Spec == Init /\ [][Next]_vars

\* Agents never stop sending: once a span is settled and no copy of it is left,
\* its identifier stands for a fresh span.
Recycle(s) ==
    /\ s \in stored \union hit
    /\ s \notin Held
    /\ accepted' = accepted \ {s}
    /\ stored' = stored \ {s}
    /\ hit' = hit \ {s}
    /\ submitted' = [submitted EXCEPT ![s] = 0]
    /\ ambiguous' = [ambiguous EXCEPT ![s] = 0]
    /\ NoFault
    /\ UNCHANGED <<redisVars, handlerVars, memQueue, wpc, workerPool, cooldown, batch,
                   idle>>

EndlessNext == Next \/ \E s \in Spans : Recycle(s)

\* The event loops and the worker keep running and time passes. Constructing a
\* pool opens no connection, so it does not fail for ever. Nothing says that
\* Redis comes back, that spans arrive or that faults happen.
Fairness ==
    /\ \A h \in Handlers : WF_vars(HandlerStep(h))
    /\ WF_vars(WorkerStep)
    /\ WF_vars(CooldownElapses)
    /\ WF_vars(AwaitPool /\ workerPool')

EndlessSpec == Init /\ [][EndlessNext]_vars /\ Fairness

-------------------------------------------------------------------------------
(* Properties                                                              *)

QueuesTyped ==
    /\ redisUp \in BOOLEAN
    /\ redisList \in Seq(Spans)
    /\ memQueue \in Seq(Spans)
    /\ Len(memQueue) <= QueueCapacity

HandlersTyped ==
    /\ pool \in BOOLEAN
    /\ hpc \in [Handlers -> {"idle", "attempt", "backoff", "fallback"}]
    /\ inHand \in [Handlers -> Spans \union {NoSpan}]
    /\ retry \in [Handlers -> 0..MaxAttempts]
    /\ \A h \in Handlers :
          /\ inHand[h] = NoSpan <=> hpc[h] = "idle"
          /\ hpc[h] \in {"attempt", "backoff"} => retry[h] < MaxAttempts

WorkerTyped ==
    /\ wpc \in {"start", "top", "read", "poll", "flush", "sleep"}
    /\ workerPool \in BOOLEAN
    /\ cooldown \in BOOLEAN
    /\ batch \in Seq(Spans)
    /\ Len(batch) <= BatchSize
    /\ wpc # "flush" => Len(batch) < BatchSize
    /\ idle \in BOOLEAN
    /\ submitted \in [Spans -> Nat]

HistoryTyped ==
    /\ stored \subseteq Spans
    /\ accepted \subseteq Spans
    /\ hit \subseteq Spans
    /\ ambiguous \in [Spans -> Nat]
    /\ faults \in 0..MaxFaults

\* Types, the capacity of the fallback queue, the size of a batch, and what each
\* thread holds at each place of its code.
TypeOK == QueuesTyped /\ HandlersTyped /\ WorkerTyped /\ HistoryTyped

\* Every span the server accepted is in a handler's hands, in the Redis list, in
\* the fallback queue, in the batch, in the index, or was struck by a fault the
\* model names; and nothing else is. No retry, fallback, batch or restart loses a
\* span silently.
Conserved == accepted = Held \union stored \union hit

\* The places that hold a copy of s.
Places(s) ==
    ({"hand"} \X {h \in Handlers : inHand[h] = s})
      \union ({"redis"} \X {i \in DOMAIN redisList : redisList[i] = s})
      \union ({"memory"} \X {i \in DOMAIN memQueue : memQueue[i] = s})
      \union ({"batch"} \X {i \in DOMAIN batch : batch[i] = s})

\* "这样可以避免数据重复" (ServerHandler.java:151), where it is true: unless the reply
\* to one of its LPUSHes was lost, a span is never in two places, and once it is
\* indexed or struck it is nowhere.
OnePlaceUnlessAmbiguous ==
    \A s \in Spans : ambiguous[s] = 0 =>
        /\ \A p, q \in Places(s) : p = q
        /\ Places(s) = {} \/ s \notin stored \union hit

\* A slow span is submitted for diagnosis once, plus once for each LPUSH that was
\* applied although the handler saw it fail: nothing else repeats a diagnosis.
SubmittedOncePerPush ==
    \A s \in Slow : submitted[s] <= 1 + ambiguous[s]

\* The worker submits a slow span before it can be indexed, and submits no other.
SlowStoredWereSubmitted ==
    /\ \A s \in Slow \intersect stored : submitted[s] > 0
    /\ \A s \in Spans \ Slow : submitted[s] = 0

\* The last copy of an accepted span disappears before the span is indexed only
\* in a step in which the environment misbehaves.
LossNeedsFault == [][(Held \union stored) \ (Held \union stored)' # {} => Fault]_vars

\* The pipeline is a SpanDelivery.
Delivery == INSTANCE SpanDelivery WITH held <- Held
DeliverySpec == Delivery!Spec

Settled(s) == s \in stored \union hit

\* writeToRedis gives up: an event loop leaves its retry loop, with the span in
\* Redis or on its way to the fallback queue.
WriteEnds ==
    \A h \in Handlers : hpc[h] = "attempt" ~> hpc[h] \in {"idle", "fallback"}

\* If Redis keeps coming back, what is in its list is indexed or struck, however
\* much keeps arriving.
RedisDrains ==
    []<>redisUp => \A s \in Spans : s \in Range(redisList) ~> Settled(s)

\* The worker turns to the fallback queue only when Redis gives it nothing. As
\* long as that keeps happening, what fell back to memory is indexed or struck,
\* whether or not Redis ever comes back.
FallbackDrains ==
    []<>(wpc = "poll") => \A s \in Spans : s \in Range(memQueue) ~> Settled(s)

\* Event loops blocked in put on a full fallback queue do not all stay so: while none
\* of them pushes to Redis, the worker empties the Redis list and comes to the fallback
\* queue. Until then no broadcast of ThresholdThread leaves these loops either.
EventLoopsFree ==
    (\A h \in Handlers : hpc[h] = "fallback") ~> (\E h \in Handlers : hpc[h] = "idle")

\* "这样可以避免数据重复" (ServerHandler.java:150-151) as it stands: a span written to
\* the fallback queue is not in Redis as well.
FallbackDoesNotDuplicate ==
    Range(memQueue) \intersect Range(redisList) = {}
===============================================================================
