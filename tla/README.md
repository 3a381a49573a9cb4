# Formal models of nebula-monitor

Nebula monitor is a small APM system in Java: a bytecode-weaving *agent*
(`nebula-agent`) sends one span per instrumented call over TCP to a Netty
*server* (`nebula-server`), which queues the spans in Redis, copies them to
Elasticsearch in batches, adjusts the agents' sampling rate, and asks an AI
service to explain slow spans. This directory holds TLA+ models of that program,
TLC runs on small instances of them, and proofs checked by TLAPS.
`PROJECT.json` ties every definition to the source lines it models.

Below, `S/` stands for `src/nebula-server/src/main/java/com/nebula/server/`,
`A/` for `src/nebula-agent/src/main/java/com/nebula/agent/`,
`C/` for `src/nebula-common/src/main/java/com/nebula/common/`.

## 1. The system

| component | state | operations | talks to |
|---|---|---|---|
| Wire protocol (`S/codec`, `A/codec`, `S/ControlCommandHandler`) | bytes received and not consumed | encode, decode | TCP, both pipelines |
| Span ingestion (`S/ServerHandler`, `S/RedisPoolManager`, `S/MonitoringDataQueue`) | Redis pool, retry counter, the bounded fallback queue | `writeToRedis`: up to three LPUSHes, then a blocking `put` in memory; runs **on the event-loop thread** | agents, Redis, worker |
| Elasticsearch synchronisation (`S/ESSyncWorker`) | its own Redis pool, time of the last reconnection, batch | one loop: reconnect, RPOP, else poll memory, submit slow spans, bulk-index at 50 or when idle | Redis, fallback queue, Elasticsearch, diagnosis pool |
| Sampling control, server (`S/ThresholdThread`, `S/SamplingRateManager`, channel group of `S/ServerHandler`) | reduced mode, table of rates, channel group | reduce, restore, `broadcastToApps`, join, leave | channels of all agents |
| Sampling control, agent (`A/NettyClient`, `A/ControlMessageHandler`, `A/GlobalConfig`) | connection, rates | connect once, execute a command, acknowledge | server |
| Diagnosis (`S/diagnosis/DiagnosisTaskExecutor`, `DiagnosisTask`, `DiagnosisService`) | bounded thread pool, two Redis lists with an expiry | submit, discard the oldest, ask with retries, store a success or a failure | worker, AI service, Redis |
| Trace context (`A/TraceHolder`, `LogInterceptor`, `TraceContextRunnable`, interceptors) | a thread-local trace id | set, inherit, remove around woven methods, tasks and HTTP calls | the application's threads |
| Start and stop (`S/NebulaServer`) | | creates all of the above; a restart loses everything but Redis and Elasticsearch | |
| Rest: DTOs, configuration, log classes, prompt builder, metric collector, unused codec, demo services, deployment | | no behaviour of their own; see `components` in `PROJECT.json` | |

What makes the system hard to test:

- **Many threads meet in three queues.** Event loops, the worker and the pool
  threads share the Redis list, `MonitoringDataQueue` and the queue of the
  diagnosis pool. The event loops *block* on the second; the third throws tasks
  away.
- **Redis and Elasticsearch answer badly in more ways than "no".** A command may
  be applied and its reply lost, which the code takes for a failure and retries.
- **Restarts.** The batch, the fallback queue, the tasks and the reduced mode
  live in memory only.
- **Broadcasts are not atomic.** They go through the channel group one channel
  at a time while agents join and leave and another thread may be broadcasting.
- **TCP cuts the stream anywhere.**

What correctness means, per component: a span accepted by the server is never
silently lost nor duplicated without cause (ingestion, synchronisation); agents
follow the last command meant for them and none is left reduced (sampling);
every slow span submitted comes to exactly one end (diagnosis); messages arrive
once and in order (wire protocol); spans of one request carry one id, and woven
code behaves as the plain code does (trace context).

## 2. Plan

| order | module | what | state |
|---|---|---|---|
| 1 | `SpanDelivery`, `SpanPipeline`, `SpanPipelineProofs` | abstract delivery; ingestion with synchronisation; all safety properties and the refinement proved | done |
| 2 | `NettyPipeline`, `SamplingControl`, `SamplingControlProofs` | Netty handler order as operators; the feedback loop; all safety properties proved | done |
| 3 | `DiagnosisPool`, `DiagnosisPoolProofs` | pool, retries, result lists; all safety properties proved | done |
| 4 | `FrameDecoder`, `FrameDecoderProofs`, `SequenceLemmas` | framing over a byte stream; all safety properties proved | done |
| 5 | `TraceContext`, `TraceContextProofs` | thread-local ids through methods, pool tasks (wrapped, refused, bare) and HTTP; `LogInterceptor`'s effect on the woven method; all invariants proved | done |
| 6 | `AIResponse`, `AIResponseProofs` | `escapeJson`, `parseAIResponse` against a reference reading of a JSON string; what holds proved, what the cut at a quotation mark breaks shown | done |
| 7 | | `NoneLeftReduced` after broadcasts of the control API: which of them leave an agent reduced for ever | next |

A composition of the fallback queue with the command path was considered: it would
show that commands wait behind a blocked event loop and leave when it comes free.
`EventLoopsFree` and the fairness of `WriteCommand` say the two halves, and the
halves share no other state.

All modules are parameterised by constants with named assumptions and use no
RECURSIVE operator, so that theorems can be stated about each of them. The theorems
about a module are in the module of the same name with `Proofs` after it;
`SequenceLemmas` holds the lemmas on sequences that several of them use.

## 3. Modules

### SpanDelivery and SpanPipeline

`SpanDelivery` is the promise: an accepted span is *held* until it is indexed or
struck by a fault, and nothing is indexed that never arrived. It has no
processes, no queues and no copies.

`SpanPipeline` is the code. A span is an identifier, which is also its document
id. Each event loop (`Handlers`) runs `Receive`, then attempts (`Push`,
`PushUnacknowledged`, `PushFails`, `NoConnection`), `Backoff` between them, and
`Fallback`, which is enabled only while the queue has room: the thread really
waits in `put`. The worker (`wpc`) follows `ESSyncWorker.run` line by line: wait
for a pool, reconnect (throttled by `cooldown`), read Redis, else poll memory,
flush at `BatchSize` or when idle, sleep. `Take` is the code between finding a
span and the flush decision and includes the submission for diagnosis. `Crash`
is a restart of the process: it empties everything but Redis and Elasticsearch.

What Redis and Elasticsearch answer is nondeterministic. Every answer that is
not simply correct is charged to `faults`, bounded by `MaxFaults`; while Redis
is down a failing command is free. `ambiguous` counts, per span, the LPUSHes
that were applied although the handler saw them fail. `accepted` and `hit` are
history. `EndlessNext` adds `Recycle`, by which a span that is settled may arrive
again: it gives the liveness properties endless traffic.

### NettyPipeline and SamplingControl

`NettyPipeline` holds the `addLast` order of both pipelines and computes whether
something written from a given position is encoded before it reaches the socket.
`SamplingControl` uses it for the commands (`WriteCommand`) and for the
acknowledgement (`Execute`).

A broadcast is `StartCast` (read the group) followed by one `WriteCommand` per
channel, in any order. `ThresholdThread` assigns `isInReducedMode` only after the
broadcast (`ModeChanges`). `ChannelActive` and `ChannelInactive` happen some
time after the agent sees its connection open or break, and an agent that joins
in the middle of a broadcast may or may not be met by its iterator. An agent
connects once and never again; a restart of the server ends all connections.
A thread that is not broadcasting has the command `NoCast`, which has no
rate: a broadcast of an illegal rate to nobody must not look like it.
`due` records the last legal command meant for each agent, `crossed` the agents
for which two broadcasts, or a broadcast and a join, raced.

### DiagnosisPool

`Submit` is `submitDiagnosisTask`; `offer` follows `ThreadPoolExecutor.execute`
through its three choices (core thread, queue, extra thread) to
`DiscardOldestPolicy`, which polls the queue and executes again, while the pool
threads go on taking from it. The poll is one step with the decision to reject;
the pool threads may take from the queue before or after it. A pool thread asks
the service up to `MaxRetries` times, pushes
the result and, in a second command, renews the expiry of the list. `Tick` is
the passing of time in Redis, hours long, so it does not fall between LPUSH and
EXPIRE. `unrenewed` records the lists whose last EXPIRE was prevented by a fault.
Without valid AI settings the executor is null and spans are submitted
to nobody.

### AIResponse

One attempt of `DiagnosisService.callAIAPI`: the prompt is escaped into the body,
the service answers with any content string JSON allows, or with a null content, or
without one in its first line, and `ParseAIResponse` looks for the text. A symbol
stands for a class of characters the code treats alike. `ReadJson` is the reference:
it says what the service reads in the body and what it meant by its answer.
`DiagnosisPool` takes the two outcomes up: a text is its `Answered`, `NoText` its
`Unusable`, and any other response code throws, its `CallFails`.

The text is cut at the first quotation mark, because `indexOf("\"")` also finds an
escaped one: the method that is to "extract the diagnosis text"
(`S/diagnosis/DiagnosisService.java:142`) returns the part before it and the backslash
of the escape, and the branch of `unescapeJson` for such marks is never reached.
`AnswerExtracted` states what the comments promise and is violated; `UnquotedExtracted`
states what remains true, for texts without quotation marks. Two more cases are in the
model and excepted from both, because nothing says what they should be: escapes
that `unescapeJson` does not know (`\u`, `\b`, `\f`) stay in the text as they are
written, and after `"content":null` the name of the *next* key is taken for the text
and the diagnosis stored as a success.

### TraceContext

A thread is a stack of frames, each with the request it works for, a fact the code
does not have: it must get the ids right through the thread-local `holder`. `Enter`
starts a woven `main`, `Call` any other woven method, `RemoteCall` is
`callRemoteService`, which may lose its request or time out while the service still
handles it. `Handle` runs on the one dispatcher thread of the HTTP server and never
clears what it sets. A woven method ends with `Report` or, at a reduced rate, possibly
with `Skip`, the `return null` in the finally block.

Handing a task to a pool has many outcomes, each an action of its own:

| action | code |
|---|---|
| `Submit` | the submitter's id is taken, or made, and the wrapped task is queued (`A/ThreadPoolInterceptor.java:48-58`, and the same for the two `submit`s) |
| `SubmitInline` | the pool is full and lets the submitter run the wrapped task |
| `SubmitUnwrapped` | the `catch` (lines 68-74): the pool refuses the wrapped task, and by the time `zuper.call()` submits the *bare* one it has room; also the branch for other executors (59-62) |
| `SubmitFails` | `zuper.call()` fails as well, which is ignored; or `execute` is woven itself, so that `threadPool.execute` in the interceptor is intercepted again until the stack overflows, an error that `catch (Exception)` lets through to the submitting method, which may end with it (`Report` or `Skip`). The id that was made remains |
| `InlineTaskFails` | a task that the submitter runs throws: `execute` passes the exception on, the interceptor takes it for a refusal and submits the task a second time, bare |
| `SubmitUnseen` | nobody has woven the executor: `NebulaAgent` uses an `AgentBuilder`, which leaves alone the classes of the bootstrap loader, `ThreadPoolExecutor` among them |

`StartTask` and `EndTask` are the two halves of `TraceContextRunnable.run`.
`StartBareTask` and `EndBareTask` run a task that nobody has wrapped: its methods use
the id they find on the pool thread, or make one, and leave it there. `ThreadReplaced`
is a pool that lets a thread go. Which of the outcomes occur is left open, so the
properties hold for an agent that weaves the executor as well as for one that does not.

The code does not keep the ids as clean as its comments promise, and three history
variables say where: `bareTasks` counts the bare tasks of each request that were begun,
each of which may add an id to it; `kept` has the threads that may hold an id nobody
removed, callers after an unsampled `main` and pool threads after a bare task; and
`astray` the requests that met such a holder, or came without a header to the
dispatcher while it held an id. The three invariants say that nothing else goes wrong:
ids are added only by bare tasks, shared only through `astray`, left only on `kept`.

Outside the model is what ByteBuddy installs, and the HTTP and servlet interceptors,
which declare `@Origin Object` and repeat what the client and the handlers do themselves.

### FrameDecoder

One connection as bytes. `Send` appends an encoded message to the wire,
`Deliver(n)` moves any number of bytes to the accumulation buffer, and the four
outcomes of `decode` (`TooShort`, `OtherProtocol`, `Incomplete`, `Decode`) run
until one of them consumes nothing. An agent that was not upgraded writes
serialized objects; one initial choice per behaviour says which kind it is.
`FrameAssumption` bounds a frame by `Integer.MAX_VALUE`, the largest a Netty buffer
can be: the length field is four bytes, written with `writeInt` and read with
`readInt`, which is negative from 2^31 on.

## 4. Runs

| run | instance | shows |
|---|---|---|
| `pipeline` | 3 spans (2 slow), 2 event loops, queue of 1, batch of 2, 3 attempts, 2 faults; 1,047,356 states | `Conserved`, `OnePlaceUnlessAmbiguous`, `SubmittedOncePerPush`, `SlowStoredWereSubmitted`, `LossNeedsFault`, and that it implements `SpanDelivery` |
| `pipeline_live` | 3 spans for ever, 1 event loop, 2 attempts, 1 fault; 98,072 states | `WriteEnds`, `RedisDrains`, `FallbackDrains`, `EventLoopsFree` |
| `pipeline_duplicate` | 1 span | violation: the fallback *does* duplicate when a reply is lost (`S/ServerHandler.java:151`) |
| `sampling` | 2 agents of 2 applications, 1 API call, 2 load changes, 1 restart; 893,780 states | `FollowsLastCommand`, `NoneLeftReduced`, `OverloadReachesAgents`, `ModeFollowsLoad` |
| `sampling_ack` | as `sampling` | violation: no ACK ever leaves the agent (`A/ControlMessageHandler.java:125`) |
| `diagnosis` | 2 threads (1 core), queue of 2, 2 attempts, 5 spans, 1 crash; 1,862,864 states | `Accounted`, `DiscardsOldest`, `ListsHaveTTL`, `EverySlowSpanSettles` |
| `ai_response` | prompts of up to 3 symbols, contents of up to 4; 142,968 states | `PromptArrives`, `UnquotedExtracted` |
| `ai_truncated` | the same | violation: a text that quotes is cut at its first quotation mark (`S/diagnosis/DiagnosisService.java:163`) |
| `framing` | 3 messages out of 4, every cut; 7,476 states | `HandledInOrder`, `KeepsItsPlace`, `NothingLeftBehind`, `AllHandled` |
| `framing_objects` | 2 messages | violation: objects of an old agent never reach their decoder (`S/codec/BinaryMessageDecoder.java:43`) |
| `trace` | 1 caller, 1 pool thread, the dispatcher, 2 requests, 2 tasks, 2 waiting HTTP requests, stacks of 3 (pool thread and dispatcher: 2); 5,369,178 states up to symmetry | `OneIdPerRequest`, `IdsApart`, `ThreadsClean` |
| `trace_outcome` | the same | violation: an unsampled call returns null and loses its exception (`A/LogInterceptor.java:46`) |

Each passing run also checks its module's `TypeOK`, except `pipeline_live`, whose
module's other run does. Each property has a mutant of
the code, under `mutants`, that breaks it.

**Why the bounds suffice.** A queue of one is full with one span, so blocking,
discarding and the head-of-queue cases all occur. Two event loops race for it.
A batch of two has the states empty, partial and full. The number of attempts of
`writeToRedis` is the real one in the safety run. Two faults allow a lost reply
followed by a crash or a second lost reply, and a fault in a flush after one in a
write. Two agents, one of each application, tell a targeted command from a
broadcast to all (every command of the loop is for all; the API's is for one
application) and let one be served and the other not; a restart, an API call
and a load that goes up and down, or down and up, give two broadcasts that overlap. Five spans
fill one core thread, the queue of two and the extra thread, and force a discard
that has a choice. Prompts and contents of three and four symbols hold an escaped
backslash before a letter, before a quote and at the end. In `trace` each of two
requests may enter by `main` or by HTTP, reach every kind of thread, and follow the
other on the caller, on the pool thread or on the dispatcher; the caller's stack of
three holds a method within an inline task within `main`, the others hold a
method within a task or a handler; and two tasks let a wrapped one and a bare one
follow each other on the pool thread in either order. `VIEW` leaves out `altered`, which
no action and no property of that run reads, and the symmetry is of requests,
which all properties treat alike. The
bodies in `framing` include an empty one and ones that contain the magic number
or the start of it, and three frames fit in a buffer with the last one cut.

**Fairness.** `pipeline_live`: weak fairness of each handler, of the worker and of
its five-second wait: they are threads in loops, and their calls of Redis and
Elasticsearch time out. The one wait without a timeout, `put` on the fallback
queue, is a guard of `Fallback`: a handler blocked there is not enabled. There is no
fairness for Redis coming up, for traffic or for faults, so `RedisDrains` assumes
`[]<>redisUp` and `FallbackDrains` that the worker gets to the fallback queue again
and again (`[]<>(wpc = "poll")`): it does only when Redis yields nothing, and the
code gives no more than that. `EventLoopsFree` needs no such assumption: event loops
that are all blocked push nothing to Redis, so the worker comes to the queue. Where
the worker waits for its first pool, the pool appears at last (weak fairness of
the successful `AwaitPool`).
`sampling`: the threshold thread loops, a broadcast is a finite loop, event
loops serve what waits; connections need neither be made nor break.
`diagnosis`: the worker and the pool threads go on; the AI call and the Redis
commands have timeouts. `framing`: TCP delivers and the event loop decodes.

**Deadlock** is checked in the three `pipeline` runs and the two `trace` runs. The other
systems may stop: their loads, calls, spans and messages are finite in an instance.

## 5. Proofs

The runs check small instances; the theorems below hold for every value of the
constants that satisfies the named assumption of the module, which says no more
than what the constants are (numbers, finite sets, a capacity that is positive)
unless the text below says more. Every invariant of a passing run is proved, and so
are the action property `LossNeedsFault` and the refinement `DeliverySpec`. Most
properties are not inductive as they stand. Each inductive invariant was first
checked by TLC on the instance of the module's run.

**`SpanPipelineProofs`** (any sets of spans and event loops, any capacities, number of
attempts and of faults: `PipelineAssumption`):

- `TypeCorrect`: `TypeOK` is inductive as it stands, because it already says what
  each thread holds at each place of its code and that the batch is full only on
  its way to the index.
- `PipelineRefinesDelivery`: with `held <- Held`, every step is an `Accept`, a
  `Settle(S, L)` or a stutter. `StepEffect` states the effect of a step on
  `Held`, `stored` and `hit`, one lemma for each actor, and needs `TypeOK` only:
  a handler that moves a span keeps it until another place has it.
- `SpansConserved`: `Conserved` from those effects.
- `LossIsAFault`: only steps that contain `Fault` make the last copy of a span
  disappear unindexed.
- `OnePlace`: `OnePlaceUnlessAmbiguous` is not inductive. The invariant used is
  `TypeOK /\ Conserved /\ AloneUnlessAmbiguous`, where the last part says of a
  span with no ambiguous push that at most one of hand, list, memory queue and
  batch holds it, in one position, and none if it is settled. `Conserved` is
  what shows that a newly received span is nowhere yet.
- `SlowIsSubmitted`: `SlowTaken` adds that what is in the batch was submitted, since
  a span is indexed from there.
- `SubmittedOnce`: `PushedOnce` bounds submissions *and* the copies still waiting,
  which may each cause one more, by one plus the ambiguous pushes. It counts copies
  in the two queues, because an ambiguous push is what makes a second one.

**`SamplingControlProofs`** (any agents, applications and rates, any number of
broadcasts, load changes and restarts: `SamplingAssumption`):

- `TypeCorrect`: `TypeOK`, inductive as it stands.
- `AgentsFollow`: `FollowsInv` says of an agent that has not caught up what it will
  do when it has: no two threads are yet to write to it, a command that is yet to be
  written is the last one meant for it, and otherwise what is on its way `Settles`
  it at that rate. An agent that is in no channel group is `Untold`. Agents for which
  two broadcasts raced (`crossed`) are excepted, as in the property.
- `NoneStaysReduced`: `NoneLeftReduced`, which speaks of the time before the first
  call of `broadcastToApps`: that may itself leave an agent at any rate.
  `LoopAlone /\ RestoredInv` holds until then: in normal mode, and from the moment
  the restoring command is written to it, an agent is on its way back to the full
  rate.

**`DiagnosisPoolProofs`** (any pool sizes, capacity, attempts: `DiagnosisAssumption`):

- `TypeCorrect`: `TypeOK`, which says that a thread that sleeps has an attempt left;
  without it a thread could go beyond `MaxRetries`.
- `ListsExpire`: `ListsHaveTTL`, from `TypeOK` alone. An EXPIRE is for the whole list, so
  it makes good the ones before it that a fault prevented.
- `OldestGoesFirst`: `InOrder`: the queue is in the order of submission, the task
  being offered is the newest, and all that was discarded is older than both.
- `EverySpanAccounted`: `InOrder /\ AllInOnePlace`: the eight places a span can be in
  are counted, each once, and sum to one; `InOrder` supplies that the queue has no
  duplicates, which a count of places does not see.

**`FrameDecoderProofs`** (any messages whose frames fit in a buffer, any cuts of the
stream: `FrameAssumption`): the inductive `FrameInv` is `TypeOK` with

- `InPlace`: what is in the buffer followed by what is on the wire is the
  concatenation of the encodings of the messages not yet decoded, while the
  connection is up. `CutStream` then shows that seven bytes of the buffer are the
  header of the next message and that a buffer that is long enough begins with its
  frame; the magic number within a body is never looked at. `IntRoundTrip` is the
  length field, for every length up to `MaxCapacity`.
- `ObjectsUnread`: the same, for the objects of an older agent, of which nothing is
  decoded.
- `HandledSoFar`: `HandledInOrder` without its condition, by `FlattenAppend`.

`TypeCorrect`, `PlaceKept`, `MessagesInOrder` and `NoneLeftBehind` follow.

**`TraceContextProofs`** (any threads, requests and tasks, stacks of any depth:
`TraceAssumption`):

- `CleanThreads`: `ThreadsClean` from the inductive `Core`, which is the types with
  `Places`: `SoundStacks` says which frame lies at the bottom of the stack of which
  kind of thread, that only a task run inline restores an id, and that a bare task lies
  only on a thread in `kept`; `TasksHaveIds` that a thread with a task on its stack
  has an id. Together they say which holder a task or a method finds when it ends.
- `OneId`, `NoIdShared` and `TypeCorrect` share the inductive
  `IdInv == Core /\ Marked /\ Budget /\ Apart`. A request `Carries` an id that is in its
  spans, headers and waiting tasks, in the holder of a thread that works for it, or in a
  frame that will restore it. Its `Claims` are these ids, one for each thread that works
  for it without an id (`Wants`: it may make one), and one while it waits for the
  dispatcher without a header. `Budget`: a request has no more claims than it is
  `Allowed`, one for entering and one for each bare task begun. A claim to make an id is
  exchanged for the id made, which is why `OneIdPerRequest` alone is not inductive.
  `Apart`: two requests that never went astray carry no id in common.
- `Effect` sorts the steps by what they do to one request: nothing new (`Steady`), a new
  claim for one that goes (`Exchanges`), or a new claim with a greater allowance
  (`Gains`); an id new to it is new to all, or it went astray (`Fresh`). One lemma for
  each kind of step shows that it has such an effect; `Budget` and `Apart` follow from
  the effect.

**`AIResponseProofs`** (prompts and contents of any length: `AIAssumption`):

- `PromptIsRead`: `BodyInv`, and the lemma `ReadsBack`:
  `ReadJson(Append(EscapeJson(p), Quote)) = p` for every sequence `p`.
- `TextIsCut`: `LineParsed` finds the quotes; `CutAtQuote` compares, escape by escape,
  what `UnescapeJson` makes of the content before its first quote with what `ReadJson`
  reads in it, by cases on the two symbols in front. `AnswerCut` is what the code does
  with every text, cut or not: the extent of the finding of `ai_truncated`.
- `TextIsTaken`: `UnquotedExtracted`, from the same invariant: a text without
  quotation marks is not cut.
- `TypeCorrect`: `TypeOK`, from `EscapeLength`, `UnescapeLength` and `TextLength`.

`ReadJson` and `UnescapeJson` are recursive functions, and `EscapeJson` and the byte
stream are concatenations by `FlattenSeq`, which is one, too. Induction over data is
done by a least counterexample: `LeastNatural` (from the library's `WFMin`) gives the
shortest sequence that violates a statement, and the statement about its rest refutes
it. That a recursive function exists, is the only one, and obeys its equation at the
front of the sequence is proved first (`ReadsExist`, `ReadsOne`, `ReadSymbol`,
`ReadEscape`, and the same for `UnescapeJson`; `AccumulationExists`, `FlattenIsLast`,
`FlattenHead`, `FlattenAppend` in `SequenceLemmas`).

What the proofs changed in the models: `NoCast` (section 3) was a broadcast of rate -1
to nobody, which the API may make; `DiagnosisPool`'s `TypeOK` did not say that a
sleeping thread has an attempt left; `FrameDecoder` bounded the length of no body; and
`AIResponse`'s `TypeOK` gave a text no room where `MaxContent` is 0.

**Only model-checked**: the liveness properties `WriteEnds`, `RedisDrains`,
`FallbackDrains`, `EventLoopsFree`, `OverloadReachesAgents`, `ModeFollowsLoad`,
`EverySlowSpanSettles` and `AllHandled` (fairness and ENABLED are outside the prover),
and the violations, which are single behaviours.

## 6. What the models leave out

- Contents of spans, documents and results (of prompts and answers, `AIResponse`
  models the quoting and nothing else); logging; the JSON between
  `Message` and `MonitoringData` (a body that does not parse is dropped before
  `handleMonitoringData`, so it is never an accepted span).
- Time, except the reconnection pause and Redis expiry: waits of bounded length
  are steps. `storeTraceMetric` and its Redis calls change no modelled state.
- An orderly shutdown: there is none. Nothing closes the server channel, so the
  finally block of `NebulaServer.start` runs only if the port cannot be bound.
- Prometheus, Grafana and the rest of the deployment, with the third-party plugins
  vendored under `docker/grafana`: minified bundles of other projects, no logic of
  this program.
- Interrupts: an interrupted `put` of `MonitoringDataQueue.add` would drop its span, and
  interrupted sleeps would end attempts early, but nothing in the program interrupts
  an event loop, the worker or a pool thread.
- Memory visibility below the level of statements: `isInReducedMode` and the
  tables are used by one thread, are volatile or concurrent; the field of
  `RedisPoolManager` is not, and is listed as a hazard.
- Code without callers: `setApplicationName`, `clearAllRates`,
  `recordEsLatency`, `getConnectionWithRetry`, `ControlCommandLogger`,
  `DiagnosisTaskExecutor.shutdown` and `getExecutor`, `BinaryMessageDecoderV2`,
  `MessageDeserializerFactory`. `broadcastToApps` has no caller either, but is
  the control API and is modelled as an action of another thread.

Facts met on the way that no property is about: the condition `queueSize >
10000` of `checkSystemLoad` cannot hold, the queue's capacity being 10000;
`reduceAllSamplingRates` and `restoreFullSampling` do not update the server's
table of rates, and the reduction to 50% raises an application that was below it,
though its comment speaks of 50% of the former rate (`S/SamplingRateManager.java:89`);
NaN passes the range checks of the rates (`A/GlobalConfig.java:59`) and is no rate of
the model;
EXPIRE applies to a whole result list and every LPUSH renews it, so under steady slow
spans no result ever expires (`S/diagnosis/DiagnosisTask.java:135`); an agent that connects in reduced mode is not told;
an empty target list means every application to an agent; `TASK_SUBMITTED` is
logged for spans submitted to no executor.
