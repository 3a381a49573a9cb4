----------------------------- MODULE TraceContext -----------------------------
(***************************************************************************)
(* The trace id of a request on its way through an instrumented program:    *)
(* TraceHolder keeps it in a thread-local variable, LogInterceptor wraps    *)
(* every woven method, TraceContextRunnable carries the id to the threads   *)
(* of a pool, and the HTTP header X-Nebula-Trace-Id to another service.     *)
(*                                                                         *)
(* A thread is a stack of frames. Each frame knows the request it works     *)
(* for, which the program does not: the code has to get the id right by     *)
(* putting it into the holder and taking it out at the right moments.       *)
(* A woven method is "main" (the entry of a request), "work" (any other),   *)
(* "remote" (RemoteServiceClient.callRemoteService) or "handle"             *)
(* (RemoteServiceServer); a "task" frame is TraceContextRunnable.run, a     *)
(* "bare" one a task that nobody has wrapped. No method called main is      *)
(* called from within a request.                                            *)
(***************************************************************************)
EXTENDS Integers, Sequences, FiniteSets, SequencesExt

CONSTANTS
    Callers,        \* threads that run the program's entry method
    PoolThreads,    \* threads of the program's pool
    Dispatcher,     \* the HTTP server's only thread: setExecutor(null)
    Requests,       \* requests that enter through main or through HTTP
    MaxDepth,       \* bound on the frames of each thread
    MaxTasks,       \* bound on the tasks submitted
    MaxWaiting      \* bound on the HTTP requests that wait

ASSUME TraceAssumption ==
    /\ Callers \intersect PoolThreads = {}
    /\ Dispatcher \notin Callers \union PoolThreads
    /\ MaxDepth \in [Callers \union PoolThreads \union {Dispatcher} -> Nat]
    /\ MaxTasks \in Nat
    /\ MaxWaiting \in Nat

VARIABLES
    holder,         \* TraceHolder.TRACE_ID_CONTEXT of each thread
    stack,          \* the frames of each thread, the innermost first
    queue,          \* the pool's queue of tasks; a bare one waits without an id
    inbox,          \* HTTP requests the dispatcher has not read yet
    ids,            \* number of ids generated so far
    fullRate,       \* GlobalConfig.getSamplingRate = 1
    reported,       \* spans given to NettyClient.send
    begun,          \* history: requests that have entered
    kept,           \* history: callers whose last main was not sampled, and pool
                    \* threads that have run a bare task
    astray,         \* history: requests that found an id left behind in a holder
    bareTasks,      \* history: number of each request's bare tasks that were begun
    altered,        \* history: some method's result or exception was replaced by null
    tasks           \* number of tasks submitted

programVars == <<stack, queue, inbox, tasks>>
idVars == <<holder, ids>>
spanVars == <<reported, kept, altered>>
vars == <<programVars, idVars, fullRate, spanVars, begun, astray, bareTasks>>

Threads == Callers \union PoolThreads \union {Dispatcher}
NoId == 0

Frame(kind, r, previous) == [kind |-> kind, req |-> r, previous |-> previous]
Carried(r, id) == [req |-> r, id |-> id]

Top(t) == Head(stack[t])
Idle(t) == stack[t] = <<>>
CanCall(t) ==
    ~Idle(t) /\ Top(t).kind \in {"main", "work", "task", "bare"} /\ Len(stack[t]) < MaxDepth[t]
StackWith(t, frame) == [stack EXCEPT ![t] = <<frame>> \o @]
StackWithout(t) == [stack EXCEPT ![t] = Tail(@)]

Init ==
    /\ holder = [t \in Threads |-> NoId]
    /\ stack = [t \in Threads |-> <<>>]
    /\ queue = <<>>
    /\ inbox = {}
    /\ ids = 0
    /\ fullRate = TRUE
    /\ reported = {}
    /\ begun = {}
    /\ kept = {}
    /\ astray = {}
    /\ bareTasks = [r \in Requests |-> 0]
    /\ altered = FALSE
    /\ tasks = 0

-------------------------------------------------------------------------------
(* TraceHolder                                                             *)

\* The id that get returns: a new one if the thread has none.
IdOf(t) == IF holder[t] = NoId THEN ids + 1 ELSE holder[t]

Get(t) ==
    /\ holder' = [holder EXCEPT ![t] = IdOf(t)]
    /\ ids' = IF holder[t] = NoId THEN ids + 1 ELSE ids

\* set ignores null.
SetTo(t, id) ==
    /\ holder' = [holder EXCEPT ![t] = IF id = NoId THEN @ ELSE id]
    /\ UNCHANGED ids

-------------------------------------------------------------------------------
(* The program's own steps                                                 *)

\* The entry method of a new request.
Enter(t, r) ==
    /\ Idle(t)
    /\ r \notin begun
    /\ begun' = begun \union {r}
    /\ stack' = StackWith(t, Frame("main", r, NoId))
    /\ astray' = IF t \in kept THEN astray \union {r} ELSE astray
    /\ UNCHANGED <<queue, inbox, tasks, idVars, fullRate, spanVars, bareTasks>>

\* Any other woven method.
Call(t) ==
    /\ CanCall(t)
    /\ stack' = StackWith(t, Frame("work", Top(t).req, NoId))
    /\ UNCHANGED <<queue, inbox, tasks, idVars, fullRate, spanVars, begun, astray, bareTasks>>

\* callRemoteService: the id goes into the header, whether or not the request
\* reaches the service. (Equal requests that wait together count once.)
RemoteCall(t, reaches) ==
    /\ CanCall(t)
    /\ Cardinality(inbox) < MaxWaiting
    /\ Get(t)
    /\ inbox' = IF reaches THEN inbox \union {Carried(Top(t).req, IdOf(t))} ELSE inbox
    /\ stack' = StackWith(t, Frame("remote", Top(t).req, NoId))
    /\ UNCHANGED <<queue, tasks, fullRate, spanVars, begun, astray, bareTasks>>

Enqueue(r, id) ==
    /\ tasks < MaxTasks
    /\ tasks' = tasks + 1
    /\ queue' = Append(queue, Carried(r, id))

\* ThreadPoolInterceptor: the wrapper takes the submitter's id, made now if need be. A
\* task that is wrapped twice, by submit and by execute, behaves as if it were once.
Submit(t) ==
    /\ CanCall(t)
    /\ Get(t)
    /\ Enqueue(Top(t).req, IdOf(t))
    /\ UNCHANGED <<stack, inbox, fullRate, spanVars, begun, astray, bareTasks>>

\* execute throws, because the pool has no room just then or its weaving is at fault, or
\* the executor is not a ThreadPoolExecutor; zuper.call() then submits the bare task.
SubmitUnwrapped(t) ==
    /\ CanCall(t)
    /\ Get(t)
    /\ Enqueue(Top(t).req, NoId)
    /\ UNCHANGED <<stack, inbox, fullRate, spanVars, begun, astray, bareTasks>>

\* zuper.call() throws, too, which is ignored; or execute, woven itself, intercepts the
\* interceptor's own call until the stack overflows. Only the id is left. (That zuper.call()
\* lets the submitter run the bare task is this step, followed by Call.)
SubmitFails(t) ==
    /\ CanCall(t)
    /\ Get(t)
    /\ UNCHANGED <<programVars, fullRate, spanVars, begun, astray, bareTasks>>

\* Nobody has woven the executor: an AgentBuilder leaves classes of the bootstrap loader,
\* where ThreadPoolExecutor is, alone unless told otherwise, and installing may fail.
SubmitUnseen(t) ==
    /\ CanCall(t)
    /\ Enqueue(Top(t).req, NoId)
    /\ UNCHANGED <<stack, inbox, idVars, fullRate, spanVars, begun, astray, bareTasks>>

\* The pool is full and lets the submitter run the wrapped task (CallerRunsPolicy).
SubmitInline(t) ==
    /\ CanCall(t)
    /\ tasks < MaxTasks
    /\ tasks' = tasks + 1
    /\ Get(t)
    /\ stack' = StackWith(t, Frame("task", Top(t).req, IdOf(t)))
    /\ UNCHANGED <<queue, inbox, fullRate, spanVars, begun, astray, bareTasks>>

\* A task that the submitter runs throws: run cleans up, execute throws the exception on
\* and the interceptor takes it for a refusal. The task is submitted again, bare.
InlineTaskFails(t) ==
    /\ Len(stack[t]) > 1 /\ Top(t).kind = "task"
    /\ stack' = StackWithout(t)
    /\ holder' = [holder EXCEPT ![t] = Top(t).previous]
    /\ Enqueue(Top(t).req, NoId)
    /\ UNCHANGED <<inbox, ids, fullRate, spanVars, begun, astray, bareTasks>>

StartTaskUnset(t) ==                \* mutant: the task's id is not set
    /\ Idle(t)
    /\ queue # <<>> /\ Head(queue).id # NoId
    /\ queue' = Tail(queue)
    /\ stack' = StackWith(t, Frame("task", Head(queue).req, holder[t]))
    /\ UNCHANGED <<inbox, tasks, idVars, fullRate, spanVars, begun, astray, bareTasks>>

\* TraceContextRunnable.run saves the thread's id and sets the task's. (It would make one
\* for a task without; the interceptor wraps none without.)
StartTask(t) ==
    /\ Idle(t)
    /\ queue # <<>> /\ Head(queue).id # NoId
    /\ queue' = Tail(queue)
    /\ stack' = StackWith(t, Frame("task", Head(queue).req, holder[t]))
    /\ SetTo(t, Head(queue).id)
    /\ UNCHANGED <<inbox, tasks, fullRate, spanVars, begun, astray, bareTasks>>

\* A bare task: its methods use the id they find on the thread, or make one and leave it.
StartBareTask(t) ==
    /\ Idle(t)
    /\ queue # <<>> /\ Head(queue).id = NoId
    /\ queue' = Tail(queue)
    /\ stack' = StackWith(t, Frame("bare", Head(queue).req, NoId))
    /\ kept' = kept \union {t}
    /\ astray' = IF holder[t] # NoId THEN astray \union {Head(queue).req} ELSE astray
    /\ bareTasks' = [bareTasks EXCEPT ![Head(queue).req] = @ + 1]
    /\ UNCHANGED <<inbox, tasks, idVars, fullRate, reported, altered, begun>>

EndBareTask(t) ==
    /\ ~Idle(t) /\ Top(t).kind = "bare"
    /\ stack' = StackWithout(t)
    /\ UNCHANGED <<queue, inbox, tasks, idVars, fullRate, spanVars, begun, astray, bareTasks>>

\* A thread at rest is let go, or its last task threw: a new one takes its place.
ThreadReplaced(t) ==
    /\ Idle(t)
    /\ holder' = [holder EXCEPT ![t] = NoId]
    /\ kept' = kept \ {t}
    /\ UNCHANGED <<programVars, ids, fullRate, reported, altered, begun, astray, bareTasks>>

EndTaskRemoves(t) ==                \* mutant: the thread's own id is not restored
    /\ ~Idle(t) /\ Top(t).kind = "task"
    /\ stack' = StackWithout(t)
    /\ holder' = [holder EXCEPT ![t] = NoId]
    /\ UNCHANGED <<queue, inbox, tasks, ids, fullRate, spanVars, begun, astray, bareTasks>>

EndTaskRestores(t) ==               \* mutant: the task's id is not removed first
    /\ ~Idle(t) /\ Top(t).kind = "task"
    /\ stack' = StackWithout(t)
    /\ SetTo(t, Top(t).previous)
    /\ UNCHANGED <<queue, inbox, tasks, fullRate, spanVars, begun, astray, bareTasks>>

\* Its finally block: remove, then set the saved id if there was one.
EndTask(t) ==
    /\ ~Idle(t) /\ Top(t).kind = "task"
    /\ stack' = StackWithout(t)
    /\ holder' = [holder EXCEPT ![t] = Top(t).previous]
    /\ UNCHANGED <<queue, inbox, tasks, ids, fullRate, spanVars, begun, astray, bareTasks>>

\* A client outside the program: no header, or a health check.
ExternalRequest(r) ==
    /\ r \notin begun
    /\ begun' = begun \union {r}
    /\ inbox' = inbox \union {Carried(r, NoId)}
    /\ UNCHANGED <<stack, queue, tasks, idVars, fullRate, spanVars, astray, bareTasks>>

\* QueryHandler, ProcessHandler: a header is set; without one the holder is left
\* alone, with the id of an earlier request in it. HealthHandler reads no header.
Handle(m) ==
    /\ Idle(Dispatcher)
    /\ inbox' = inbox \ {m}
    /\ stack' = StackWith(Dispatcher, Frame("handle", m.req, NoId))
    /\ SetTo(Dispatcher, m.id)
    /\ astray' = IF m.id = NoId /\ holder[Dispatcher] # NoId
                 THEN astray \union {m.req} ELSE astray
    /\ UNCHANGED <<queue, tasks, fullRate, spanVars, begun, bareTasks>>

-------------------------------------------------------------------------------
(* LogInterceptor                                                          *)

\* A woven method is about to return on thread t.
Runs(t) == ~Idle(t) /\ Top(t).kind \notin {"task", "bare"}

Outcomes(kind) ==
    CASE kind = "work"   -> {"void", "value", "exception"}
      [] kind = "remote" -> {"value"}           \* it catches everything
      [] OTHER           -> {"void", "exception"}

\* return null in the finally block: no span, no removal, and no outcome.
Skip(t, outcome) ==
    /\ Runs(t)
    /\ ~fullRate
    /\ Get(t)
    /\ stack' = StackWithout(t)
    /\ altered' = (altered \/ outcome # "void")
    /\ kept' = IF Top(t).kind = "main" THEN kept \union {t} ELSE kept
    /\ UNCHANGED <<queue, inbox, tasks, fullRate, reported, begun, astray, bareTasks>>

ReportKeeping(t) ==                 \* mutant: main's id is not removed
    /\ Runs(t)
    /\ stack' = StackWithout(t)
    /\ reported' = reported \union {Carried(Top(t).req, IdOf(t))}
    /\ Get(t)
    /\ kept' = IF Top(t).kind = "main" THEN kept \ {t} ELSE kept
    /\ UNCHANGED <<queue, inbox, tasks, fullRate, altered, begun, astray, bareTasks>>

\* The span is sent; main ends the request on this thread.
Report(t) ==
    /\ Runs(t)
    /\ stack' = StackWithout(t)
    /\ reported' = reported \union {Carried(Top(t).req, IdOf(t))}
    /\ IF Top(t).kind = "main"
       THEN /\ holder' = [holder EXCEPT ![t] = NoId]
            /\ ids' = IF holder[t] = NoId THEN ids + 1 ELSE ids
            /\ kept' = kept \ {t}
       ELSE /\ Get(t)
            /\ UNCHANGED kept
    /\ UNCHANGED <<queue, inbox, tasks, fullRate, altered, begun, astray, bareTasks>>

\* A command of the server changes the application's rate.
RateChanges ==
    /\ fullRate' = ~fullRate
    /\ UNCHANGED <<programVars, idVars, spanVars, begun, astray, bareTasks>>

Next ==
    \/ \E t \in Callers, r \in Requests : Enter(t, r)
    \/ \E t \in Threads :
          \/ Call(t)
          \/ Submit(t)
          \/ SubmitUnwrapped(t)
          \/ SubmitFails(t)
          \/ SubmitUnseen(t)
          \/ SubmitInline(t)
          \/ InlineTaskFails(t)
          \/ EndTask(t)
          \/ EndBareTask(t)
          \/ Report(t)
          \/ \E reaches \in BOOLEAN : RemoteCall(t, reaches)
          \/ ~Idle(t) /\ \E outcome \in Outcomes(Top(t).kind) : Skip(t, outcome)
    \/ \E t \in PoolThreads : StartTask(t) \/ StartBareTask(t) \/ ThreadReplaced(t)
    \/ \E r \in Requests : ExternalRequest(r)
    \/ \E m \in inbox : Handle(m)
    \/ RateChanges

Spec == Init /\ [][Next]_vars

-------------------------------------------------------------------------------
(* Properties                                                              *)

Kinds == {"main", "work", "remote", "handle", "task", "bare"}
Frames == [kind : Kinds, req : Requests, previous : 0..ids]
Items == [req : Requests, id : 0..ids]

Types ==
    /\ holder \in [Threads -> 0..ids]
    /\ stack \in [Threads -> Seq(Frames)]
    /\ queue \in Seq(Items)
    /\ inbox \subseteq Items
    /\ ids \in Nat
    /\ fullRate \in BOOLEAN
    /\ reported \subseteq Items
    /\ begun \subseteq Requests
    /\ kept \subseteq Threads
    /\ astray \subseteq Requests
    /\ bareTasks \in [Requests -> Nat]
    /\ altered \in BOOLEAN
    /\ tasks \in 0..MaxTasks

\* Types; the dispatcher runs neither main nor tasks of the pool, only requests that
\* entered go astray, and a wrapped task runs with an id in the holder.
TypeOK ==
    /\ Types
    /\ kept \subseteq Callers \union PoolThreads
    /\ astray \subseteq begun
    /\ \A t \in Threads : ~Idle(t) /\ Top(t).kind = "task" => holder[t] # NoId

\* The ids that stand for request r anywhere: in its spans, in the holder of a thread
\* that works for it, in its waiting tasks and its HTTP headers.
IdsFor(r) ==
    ({s.id : s \in {x \in reported \union inbox \union ToSet(queue) : x.req = r}}
     \union {holder[t] : t \in {u \in Threads : ~Idle(u) /\ Top(u).req = r}}) \ {NoId}

\* "the data of both services carry the same traceId" (RemoteServiceClient.java:20): all
\* spans of a request have one id, through nested calls, pool threads, tasks that
\* outlive main or run in the submitter's thread, and HTTP, at any sampling rate; only
\* a task that runs bare may add another.
OneIdPerRequest == \A r \in Requests : Cardinality(IdsFor(r)) <= 1 + bareTasks[r]

\* Two requests share an id only if one of them met a holder that nobody had cleared:
\* after an unsampled main, after a bare task, or without a header on the dispatcher.
IdsApart ==
    \A r, q \in Requests \ astray : r # q => IdsFor(r) \intersect IdsFor(q) = {}

\* A thread that has gone back to the pool takes no id along, unless it ran a bare task,
\* nor does a caller whose main was sampled: "prevents leaks with thread pools"
\* (TraceHolder.java:41).
ThreadsClean ==
    \A t \in Threads \ {Dispatcher} : Idle(t) /\ t \notin kept => holder[t] = NoId

\* "the business code notices nothing": a woven method returns what the plain
\* method returns and throws what it throws.
OutcomeUnchanged == ~altered
===============================================================================
