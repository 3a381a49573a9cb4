-------------------------- MODULE TraceContextProofs ---------------------------
(***************************************************************************)
(* Proofs about TraceContext, for any threads, requests and bounds.        *)
(***************************************************************************)
EXTENDS TraceContext, FiniteSetTheorems, SequenceTheorems, TLAPS

-------------------------------------------------------------------------------
(* The inductive invariant                                                 *)

Busy(t, r) == ~Idle(t) /\ Top(t).req = r

\* The innermost frame comes first. All frames of a thread work for one request; the
\* outermost is what the thread is for, and has an id to restore, or is bare, only on a
\* thread of K. Above it, a task was run inline and has an id to restore.
BaseKinds(t) ==
    IF t \in Callers THEN {"main"} ELSE IF t \in PoolThreads THEN {"task", "bare"} ELSE {"handle"}

Sound(t, s, K) ==
    \A i \in DOMAIN s :
        /\ s[i].req = s[1].req
        /\ i = Len(s) => /\ s[i].kind \in BaseKinds(t)
                         /\ s[i].kind = "bare" \/ s[i].previous # NoId => t \in K
        /\ i # Len(s) => /\ s[i].kind \notin {"main", "bare"}
                         /\ s[i].kind = "task" => s[i].previous # NoId

SoundStacks == \A t \in Threads : Sound(t, stack[t], kept)

\* A thread in the middle of a wrapped task has an id.
InTask(t) == \E i \in DOMAIN stack[t] : stack[t][i].kind = "task"
TasksHaveIds == \A t \in Threads : InTask(t) => holder[t] # NoId

\* Spans, HTTP requests under way and waiting tasks.
AllItems == reported \union inbox \union ToSet(queue)

\* Everything is for a request that entered.
Marked ==
    /\ astray \subseteq begun
    /\ \A x \in AllItems : x.req \in begun
    /\ \A t \in Threads, r \in Requests : Busy(t, r) => r \in begun

\* A frame of the thread will put this id back for the request.
Restores(t, id) == \E i \in DOMAIN stack[t] : i # Len(stack[t]) /\ stack[t][i].previous = id

\* The places an id is kept in for request r: spans, headers, tasks, the holder of a
\* thread at work, and its frames.
Carries(r, id) ==
    /\ id # NoId
    /\ \/ Carried(r, id) \in AllItems
       \/ \E t \in Threads : Busy(t, r) /\ (holder[t] = id \/ Restores(t, id))

\* A thread at work for request r has no id: it will make one.
Wants(t, r) == Busy(t, r) /\ holder[t] = NoId

\* What each id of a request is, or will be, made for: the ids it has, the threads that
\* will make one, and an HTTP request without one. Entering allows for one of them, and
\* each bare task for another.
IdClaim(id) == <<"id", id>>
ThreadClaim(t) == <<"thread", t>>
HttpClaim == <<"http", 0>>

Claims(r) ==
    {IdClaim(id) : id \in {i \in 1..ids : Carries(r, i)}}
    \union {ThreadClaim(t) : t \in {u \in Threads : Wants(u, r)}}
    \union (IF Carried(r, NoId) \in inbox THEN {HttpClaim} ELSE {})

Allowed(r) == (IF r \in begun THEN 1 ELSE 0) + bareTasks[r]

Budget == \A r \in Requests : IsFiniteSet(Claims(r)) /\ Cardinality(Claims(r)) <= Allowed(r)

Apart ==
    \A r, q \in Requests \ astray : \A i \in 1..ids :
        Carries(r, i) /\ Carries(q, i) => r = q

\* Where the threads are, and what those at rest or in a task have in the holder.
Places == SoundStacks /\ kept \subseteq Callers \union PoolThreads /\ ThreadsClean /\ TasksHaveIds

Core == Types /\ Places

IdInv == Core /\ Marked /\ Budget /\ Apart

-------------------------------------------------------------------------------
(* Stacks and queues                                                       *)

\* A stack with a frame put on top of it.
LEMMA Pushing ==
    ASSUME NEW S, NEW s \in Seq(S), NEW f \in S
    PROVE  /\ <<f>> \o s \in Seq(S)
           /\ <<f>> \o s # <<>>
           /\ Head(<<f>> \o s) = f
           /\ Len(s) \in Nat
           /\ Len(<<f>> \o s) = Len(s) + 1
           /\ DOMAIN s = 1..Len(s)
           /\ DOMAIN (<<f>> \o s) = 1..Len(s) + 1
           /\ (<<f>> \o s)[1] = f
           /\ \A i \in DOMAIN s : (<<f>> \o s)[i + 1] = s[i]
OBVIOUS

\* A sequence without its head.
LEMMA Popping ==
    ASSUME NEW S, NEW s \in Seq(S), s # <<>>
    PROVE  /\ Head(s) = s[1] /\ 1 \in DOMAIN s /\ Head(s) \in S
           /\ Tail(s) \in Seq(S)
           /\ Len(s) \in Nat \ {0}
           /\ DOMAIN s = 1..Len(s)
           /\ Len(Tail(s)) = Len(s) - 1
           /\ DOMAIN Tail(s) = 1..Len(s) - 1
           /\ \A i \in DOMAIN Tail(s) : Tail(s)[i] = s[i + 1]
           /\ Tail(s) # <<>> => Head(Tail(s)) = s[2]
           /\ Tail(s) = <<>> <=> Len(s) = 1
<1>1. /\ Head(s) = s[1] /\ 1 \in DOMAIN s /\ Head(s) \in S
      /\ Tail(s) \in Seq(S)
      /\ Len(s) \in Nat \ {0}
      /\ DOMAIN s = 1..Len(s)
      /\ Len(Tail(s)) = Len(s) - 1
      /\ DOMAIN Tail(s) = 1..Len(s) - 1
      /\ \A i \in DOMAIN Tail(s) : Tail(s)[i] = s[i + 1]
      /\ Tail(s) # <<>> => Head(Tail(s)) = s[2]
  OBVIOUS
<1>2. Tail(s) = <<>> <=> Len(Tail(s)) = 0
  BY <1>1, EmptySeq
<1>3. Len(Tail(s)) = 0 <=> Len(s) = 1
  BY <1>1
<1>4. QED
  BY <1>1, <1>2, <1>3

\* What a queue holds after an item is added.
LEMMA Queueing ==
    ASSUME NEW S, NEW q \in Seq(S), NEW x \in S
    PROVE  /\ Append(q, x) \in Seq(S)
           /\ ToSet(Append(q, x)) = ToSet(q) \union {x}
<1>1. /\ DOMAIN q = 1..Len(q) /\ Len(q) \in Nat
      /\ DOMAIN Append(q, x) = 1..Len(q) + 1
      /\ \A i \in DOMAIN q : Append(q, x)[i] = q[i]
      /\ Append(q, x)[Len(q) + 1] = x
  OBVIOUS
<1>2. 1..Len(q) + 1 = DOMAIN q \union {Len(q) + 1}
  BY <1>1
<1>3. ToSet(Append(q, x)) = ToSet(q) \union {x}
  BY <1>1, <1>2 DEF ToSet
<1>4. QED
  BY <1>3

\* A queue holds its head and what its tail holds.
LEMMA Dequeueing ==
    ASSUME NEW S, NEW q \in Seq(S), q # <<>>
    PROVE  Head(q) \in ToSet(q) /\ ToSet(Tail(q)) \subseteq ToSet(q)
<1>1. /\ Head(q) = q[1] /\ 1 \in DOMAIN q /\ Len(q) \in Nat \ {0}
      /\ DOMAIN q = 1..Len(q) /\ DOMAIN Tail(q) = 1..Len(q) - 1
      /\ \A i \in DOMAIN Tail(q) : Tail(q)[i] = q[i + 1]
  BY Popping
<1>2. \A i \in DOMAIN Tail(q) : i + 1 \in DOMAIN q
  BY <1>1
<1>3. QED
  BY <1>1, <1>2 DEF ToSet

-------------------------------------------------------------------------------
(* Type correctness                                                        *)

\* What was an id stays one when more are generated.
LEMMA IdsGrow ==
    ASSUME ids \in Nat, ids' \in Nat, ids <= ids'
    PROVE  /\ 0..ids \subseteq 0..ids'
           /\ Items \subseteq Items' /\ Frames \subseteq Frames'
           /\ Seq(Items) \subseteq Seq(Items') /\ Seq(Frames) \subseteq Seq(Frames')
<1>1. 0..ids \subseteq 0..ids'
  OBVIOUS
<1>2. Items \subseteq Items' /\ Frames \subseteq Frames'
  BY <1>1 DEF Items, Frames
<1>3. QED
  BY <1>1, <1>2

\* get returns an id and leaves one in the holder.
LEMMA GetTypes ==
    ASSUME Types, NEW t \in Threads, Get(t)
    PROVE  /\ ids' \in Nat /\ ids <= ids'
           /\ IdOf(t) \in 1..ids'
           /\ holder' \in [Threads -> 0..ids']
<1>1. holder[t] \in 0..ids /\ ids \in Nat
  BY DEF Types
<1>2. ids' \in Nat /\ ids <= ids' /\ IdOf(t) \in 1..ids'
  BY <1>1 DEF Get, IdOf, NoId
<1>3. 0..ids \subseteq 0..ids' /\ IdOf(t) \in 0..ids'
  BY <1>1, <1>2
<1>4. holder' \in [Threads -> 0..ids']
  BY <1>3 DEF Types, Get
<1>5. QED
  BY <1>2, <1>4

\* The types of the parts a step leaves alone when the ids grow.
LEMMA TypesGrow ==
    ASSUME Types, ids' \in Nat, ids <= ids'
    PROVE  /\ stack \in [Threads -> Seq(Frames')]
           /\ queue \in Seq(Items')
           /\ inbox \subseteq Items' /\ reported \subseteq Items'
           /\ holder \in [Threads -> 0..ids']
<1>1. ids \in Nat
  BY DEF Types
<1>2. /\ Seq(Items) \subseteq Seq(Items') /\ Seq(Frames) \subseteq Seq(Frames')
      /\ Items \subseteq Items' /\ 0..ids \subseteq 0..ids'
  BY <1>1, IdsGrow
<1>3. QED
  BY <1>2 DEF Types

\* The frame on top of a busy thread.
LEMMA TopTypes ==
    ASSUME Types, NEW t \in Threads, ~Idle(t)
    PROVE  /\ Top(t) \in Frames /\ Top(t) = stack[t][1]
           /\ Top(t).req \in Requests /\ Top(t).previous \in 0..ids
           /\ StackWithout(t) \in [Threads -> Seq(Frames)]
<1>1. stack[t] \in Seq(Frames) /\ stack[t] # <<>>
  BY DEF Types, Idle
<1>2. Top(t) \in Frames /\ Top(t) = stack[t][1] /\ Tail(stack[t]) \in Seq(Frames)
  BY <1>1, Popping DEF Top
<1>3. QED
  BY <1>2 DEF Types, StackWithout, Frames

\* A frame put on top of a thread.
LEMMA StackTypes ==
    ASSUME Types, ids' \in Nat, ids <= ids', NEW t \in Threads,
           NEW kind \in Kinds,
           NEW r \in Requests, NEW id \in 0..ids'
    PROVE  StackWith(t, Frame(kind, r, id)) \in [Threads -> Seq(Frames')]
<1>1. Frame(kind, r, id) \in Frames'
  BY DEF Frame, Frames, Kinds
<1>2. stack \in [Threads -> Seq(Frames')]
  BY TypesGrow
<1>3. <<Frame(kind, r, id)>> \o stack[t] \in Seq(Frames')
  BY <1>1, <1>2, Pushing
<1>4. QED
  BY <1>2, <1>3 DEF StackWith

\* The steps in which a thread asks the holder for its id.
Asks(t) ==
    \/ Submit(t) \/ SubmitUnwrapped(t) \/ SubmitFails(t) \/ SubmitInline(t) \/ Report(t)
    \/ \E reaches \in BOOLEAN : RemoteCall(t, reaches)
    \/ ~Idle(t) /\ \E outcome \in Outcomes(Top(t).kind) : Skip(t, outcome)

\* What they do to the holder: only main leaves it empty.
LEMMA Asking ==
    ASSUME Types, NEW t \in Threads, Asks(t)
    PROVE  /\ ids' = IF holder[t] = NoId THEN ids + 1 ELSE ids
           /\ ids' \in Nat /\ ids <= ids' /\ IdOf(t) \in 1..ids'
           /\ holder' \in [Threads -> 0..ids']
           /\ \A u \in Threads \ {t} : holder'[u] = holder[u]
           /\ holder'[t] = IF Report(t) /\ Top(t).kind = "main" THEN NoId ELSE IdOf(t)
<1> USE DEF NoId
<1>1. CASE Report(t) /\ Top(t).kind = "main"
  <2>1. holder[t] \in 0..ids /\ ids \in Nat /\ holder \in [Threads -> 0..ids]
    BY DEF Types
  <2>2. /\ holder' = [holder EXCEPT ![t] = 0]
        /\ ids' = IF holder[t] = 0 THEN ids + 1 ELSE ids
    BY <1>1 DEF Report
  <2>3. ids' \in Nat /\ ids <= ids' /\ IdOf(t) \in 1..ids'
    BY <2>1, <2>2 DEF IdOf
  <2>4. holder \in [Threads -> 0..ids'] /\ 0 \in 0..ids'
    BY <2>3, TypesGrow
  <2>5. QED
    BY <1>1, <2>1, <2>2, <2>3, <2>4
<1>2. CASE ~(Report(t) /\ Top(t).kind = "main")
  <2>1. Get(t)
    BY <1>2 DEF Asks, Submit, SubmitUnwrapped, SubmitFails, SubmitInline, RemoteCall, Skip,
                Report
  <2>2. holder' = [holder EXCEPT ![t] = IdOf(t)] /\ holder \in [Threads -> 0..ids]
    BY <2>1 DEF Get, Types
  <2>3. QED
    BY <1>2, <2>1, <2>2, GetTypes DEF Get
<1>3. QED
  BY <1>1, <1>2

\* They keep the types.
LEMMA AskingTypes ==
    ASSUME Types, NEW t \in Threads, Asks(t)
    PROVE  Types'
<1> USE TraceAssumption DEF NoId
<1>1. /\ ids' \in Nat /\ ids <= ids' /\ IdOf(t) \in 1..ids'
      /\ holder' \in [Threads -> 0..ids']
  BY Asking
<1>2. /\ stack \in [Threads -> Seq(Frames')] /\ queue \in Seq(Items')
      /\ inbox \subseteq Items' /\ reported \subseteq Items'
  BY <1>1, TypesGrow
<1>3. ~Idle(t)
  BY DEF Asks, Submit, SubmitUnwrapped, SubmitFails, SubmitInline, RemoteCall, Skip, Report,
         Runs, CanCall
<1>4. Top(t).req \in Requests
  BY <1>3, TopTypes
<1>5. IdOf(t) \in 0..ids' /\ 0 \in 0..ids'
  BY <1>1
<1>6. Carried(Top(t).req, IdOf(t)) \in Items' /\ Carried(Top(t).req, 0) \in Items'
  BY <1>4, <1>5 DEF Carried, Items
<1>7. /\ UNCHANGED <<fullRate, begun, astray, bareTasks>>
      /\ altered' \in BOOLEAN /\ tasks' \in 0..MaxTasks
  <2>1. UNCHANGED <<fullRate, begun, astray, bareTasks>>
    BY DEF Asks, Submit, SubmitUnwrapped, SubmitFails, SubmitInline, RemoteCall, Skip, Report
  <2>2. altered' = altered \/ \E outcome : altered' = (altered \/ outcome # "void")
    BY DEF Asks, Submit, SubmitUnwrapped, SubmitFails, SubmitInline, RemoteCall, Skip,
           Report, spanVars
  <2>3. tasks' = tasks \/ (tasks < MaxTasks /\ tasks' = tasks + 1)
    BY DEF Asks, Submit, SubmitUnwrapped, SubmitFails, SubmitInline, RemoteCall, Skip,
           Report, Enqueue, programVars
  <2>4. altered \in BOOLEAN /\ tasks \in 0..MaxTasks
    BY DEF Types
  <2>5. tasks' \in 0..MaxTasks
    BY <2>3, <2>4
  <2>6. QED
    BY <2>1, <2>2, <2>4, <2>5
<1>8. stack' \in [Threads -> Seq(Frames')]
  <2>1. StackWithout(t) \in [Threads -> Seq(Frames')]
    <3>1. Seq(Frames) \subseteq Seq(Frames')
      BY <1>1, IdsGrow DEF Types
    <3>2. QED
      BY <1>3, <3>1, TopTypes
  <2>2. /\ StackWith(t, Frame("remote", Top(t).req, 0)) \in [Threads -> Seq(Frames')]
        /\ StackWith(t, Frame("task", Top(t).req, IdOf(t))) \in [Threads -> Seq(Frames')]
    BY <1>1, <1>4, <1>5, StackTypes DEF Kinds
  <2>3. \/ stack' = stack \/ stack' = StackWithout(t)
        \/ stack' = StackWith(t, Frame("remote", Top(t).req, 0))
        \/ stack' = StackWith(t, Frame("task", Top(t).req, IdOf(t)))
    BY DEF Asks, Submit, SubmitUnwrapped, SubmitFails, SubmitInline, RemoteCall, Skip,
           Report, programVars
  <2>4. QED
    BY <1>2, <2>1, <2>2, <2>3
<1>9. queue' \in Seq(Items')
  <2>1. \A id \in {0, IdOf(t)} : Append(queue, Carried(Top(t).req, id)) \in Seq(Items')
    BY <1>2, <1>6, Queueing
  <2>2. \/ queue' = queue
        \/ \E id \in {0, IdOf(t)} : queue' = Append(queue, Carried(Top(t).req, id))
    BY DEF Asks, Submit, SubmitUnwrapped, SubmitFails, SubmitInline, RemoteCall, Skip,
           Report, Enqueue, programVars
  <2>3. QED
    BY <1>2, <2>1, <2>2
<1>10. inbox' \subseteq Items' /\ reported' \subseteq Items'
  BY <1>2, <1>6
  DEF Asks, Submit, SubmitUnwrapped, SubmitFails, SubmitInline, RemoteCall, Skip, Report,
      spanVars, programVars
<1>11. kept' \subseteq Threads
  BY DEF Asks, Submit, SubmitUnwrapped, SubmitFails, SubmitInline, RemoteCall, Skip,
         Report, Types, spanVars
<1>12. QED
  BY <1>1, <1>7, <1>8, <1>9, <1>10, <1>11 DEF Types

\* A task that ends puts back the id its wrapper saved.
EndsTask(t) ==
    /\ ~Idle(t) /\ Top(t).kind = "task"
    /\ stack' = StackWithout(t)
    /\ holder' = [holder EXCEPT ![t] = Top(t).previous]
    /\ UNCHANGED <<inbox, ids, fullRate, spanVars, begun, astray, bareTasks>>

LEMMA EndingTask ==
    ASSUME Types, NEW t \in Threads, EndTask(t) \/ InlineTaskFails(t)
    PROVE  EndsTask(t)
<1>1. CASE EndTask(t)
  BY <1>1 DEF EndTask, EndsTask
<1>2. CASE InlineTaskFails(t)
  <2>1. stack[t] \in Seq(Frames) /\ Len(stack[t]) > 1
    BY <1>2 DEF Types, InlineTaskFails
  <2>2. ~Idle(t)
    BY <2>1 DEF Idle
  <2>3. QED
    BY <1>2, <2>2 DEF InlineTaskFails, EndsTask
<1>3. QED
  BY <1>1, <1>2

\* A task that is queued, bare or wrapped.
LEMMA QueuedTypes ==
    ASSUME Types, NEW t \in Threads, ~Idle(t), Enqueue(Top(t).req, NoId)
    PROVE  /\ queue' \in Seq(Items) /\ tasks' \in 0..MaxTasks
           /\ ToSet(queue') = ToSet(queue) \union {Carried(Top(t).req, NoId)}
<1>1. Top(t).req \in Requests /\ ids \in Nat
  BY TopTypes DEF Types
<1>2. Carried(Top(t).req, NoId) \in Items
  BY <1>1 DEF Carried, Items, NoId
<1>3. /\ queue' \in Seq(Items)
      /\ ToSet(queue') = ToSet(queue) \union {Carried(Top(t).req, NoId)}
  BY <1>2, Queueing DEF Enqueue, Types
<1>4. tasks' \in 0..MaxTasks
  BY TraceAssumption DEF Enqueue, Types
<1>5. QED
  BY <1>3, <1>4

\* So do the steps that generate no id: those that put no frame on a stack ...
LEMMA LeavingTypes ==
    ASSUME Types, NEW t \in Threads,
           \/ EndTask(t) \/ InlineTaskFails(t) \/ EndBareTask(t) \/ SubmitUnseen(t)
           \/ ThreadReplaced(t)
    PROVE  Types'
<1>1. ids' = ids /\ ids \in Nat /\ Frames' = Frames /\ Items' = Items
  BY DEF Types, EndTask, InlineTaskFails, EndBareTask, SubmitUnseen, ThreadReplaced, idVars,
         Frames, Items
<1>2. CASE EndTask(t) \/ InlineTaskFails(t)
  <2>1. EndsTask(t)
    BY <1>2, EndingTask
  <2>2. stack' \in [Threads -> Seq(Frames)] /\ Top(t).previous \in 0..ids
    BY <2>1, TopTypes DEF EndsTask
  <2>3. holder' \in [Threads -> 0..ids]
    BY <2>1, <2>2 DEF Types, EndsTask
  <2>4. queue' \in Seq(Items) /\ tasks' \in 0..MaxTasks
    <3>1. CASE EndTask(t)
      BY <3>1 DEF Types, EndTask
    <3>2. CASE InlineTaskFails(t)
      BY <2>1, <3>2, QueuedTypes DEF InlineTaskFails, EndsTask
    <3>3. QED
      BY <1>2, <3>1, <3>2
  <2>5. QED
    BY <1>1, <2>1, <2>2, <2>3, <2>4 DEF Types, EndsTask, spanVars
<1>3. CASE EndBareTask(t)
  <2>1. stack' \in [Threads -> Seq(Frames)]
    BY <1>3, TopTypes DEF EndBareTask
  <2>2. UNCHANGED <<holder, queue, inbox, fullRate, reported, kept, altered, begun, astray,
                    bareTasks, tasks>>
    BY <1>3 DEF EndBareTask, idVars, spanVars
  <2>3. QED
    BY <1>1, <2>1, <2>2 DEF Types
<1>4. CASE SubmitUnseen(t)
  <2>1. queue' \in Seq(Items) /\ tasks' \in 0..MaxTasks
    BY <1>4, QueuedTypes DEF SubmitUnseen, CanCall
  <2>2. UNCHANGED <<holder, stack, inbox, fullRate, reported, kept, altered, begun, astray,
                    bareTasks>>
    BY <1>4 DEF SubmitUnseen, idVars, spanVars
  <2>3. QED
    BY <1>1, <2>1, <2>2 DEF Types
<1>5. CASE ThreadReplaced(t)
  <2>1. holder' \in [Threads -> 0..ids] /\ kept' \subseteq Threads
    BY <1>1, <1>5 DEF Types, ThreadReplaced, NoId
  <2>2. UNCHANGED <<stack, queue, inbox, fullRate, reported, altered, begun, astray,
                    bareTasks, tasks>>
    BY <1>5 DEF ThreadReplaced, programVars
  <2>3. QED
    BY <1>1, <2>1, <2>2 DEF Types
<1>6. QED
  BY <1>2, <1>3, <1>4, <1>5

\* ... those that put one on it ...
LEMMA OtherTypes ==
    ASSUME Types,
           \/ \E t \in Callers, r \in Requests : Enter(t, r)
           \/ \E t \in Threads : Call(t)
           \/ \E r \in Requests : ExternalRequest(r)
           \/ \E m \in inbox : Handle(m)
           \/ RateChanges
           \/ UNCHANGED vars
    PROVE  Types'
<1> USE TraceAssumption DEF NoId
<1>1. ids' = ids /\ ids \in Nat /\ Frames' = Frames /\ Items' = Items
  BY DEF Types, Enter, Call, ExternalRequest, Handle, SetTo, RateChanges, vars, idVars,
         Frames, Items
<1>2. ASSUME NEW t \in Callers, NEW r \in Requests, Enter(t, r)
      PROVE  Types'
  <2>1. stack' \in [Threads -> Seq(Frames)]
    <3>1. 0 \in 0..ids' /\ ids <= ids' /\ t \in Threads
      BY <1>1 DEF Threads
    <3>2. QED
      BY <1>1, <1>2, <3>1, StackTypes DEF Enter, Kinds
  <2>2. QED
    BY <1>1, <1>2, <2>1 DEF Types, Enter, idVars, spanVars
<1>3. ASSUME NEW t \in Threads, Call(t)
      PROVE  Types'
  <2>1. Top(t).req \in Requests
    BY <1>3, TopTypes DEF Call, CanCall
  <2>2. stack' \in [Threads -> Seq(Frames)]
    <3>1. 0 \in 0..ids' /\ ids <= ids'
      BY <1>1
    <3>2. QED
      BY <1>1, <1>3, <2>1, <3>1, StackTypes DEF Call, Kinds
  <2>3. QED
    BY <1>1, <1>3, <2>2 DEF Types, Call, idVars, spanVars
<1>4. ASSUME NEW r \in Requests, ExternalRequest(r)
      PROVE  Types'
  <2>1. Carried(r, NoId) \in Items
    BY <1>1 DEF Carried, Items
  <2>2. QED
    BY <1>1, <1>4, <2>1 DEF Types, ExternalRequest, idVars, spanVars
<1>5. ASSUME NEW m \in inbox, Handle(m)
      PROVE  Types'
  <2>1. m.req \in Requests /\ m.id \in 0..ids
    BY DEF Types, Items
  <2>2. stack' \in [Threads -> Seq(Frames)]
    <3>1. 0 \in 0..ids' /\ ids <= ids' /\ Dispatcher \in Threads
      BY <1>1 DEF Threads
    <3>2. QED
      BY <1>1, <1>5, <2>1, <3>1, StackTypes DEF Handle, Kinds
  <2>3. holder' \in [Threads -> 0..ids]
    BY <1>5, <2>1 DEF Types, Handle, SetTo
  <2>4. inbox' \subseteq Items
    BY <1>5 DEF Types, Handle
  <2>5. astray' \subseteq Requests
    BY <1>5, <2>1 DEF Types, Handle
  <2>6. UNCHANGED <<queue, fullRate, reported, begun, kept, altered, tasks, bareTasks>>
    BY <1>5 DEF Handle, spanVars
  <2>7. QED
    BY <1>1, <2>2, <2>3, <2>4, <2>5, <2>6 DEF Types
<1>6. CASE RateChanges
  BY <1>1, <1>6 DEF Types, RateChanges, programVars, idVars, spanVars
<1>7. CASE UNCHANGED vars
  BY <1>1, <1>7 DEF Types, vars, programVars, idVars, spanVars
<1>8. QED
  BY <1>2, <1>3, <1>4, <1>5, <1>6, <1>7

\* ... and a pool thread that takes a task.
LEMMA StartTaskTypes ==
    ASSUME Types, NEW t \in PoolThreads, StartTask(t) \/ StartBareTask(t)
    PROVE  /\ Types'
           /\ t \in Threads /\ Head(queue) \in Items /\ Head(queue) \in ToSet(queue)
           /\ ToSet(queue') \subseteq ToSet(queue)
<1> USE DEF NoId
<1>1. /\ t \in Threads /\ queue # <<>> /\ queue \in Seq(Items) /\ queue' = Tail(queue)
      /\ ids' = ids /\ ids \in Nat /\ Frames' = Frames /\ Items' = Items
  BY DEF Threads, StartTask, StartBareTask, SetTo, idVars, Types, Frames, Items
<1>2. Head(queue) \in Items /\ Tail(queue) \in Seq(Items)
  BY <1>1, Popping
<1>3. Head(queue).req \in Requests /\ Head(queue).id \in 0..ids
  BY <1>2 DEF Items
<1>4. Head(queue) \in ToSet(queue) /\ ToSet(queue') \subseteq ToSet(queue)
  BY <1>1, Dequeueing
<1>5. CASE StartTask(t)
  <2>1. stack' \in [Threads -> Seq(Frames)]
    <3>1. holder[t] \in 0..ids' /\ ids <= ids'
      BY <1>1 DEF Types
    <3>2. QED
      BY <1>1, <1>3, <1>5, <3>1, StackTypes DEF StartTask, Kinds
  <2>2. holder' \in [Threads -> 0..ids]
    BY <1>3, <1>5 DEF StartTask, SetTo, Types
  <2>3. UNCHANGED <<inbox, tasks, fullRate, reported, kept, altered, begun, astray, bareTasks>>
    BY <1>5 DEF StartTask, spanVars
  <2>4. QED
    BY <1>1, <1>2, <1>4, <2>1, <2>2, <2>3 DEF Types
<1>6. CASE StartBareTask(t)
  <2>1. stack' \in [Threads -> Seq(Frames)]
    <3>1. 0 \in 0..ids' /\ ids <= ids'
      BY <1>1
    <3>2. QED
      BY <1>1, <1>3, <1>6, <3>1, StackTypes DEF StartBareTask, Kinds
  <2>2. kept' \subseteq Threads /\ astray' \subseteq Requests
    BY <1>1, <1>3, <1>6 DEF StartBareTask, Types
  <2>3. bareTasks' \in [Requests -> Nat]
    BY <1>3, <1>6 DEF StartBareTask, Types
  <2>4. UNCHANGED <<holder, inbox, tasks, fullRate, reported, altered, begun>>
    BY <1>6 DEF StartBareTask, idVars
  <2>5. QED
    BY <1>1, <1>2, <1>4, <2>1, <2>2, <2>3, <2>4 DEF Types
<1>7. QED
  BY <1>5, <1>6

\* Every step keeps the types.
LEMMA NextTypes == Types /\ [Next]_vars => Types'
<1> SUFFICES ASSUME Types, [Next]_vars
             PROVE  Types'
  OBVIOUS
<1>1. ASSUME NEW t \in PoolThreads, StartTask(t) \/ StartBareTask(t) \/ ThreadReplaced(t)
      PROVE  Types'
  <2>1. t \in Threads
    BY DEF Threads
  <2>2. QED
    BY <1>1, <2>1, StartTaskTypes, LeavingTypes
<1>2. QED
  BY <1>1, AskingTypes, LeavingTypes, OtherTypes DEF Next, Asks

\* They hold at first.
LEMMA InitTypes == Init => Types
<1> SUFFICES ASSUME Init
             PROVE  Types
  OBVIOUS
<1>1. /\ holder \in [Threads -> 0..ids] /\ ids \in Nat
      /\ stack \in [Threads -> Seq(Frames)] /\ queue \in Seq(Items)
  BY DEF Init, NoId
<1>2. /\ inbox = {} /\ fullRate \in BOOLEAN /\ reported = {} /\ begun = {} /\ kept = {}
      /\ astray = {} /\ altered \in BOOLEAN /\ tasks \in 0..MaxTasks
      /\ bareTasks \in [Requests -> Nat]
  <2>1. tasks = 0 /\ MaxTasks \in Nat
    BY TraceAssumption DEF Init
  <2>2. tasks \in 0..MaxTasks
    BY <2>1
  <2>3. QED
    BY <2>2 DEF Init
<1>3. QED
  BY <1>1, <1>2 DEF Types

-------------------------------------------------------------------------------
(* What threads are in the middle of                                       *)

\* A frame put on a sound stack for the same request, other than main or a bare task,
\* with an id to restore if it is a task.
LEMMA PushIsSound ==
    ASSUME Types, NEW K, NEW t \in Threads, ~Idle(t), Sound(t, stack[t], K),
           NEW kind \in {"work", "remote", "task"}, NEW id,
           Frame(kind, Top(t).req, id) \in Frames', kind = "task" => id # NoId,
           stack' = StackWith(t, Frame(kind, Top(t).req, id)),
           Seq(Frames) \subseteq Seq(Frames'), NEW u \in Threads, Sound(u, stack[u], K)
    PROVE  /\ Sound(u, stack'[u], K)
           /\ ~Idle(u)' <=> ~Idle(u)
           /\ \A r : Busy(u, r)' <=> Busy(u, r)
           /\ \A x : Restores(u, x)' => Restores(u, x) \/ (u = t /\ x = id)
           /\ InTask(u)' => InTask(u) \/ (u = t /\ kind = "task")
<1> DEFINE f == Frame(kind, Top(t).req, id)
<1>1. stack'[u] = IF u = t THEN <<f>> \o stack[t] ELSE stack[u]
  BY DEF Types, StackWith
<1>2. CASE u # t
  <2>1. stack'[u] = stack[u]
    BY <1>1, <1>2
  <2>2. Sound(u, stack'[u], K) /\ (~Idle(u)' <=> ~Idle(u))
    BY <2>1 DEF Idle
  <2>3. \A r : Busy(u, r)' <=> Busy(u, r)
    BY <2>1 DEF Idle, Busy, Top
  <2>4. \A x : Restores(u, x)' <=> Restores(u, x)
    BY <2>1 DEF Restores
  <2>5. InTask(u)' <=> InTask(u)
    BY <2>1 DEF InTask
  <2>6. QED
    BY <2>2, <2>3, <2>4, <2>5
<1>3. CASE u = t
  <2> DEFINE s == stack[t]
             p == <<f>> \o s
  <2>1. s \in Seq(Frames') /\ s # <<>>
    BY DEF Types, Idle
  <2>2. /\ Len(s) \in Nat \ {0} /\ DOMAIN s = 1..Len(s) /\ s[1] = Top(t)
    BY <2>1, Popping DEF Top
  <2>3. /\ p # <<>> /\ Head(p) = f /\ Len(p) = Len(s) + 1 /\ DOMAIN p = 1..Len(s) + 1
        /\ p[1] = f /\ \A i \in DOMAIN s : p[i + 1] = s[i]
    BY <2>1, Pushing
  <2>4. ASSUME NEW i \in DOMAIN p, i # 1
        PROVE  i - 1 \in DOMAIN s /\ p[i] = s[i - 1] /\ (i = Len(p) <=> i - 1 = Len(s))
    <3>1. i - 1 \in DOMAIN s /\ (i - 1) + 1 = i
      BY <2>2, <2>3, <2>4
    <3>2. QED
      BY <2>2, <2>3, <3>1
  <2>5. /\ f.req = s[1].req /\ f.kind \notin {"main", "bare"} /\ f.kind = kind
        /\ (f.kind = "task" => f.previous # NoId)
    BY <2>2 DEF Frame
  <2>6. 1 # Len(p)
    BY <2>2, <2>3
  <2>7. ASSUME NEW i \in DOMAIN p
        PROVE  /\ p[i].req = p[1].req
               /\ i = Len(p) => /\ p[i].kind \in BaseKinds(t)
                                /\ p[i].kind = "bare" \/ p[i].previous # NoId => t \in K
               /\ i # Len(p) => /\ p[i].kind \notin {"main", "bare"}
                                /\ p[i].kind = "task" => p[i].previous # NoId
    <3>1. CASE i = 1
      BY <2>3, <2>5, <2>6, <3>1
    <3>2. CASE i # 1
      BY <2>3, <2>4, <2>5, <3>2 DEF Sound
    <3>3. QED
      BY <3>1, <3>2
  <2>8. Sound(t, p, K)
    BY <2>7 DEF Sound
  <2>9. stack'[t] = p /\ Top(t)'.req = Top(t).req
    BY <1>1, <1>3, <2>2, <2>3, <2>5 DEF Top
  <2>10. \A x : Restores(t, x)' => Restores(t, x) \/ x = id
    <3>1. f.previous = id
      BY DEF Frame
    <3>2. QED
      BY <2>3, <2>4, <2>9, <3>1 DEF Restores
  <2>11. InTask(t)' => InTask(t) \/ kind = "task"
    BY <2>3, <2>4, <2>5, <2>9 DEF InTask
  <2>12. QED
    BY <1>3, <2>3, <2>8, <2>9, <2>10, <2>11 DEF Idle, Busy
<1>4. QED
  BY <1>2, <1>3

\* A frame put on an idle thread: the thread starts to work for a request.
StartsOn(t, r, kind, previous) ==
    Idle(t) /\ kind \in BaseKinds(t) /\ stack' = StackWith(t, Frame(kind, r, previous))

LEMMA BaseIsSound ==
    ASSUME Types, NEW K, NEW t \in Threads, NEW r \in Requests, NEW kind, NEW previous,
           StartsOn(t, r, kind, previous), kind = "bare" \/ previous # NoId => t \in K,
           NEW u \in Threads, Sound(u, stack[u], K)
    PROVE  /\ Sound(u, stack'[u], K)
           /\ ~Idle(u)' <=> ~Idle(u) \/ u = t
           /\ \A q : Busy(u, q)' <=> IF u = t THEN q = r ELSE Busy(u, q)
           /\ \A x : Restores(u, x)' => u # t /\ Restores(u, x)
           /\ InTask(u)' => IF u = t THEN kind = "task" ELSE InTask(u)
<1> USE DEF StartsOn
<1> DEFINE f == Frame(kind, r, previous)
<1>1. stack'[u] = IF u = t THEN <<f>> \o stack[t] ELSE stack[u]
  BY DEF Types, StackWith
<1>2. CASE u # t
  BY <1>1, <1>2 DEF Idle, Busy, Top, Restores, InTask
<1>3. CASE u = t
  <2>1. stack'[t] = <<f>>
    BY <1>1, <1>3 DEF Idle
  <2>2. DOMAIN <<f>> = {1} /\ Len(<<f>>) = 1 /\ <<f>>[1] = f /\ Head(<<f>>) = f /\ <<f>> # <<>>
    OBVIOUS
  <2>3. f.req = r /\ f.kind = kind /\ f.previous = previous
    BY DEF Frame
  <2>4. Sound(t, stack'[t], K)
    BY <2>1, <2>2, <2>3 DEF Sound
  <2>5. \A x : ~Restores(t, x)'
    BY <2>1, <2>2 DEF Restores
  <2>6. ~Idle(t)' /\ \A q : Busy(t, q)' <=> q = r
    BY <2>1, <2>2, <2>3 DEF Idle, Busy, Top
  <2>7. InTask(t)' => kind = "task"
    BY <2>1, <2>2, <2>3 DEF InTask
  <2>8. QED
    BY <1>3, <2>4, <2>5, <2>6, <2>7
<1>4. QED
  BY <1>2, <1>3

\* A stack without its top frame. A thread goes on with the same request, or goes idle
\* if that was what it was for.
LEMMA PopIsSound ==
    ASSUME Types, NEW K, NEW t \in Threads, ~Idle(t), Sound(t, stack[t], K),
           stack' = StackWithout(t), NEW u \in Threads, Sound(u, stack[u], K)
    PROVE  /\ Sound(u, stack'[u], K)
           /\ u # t => stack'[u] = stack[u]
           /\ \A r : Busy(u, r)' => Busy(u, r)
           /\ \A x : Restores(u, x)' => Restores(u, x)
           /\ InTask(u)' => InTask(u)
           /\ u = t /\ Idle(t)' =>
                 /\ Top(t).kind \in BaseKinds(t)
                 /\ Top(t).kind = "bare" \/ Top(t).previous # NoId => t \in K
           /\ u = t /\ ~Idle(t)' =>
                 /\ Top(t).kind \notin {"main", "bare"}
                 /\ Top(t).kind = "task" => Top(t).previous # NoId
                 /\ Restores(t, Top(t).previous)
           /\ u # t => (\A r : Busy(u, r)' <=> Busy(u, r))
<1> DEFINE s == stack[t]
           p == Tail(s)
<1>1. stack'[u] = IF u = t THEN p ELSE stack[u]
  BY DEF Types, StackWithout
<1>2. CASE u # t
  BY <1>1, <1>2 DEF Idle, Busy, Top, Restores, InTask
<1>3. CASE u = t
  <2>1. /\ Len(s) \in Nat \ {0} /\ DOMAIN s = 1..Len(s) /\ Top(t) = s[1] /\ 1 \in DOMAIN s
        /\ Len(p) = Len(s) - 1 /\ DOMAIN p = 1..Len(s) - 1 /\ p \in Seq(Frames)
        /\ \A i \in DOMAIN p : p[i] = s[i + 1]
        /\ p # <<>> => Head(p) = s[2]
    BY Popping DEF Types, Idle, Top
  <2>2. ASSUME NEW i \in DOMAIN p
        PROVE  i + 1 \in DOMAIN s /\ (i = Len(p) <=> i + 1 = Len(s)) /\ 1 \in DOMAIN p
               /\ p[i] = s[i + 1] /\ p[1] = s[2] /\ 2 \in DOMAIN s
    BY <2>1
  <2>3. Sound(t, p, K)
    <3>1. ASSUME NEW i \in DOMAIN p
          PROVE  /\ p[i].req = p[1].req
                 /\ i = Len(p) => /\ p[i].kind \in BaseKinds(t)
                                  /\ p[i].kind = "bare" \/ p[i].previous # NoId => t \in K
                 /\ i # Len(p) => /\ p[i].kind \notin {"main", "bare"}
                                  /\ p[i].kind = "task" => p[i].previous # NoId
      <4>1. p[i].req = s[1].req /\ p[1].req = s[1].req
        BY <2>2 DEF Sound
      <4>2. QED
        BY <2>2, <4>1 DEF Sound
    <3>2. QED
      BY <3>1 DEF Sound
  <2>4. p = <<>> <=> Len(s) = 1
    BY Popping DEF Types, Idle
  <2>5. (\A x : Restores(t, x)' => Restores(t, x)) /\ (InTask(t)' => InTask(t))
    BY <1>1, <1>3, <2>2 DEF Restores, InTask
  <2>6. CASE p = <<>>
    <3>1. /\ Top(t).kind \in BaseKinds(t)
          /\ Top(t).kind = "bare" \/ Top(t).previous # NoId => t \in K
      BY <2>1, <2>4, <2>6 DEF Sound
    <3>2. Idle(t)' /\ DOMAIN stack'[t] = {}
      <4>1. stack'[t] = p /\ DOMAIN p = {}
        BY <1>1, <1>3, <2>1, <2>4, <2>6
      <4>2. QED
        BY <2>6, <4>1 DEF Idle
    <3>3. QED
      BY <1>1, <1>3, <2>3, <2>5, <3>1, <3>2 DEF Busy
  <2>7. CASE p # <<>>
    <3>1. /\ Top(t).kind \notin {"main", "bare"}
          /\ Top(t).kind = "task" => Top(t).previous # NoId
          /\ Restores(t, Top(t).previous)
      BY <2>1, <2>4, <2>7 DEF Sound, Restores
    <3>2. 1 \in DOMAIN p
      BY <2>1, <2>4, <2>7
    <3>3. ~Idle(t)' /\ Top(t)'.req = Top(t).req
      <4>1. Top(t)' = s[2] /\ 2 \in DOMAIN s
        BY <1>1, <1>3, <2>1, <2>2, <2>7, <3>2 DEF Top
      <4>2. QED
        BY <1>1, <1>3, <2>1, <2>7, <4>1 DEF Idle, Sound
    <3>4. QED
      BY <1>1, <1>3, <2>3, <2>5, <3>1, <3>3 DEF Busy
  <2>8. QED
    BY <2>6, <2>7
<1>4. QED
  BY <1>2, <1>3

\* A thread may be added to those whose holder is left with an id, or taken away when
\* it is at rest.
LEMMA SoundAnyway ==
    ASSUME NEW u, NEW s, NEW K, NEW L, Sound(u, s, K), s = <<>> \/ (u \in K => u \in L)
    PROVE  Sound(u, s, L)
<1>1. s = <<>> => DOMAIN s = {}
  OBVIOUS
<1>2. QED
  BY <1>1 DEF Sound

\* Asking for an id adds a frame for the same request, takes one away, or leaves the
\* stacks alone.
LEMMA AskingStacks ==
    ASSUME Types, SoundStacks, NEW t \in Threads, Asks(t), NEW u \in Threads
    PROVE  /\ ~Idle(t)
           /\ Sound(u, stack'[u], kept)
           /\ u # t => (Idle(u)' <=> Idle(u)) /\ (InTask(u)' => InTask(u))
           /\ \A r : Busy(u, r)' => Busy(u, r)
           /\ \A x : Restores(u, x)' => Restores(u, x) \/ x = NoId \/ (u = t /\ x = IdOf(t))
           /\ u = t /\ Idle(t)' =>
                 /\ Top(t).kind \in BaseKinds(t)
                 /\ Report(t) \/ \E outcome : Skip(t, outcome)
           /\ u = t /\ ~Idle(t)' =>
                 ~((Report(t) \/ \E outcome : Skip(t, outcome)) /\ Top(t).kind = "main")
<1>1. ~Idle(t)
  BY DEF Asks, Submit, SubmitUnwrapped, SubmitFails, SubmitInline, RemoteCall, Skip, Report,
         Runs, CanCall
<1>2. Sound(t, stack[t], kept) /\ Sound(u, stack[u], kept)
  BY DEF SoundStacks
<1>3. CASE Report(t) \/ \E outcome : Skip(t, outcome)
  <2>1. stack' = StackWithout(t)
    BY <1>3 DEF Report, Skip
  <2>2. u # t => (Idle(u)' <=> Idle(u))
    <3>1. u # t => stack'[u] = stack[u]
      BY <1>1, <1>2, <2>1, PopIsSound
    <3>2. QED
      BY <3>1 DEF Idle
  <2>3. QED
    BY <1>1, <1>2, <1>3, <2>1, <2>2, PopIsSound
<1>4. CASE /\ ~(Report(t) \/ \E outcome : Skip(t, outcome))
           /\ SubmitInline(t) \/ \E reaches \in BOOLEAN : RemoteCall(t, reaches)
  <2>1. /\ ids \in Nat /\ ids' \in Nat /\ ids <= ids' /\ IdOf(t) \in 1..ids'
        /\ Top(t).req \in Requests
    BY <1>1, Asking, TopTypes DEF Types
  <2>2. Seq(Frames) \subseteq Seq(Frames') /\ NoId \in 0..ids' /\ IdOf(t) \in 0..ids'
        /\ IdOf(t) # NoId
    BY <2>1, IdsGrow DEF NoId
  <2>3. /\ Frame("task", Top(t).req, IdOf(t)) \in Frames'
        /\ Frame("remote", Top(t).req, NoId) \in Frames'
    BY <2>1, <2>2 DEF Frame, Frames, Kinds
  <2>4. PICK kind \in {"remote", "task"}, id \in {NoId, IdOf(t)} :
           /\ Frame(kind, Top(t).req, id) \in Frames'
           /\ kind = "task" => id # NoId
           /\ stack' = StackWith(t, Frame(kind, Top(t).req, id))
    BY <1>4, <2>2, <2>3 DEF SubmitInline, RemoteCall
  <2>5. /\ Sound(u, stack'[u], kept)
        /\ ~Idle(u)' <=> ~Idle(u)
        /\ \A r : Busy(u, r)' <=> Busy(u, r)
        /\ \A x : Restores(u, x)' => Restores(u, x) \/ (u = t /\ x = id)
        /\ u # t => (InTask(u)' => InTask(u))
    BY <1>1, <1>2, <2>2, <2>4, PushIsSound
  <2>6. u = t => ~Idle(t)'
    <3>1. stack'[t] = <<Frame(kind, Top(t).req, id)>> \o stack[t]
      BY <2>4 DEF StackWith, Types
    <3>2. stack[t] \in Seq(Frames')
      BY <2>2 DEF Types
    <3>3. QED
      BY <2>4, <3>1, <3>2, Pushing DEF Idle
  <2>7. QED
    BY <1>1, <1>4, <2>5, <2>6
<1>5. CASE /\ ~(Report(t) \/ \E outcome : Skip(t, outcome))
           /\ Submit(t) \/ SubmitUnwrapped(t) \/ SubmitFails(t)
  <2>1. stack' = stack
    BY <1>5 DEF Submit, SubmitUnwrapped, SubmitFails, programVars
  <2>2. (Idle(u)' <=> Idle(u)) /\ (Idle(t)' <=> Idle(t)) /\ (InTask(u)' <=> InTask(u))
    BY <2>1 DEF Idle, InTask
  <2>3. \A r : Busy(u, r)' <=> Busy(u, r)
    BY <2>1 DEF Busy, Idle, Top
  <2>4. \A x : Restores(u, x)' <=> Restores(u, x)
    BY <2>1 DEF Restores
  <2>5. QED
    BY <1>1, <1>2, <1>5, <2>1, <2>2, <2>3, <2>4
<1>6. QED
  BY <1>3, <1>4, <1>5 DEF Asks

-------------------------------------------------------------------------------
(* Threads at rest                                                         *)

\* Only callers run main.
LEMMA MainIsACallers ==
    ASSUME Types, NEW t \in Threads, ~Idle(t), Sound(t, stack[t], kept)
    PROVE  Top(t).kind = "main" => t \in Callers
<1>1. stack[t] \in Seq(Frames) /\ stack[t] # <<>>
  BY DEF Types, Idle
<1>2. 1 \in DOMAIN stack[t] /\ Top(t) = stack[t][1]
  BY <1>1, Popping DEF Top
<1>3. QED
  BY <1>2 DEF Sound, BaseKinds

\* An idle thread has no frames.
LEMMA IdleHasNone ==
    ASSUME NEW t, Idle(t)
    PROVE  ~InTask(t) /\ \A x : ~Restores(t, x)
<1>1. DOMAIN stack[t] = {}
  BY DEF Idle
<1>2. QED
  BY <1>1 DEF InTask, Restores

\* Asking for an id.
LEMMA AskingCore ==
    ASSUME Core, NEW t \in Threads, Asks(t)
    PROVE  Places'
<1> USE DEF Core, Places
<1>1. ~Idle(t) /\ Sound(t, stack[t], kept)
  BY AskingStacks DEF SoundStacks
<1>2. Top(t).kind = "main" => t \in Callers
  BY <1>1, MainIsACallers
<1> DEFINE Ends == Report(t) \/ \E outcome : Skip(t, outcome)
<1>3. /\ kept \ {t} \subseteq kept' /\ kept' \ {t} \subseteq kept
      /\ (kept \subseteq Callers \union PoolThreads)'
      /\ t \in kept => t \in kept' \/ (Report(t) /\ Top(t).kind = "main")
      /\ Top(t).kind = "main" /\ (\E outcome : Skip(t, outcome)) => t \in kept'
  <2>1. \/ kept' = kept
        \/ kept' = kept \ {t} /\ Report(t) /\ Top(t).kind = "main"
        \/ (Top(t).kind = "main" /\ kept' = kept \union {t})
    BY DEF Asks, Submit, SubmitUnwrapped, SubmitFails, SubmitInline, RemoteCall, Skip,
           Report, spanVars
  <2>2. Top(t).kind = "main" /\ (\E outcome : Skip(t, outcome)) => t \in kept'
    BY DEF Skip
  <2>3. QED
    BY <1>2, <2>1, <2>2
<1>4. Report(t) /\ Top(t).kind = "main" => Idle(t)'
  BY AskingStacks
<1>5. ASSUME NEW u \in Threads
      PROVE  Sound(u, stack'[u], kept')
  <2>1. Sound(u, stack'[u], kept)
    BY AskingStacks
  <2>2. stack'[u] = <<>> \/ (u \in kept => u \in kept')
    BY <1>3, <1>4 DEF Idle
  <2>3. QED
    BY <2>1, <2>2, SoundAnyway
<1>6. ASSUME NEW u \in Threads, u # Dispatcher, Idle(u)', u \notin kept'
      PROVE  holder'[u] = NoId
  <2>1. CASE u # t
    <3>1. Idle(u) /\ u \notin kept
      BY <1>3, <1>6, <2>1, AskingStacks
    <3>2. QED
      BY <1>6, <2>1, <3>1, Asking DEF ThreadsClean
  <2>2. CASE u = t
    <3>1. Idle(t)'
      BY <1>6, <2>2 DEF Idle
    <3>2. Top(t).kind \in BaseKinds(t) /\ Ends
      BY <3>1, AskingStacks
    <3>3. t \notin PoolThreads
      BY <3>2, TraceAssumption DEF BaseKinds, Report, Skip, Runs
    <3>4. Top(t).kind = "main"
      BY <1>6, <2>2, <3>2, <3>3 DEF BaseKinds, Threads
    <3>5. Report(t)
      BY <1>3, <1>6, <2>2, <3>2, <3>4
    <3>6. QED
      BY <2>2, <3>4, <3>5, Asking
  <2>3. QED
    BY <2>1, <2>2
<1>7. ASSUME NEW u \in Threads, InTask(u)'
      PROVE  holder'[u] # NoId
  <2>1. CASE u # t
    <3>1. InTask(u)
      BY <1>7, <2>1, AskingStacks
    <3>2. QED
      BY <2>1, <3>1, Asking DEF TasksHaveIds
  <2>2. CASE u = t
    <3>1. ~Idle(t)'
      <4>1. Idle(t)' => DOMAIN stack'[t] = {}
        BY DEF Idle
      <4>2. QED
        BY <1>7, <2>2, <4>1 DEF InTask
    <3>2. holder'[t] = IdOf(t) /\ IdOf(t) \in 1..ids' /\ ids' \in Nat
      BY <1>4, <3>1, Asking
    <3>3. QED
      BY <2>2, <3>2 DEF NoId
  <2>3. QED
    BY <2>1, <2>2
<1>8. SoundStacks' /\ ThreadsClean' /\ TasksHaveIds'
  BY <1>5, <1>6, <1>7 DEF SoundStacks, ThreadsClean, TasksHaveIds
<1>9. QED
  BY <1>3, <1>8

\* A thread that starts to work for a request.
LEMMA StartingCore ==
    ASSUME Core, NEW t \in Threads, NEW r \in Requests, NEW kind, NEW previous,
           StartsOn(t, r, kind, previous), kind = "bare" \/ previous # NoId => t \in kept',
           kept \subseteq kept', kept' \subseteq Callers \union PoolThreads,
           \A u \in Threads \ {t} : holder'[u] = holder[u],
           kind = "task" => holder'[t] # NoId
    PROVE  Places'
<1> USE DEF Core, Places
<1>1. ASSUME NEW u \in Threads
      PROVE  /\ Sound(u, stack'[u], kept')
             /\ ~Idle(u)' <=> ~Idle(u) \/ u = t
             /\ InTask(u)' => IF u = t THEN kind = "task" ELSE InTask(u)
  <2>1. Sound(u, stack[u], kept')
    BY SoundAnyway DEF SoundStacks
  <2>2. QED
    BY <2>1, BaseIsSound
<1>2. SoundStacks'
  BY <1>1 DEF SoundStacks
<1>3. ThreadsClean'
  BY <1>1 DEF ThreadsClean
<1>4. TasksHaveIds'
  BY <1>1 DEF TasksHaveIds
<1>5. QED
  BY <1>2, <1>3, <1>4

\* An entry, a pool thread that takes a task, and the dispatcher with a request.
LEMMA EnterStarts ==
    ASSUME NEW t \in Callers, NEW r \in Requests, Enter(t, r)
    PROVE  /\ t \in Threads /\ StartsOn(t, r, "main", NoId)
           /\ holder' = holder /\ ids' = ids /\ kept' = kept
BY DEF Enter, StartsOn, BaseKinds, Threads, idVars, spanVars

LEMMA StartTaskStarts ==
    ASSUME Core, NEW t \in PoolThreads, StartTask(t)
    PROVE  /\ t \in Threads /\ StartsOn(t, Head(queue).req, "task", holder[t])
           /\ holder[t] # NoId => t \in kept
           /\ kept' = kept /\ ids' = ids
           /\ \A u \in Threads \ {t} : holder'[u] = holder[u]
           /\ holder'[t] = Head(queue).id /\ Head(queue).id # NoId
           /\ Head(queue) \in Items /\ Head(queue) \in ToSet(queue)
<1> USE DEF Core, Places
<1>1. t \in Threads /\ t \notin Callers /\ t # Dispatcher /\ Idle(t)
  BY TraceAssumption DEF Threads, StartTask
<1>2. holder[t] # NoId => t \in kept
  BY <1>1 DEF ThreadsClean
<1>3. Head(queue) \in Items /\ Head(queue) \in ToSet(queue) /\ Head(queue).id # NoId
  BY StartTaskTypes DEF StartTask
<1>4. /\ \A u \in Threads \ {t} : holder'[u] = holder[u]
      /\ holder'[t] = Head(queue).id /\ ids' = ids
  BY <1>1, <1>3 DEF StartTask, SetTo, Types
<1>5. StartsOn(t, Head(queue).req, "task", holder[t]) /\ kept' = kept
  BY <1>1 DEF StartTask, StartsOn, BaseKinds, spanVars
<1>6. QED
  BY <1>1, <1>2, <1>3, <1>4, <1>5

LEMMA StartBareTaskStarts ==
    ASSUME Core, NEW t \in PoolThreads, StartBareTask(t)
    PROVE  /\ t \in Threads /\ StartsOn(t, Head(queue).req, "bare", NoId)
           /\ kept' = kept \union {t} /\ ids' = ids /\ holder' = holder
           /\ Head(queue) \in Items /\ Head(queue) \in ToSet(queue)
<1>1. t \in Threads /\ t \notin Callers
  BY TraceAssumption DEF Threads
<1>2. Head(queue) \in Items /\ Head(queue) \in ToSet(queue)
  BY StartTaskTypes DEF Core
<1>3. StartsOn(t, Head(queue).req, "bare", NoId)
  BY <1>1 DEF StartBareTask, StartsOn, BaseKinds
<1>4. QED
  BY <1>1, <1>2, <1>3 DEF StartBareTask, idVars

LEMMA HandleStarts ==
    ASSUME Types, NEW m \in inbox, Handle(m)
    PROVE  /\ Dispatcher \in Threads /\ m \in Items /\ m.req \in Requests
           /\ StartsOn(Dispatcher, m.req, "handle", NoId) /\ kept' = kept /\ ids' = ids
           /\ \A u \in Threads \ {Dispatcher} : holder'[u] = holder[u]
           /\ holder'[Dispatcher] = IF m.id = NoId THEN holder[Dispatcher] ELSE m.id
<1>1. Dispatcher \in Threads /\ holder \in [Threads -> 0..ids] /\ m \in Items
  BY DEF Threads, Types
<1>2. BaseKinds(Dispatcher) = {"handle"}
  BY TraceAssumption DEF BaseKinds
<1>3. QED
  BY <1>1, <1>2 DEF Handle, StartsOn, SetTo, spanVars, Items

\* A call puts one more frame on a thread.
LEMMA CallStacks ==
    ASSUME Types, SoundStacks, NEW t \in Threads, Call(t), NEW u \in Threads
    PROVE  /\ Sound(u, stack'[u], kept)
           /\ ~Idle(u)' <=> ~Idle(u)
           /\ \A r : Busy(u, r)' <=> Busy(u, r)
           /\ \A x : Restores(u, x)' => Restores(u, x) \/ x = NoId
           /\ InTask(u)' => InTask(u)
<1>1. ~Idle(t) /\ ids' = ids /\ stack' = StackWith(t, Frame("work", Top(t).req, NoId))
  BY DEF Call, CanCall, idVars
<1>2. Frames' = Frames /\ NoId \in 0..ids
  BY <1>1 DEF Frames, Types, NoId
<1>3. Frame("work", Top(t).req, NoId) \in Frames'
  BY <1>1, <1>2, TopTypes DEF Frame, Frames, Kinds
<1>4. Seq(Frames) \subseteq Seq(Frames')
  BY <1>2
<1>5. QED
  BY <1>1, <1>3, <1>4, PushIsSound DEF SoundStacks

\* A task that ends puts an id of its request back, unless the thread has nothing left.
LEMMA EndTaskStacks ==
    ASSUME Types, SoundStacks, NEW t \in Threads, EndsTask(t), NEW u \in Threads
    PROVE  /\ Sound(u, stack'[u], kept)
           /\ u # t => (Idle(u)' <=> Idle(u)) /\ holder'[u] = holder[u]
           /\ \A r : Busy(u, r)' => Busy(u, r)
           /\ \A x : Restores(u, x)' => Restores(u, x)
           /\ InTask(u)' => InTask(u)
           /\ u = t => holder'[t] = Top(t).previous
           /\ u = t /\ Idle(t)' => Top(t).previous = NoId \/ t \in kept
           /\ u = t /\ ~Idle(t)' => Top(t).previous # NoId /\ Restores(t, Top(t).previous)
<1>1. ~Idle(t) /\ Top(t).kind = "task" /\ stack' = StackWithout(t)
  BY DEF EndsTask
<1>2. Sound(t, stack[t], kept) /\ Sound(u, stack[u], kept)
  BY DEF SoundStacks
<1>3. holder'[u] = IF u = t THEN Top(t).previous ELSE holder[u]
  BY DEF EndsTask, Types
<1>4. u # t => (Idle(u)' <=> Idle(u))
  <2>1. u # t => stack'[u] = stack[u]
    BY <1>1, <1>2, PopIsSound
  <2>2. QED
    BY <2>1 DEF Idle
<1>5. QED
  BY <1>1, <1>2, <1>3, <1>4, PopIsSound

\* A thread whose bare task ends has nothing left, and may have an id.
LEMMA EndBareTaskStacks ==
    ASSUME Types, SoundStacks, NEW t \in Threads, EndBareTask(t), NEW u \in Threads
    PROVE  /\ Sound(u, stack'[u], kept)
           /\ Idle(u)' => Idle(u) \/ u \in kept
           /\ \A r : Busy(u, r)' => Busy(u, r)
           /\ \A x : Restores(u, x)' => Restores(u, x)
           /\ InTask(u)' => InTask(u)
<1>1. ~Idle(t) /\ Top(t).kind = "bare" /\ stack' = StackWithout(t)
  BY DEF EndBareTask
<1>2. Sound(t, stack[t], kept) /\ Sound(u, stack[u], kept)
  BY DEF SoundStacks
<1>3. Idle(u)' => Idle(u) \/ u \in kept
  <2>1. CASE u = t
    <3>1. Idle(t)' <=> Idle(u)'
      BY <2>1 DEF Idle
    <3>2. QED
      BY <1>1, <1>2, <2>1, <3>1, PopIsSound
  <2>2. CASE u # t
    <3>1. stack'[u] = stack[u]
      BY <1>1, <1>2, <2>2, PopIsSound
    <3>2. QED
      BY <3>1 DEF Idle
  <2>3. QED
    BY <2>1, <2>2
<1>4. QED
  BY <1>1, <1>2, <1>3, PopIsSound

\* Steps that change no stack.
LEMMA SameThreads ==
    ASSUME stack' = stack, NEW t \in Threads
    PROVE  /\ Idle(t)' <=> Idle(t)
           /\ \A r : Busy(t, r)' <=> Busy(t, r)
           /\ \A x : Restores(t, x)' <=> Restores(t, x)
           /\ InTask(t)' <=> InTask(t)
<1>1. Idle(t)' <=> Idle(t)
  BY DEF Idle
<1>2. \A r : Busy(t, r)' <=> Busy(t, r)
  BY DEF Busy, Idle, Top
<1>3. \A x : Restores(t, x)' <=> Restores(t, x)
  BY DEF Restores
<1>4. InTask(t)' <=> InTask(t)
  BY DEF InTask
<1>5. QED
  BY <1>1, <1>2, <1>3, <1>4

\* The steps of the program that have no effect on the ids at all.
Elsewhere ==
    \/ \E r \in Requests : ExternalRequest(r)
    \/ RateChanges
    \/ UNCHANGED vars

LEMMA ElsewhereKeeps ==
    ASSUME Elsewhere
    PROVE  UNCHANGED <<holder, stack, queue, ids, reported, kept, astray, bareTasks>>
BY DEF Elsewhere, ExternalRequest, RateChanges, vars, programVars, idVars, spanVars

\* Every step keeps the threads in order.
LEMMA NextCore == Core /\ [Next]_vars => Core'
<1> SUFFICES ASSUME Core, [Next]_vars
             PROVE  Places'
  BY NextTypes DEF Core
<1> USE DEF Core, Places
<1>1. ASSUME NEW t \in Threads, Asks(t)
      PROVE  Places'
  BY <1>1, AskingCore
<1>2. ASSUME NEW t \in Callers, NEW r \in Requests, Enter(t, r)
      PROVE  Places'
  BY <1>2, EnterStarts, StartingCore
<1>3. ASSUME NEW t \in PoolThreads, StartTask(t)
      PROVE  Places'
  <2>1. Head(queue).req \in Requests
    BY <1>3, StartTaskStarts DEF Items
  <2>2. /\ t \in Threads /\ StartsOn(t, Head(queue).req, "task", holder[t])
        /\ holder[t] # NoId => t \in kept
        /\ kept' = kept /\ \A u \in Threads \ {t} : holder'[u] = holder[u]
        /\ holder'[t] # NoId
    BY <1>3, StartTaskStarts
  <2>3. QED
    BY <2>1, <2>2, StartingCore
<1>4. ASSUME NEW t \in PoolThreads, StartBareTask(t)
      PROVE  Places'
  <2>1. /\ Head(queue).req \in Requests
        /\ t \in Threads /\ StartsOn(t, Head(queue).req, "bare", NoId)
        /\ kept' = kept \union {t} /\ holder' = holder
    BY <1>4, StartBareTaskStarts DEF Items
  <2>2. QED
    BY <2>1, StartingCore
<1>5. ASSUME NEW m \in inbox, Handle(m)
      PROVE  Places'
  BY <1>5, HandleStarts, StartingCore
<1>6. ASSUME NEW t \in Threads, Call(t) \/ EndBareTask(t)
      PROVE  Places'
  <2>1. kept' = kept /\ holder' = holder
    BY <1>6 DEF Call, EndBareTask, spanVars, idVars
  <2>2. ASSUME NEW u \in Threads
        PROVE  /\ Sound(u, stack'[u], kept) /\ (InTask(u)' => InTask(u))
               /\ Idle(u)' => Idle(u) \/ u \in kept
    BY <1>6, CallStacks, EndBareTaskStacks
  <2>3. SoundStacks' /\ ThreadsClean' /\ TasksHaveIds'
    BY <2>1, <2>2 DEF SoundStacks, ThreadsClean, TasksHaveIds
  <2>4. QED
    BY <2>1, <2>3
<1>7. ASSUME NEW t \in Threads, EndTask(t) \/ InlineTaskFails(t)
      PROVE  Places'
  <2>1. EndsTask(t)
    BY <1>7, EndingTask
  <2>2. kept' = kept
    BY <2>1 DEF EndsTask, spanVars
  <2>3. SoundStacks'
    BY <2>1, <2>2, EndTaskStacks DEF SoundStacks
  <2>4. ASSUME NEW u \in Threads
        PROVE  /\ Idle(u)' /\ u \notin kept /\ u # Dispatcher => holder'[u] = NoId
               /\ InTask(u)' => holder'[u] # NoId
    <3>1. CASE u = t
      <4>1. Idle(u)' <=> Idle(t)'
        BY <3>1 DEF Idle
      <4>2. InTask(u)' => ~Idle(t)'
        <5>1. Idle(t)' => DOMAIN stack'[t] = {}
          BY DEF Idle
        <5>2. QED
          BY <3>1, <5>1 DEF InTask
      <4>3. QED
        BY <2>1, <3>1, <4>1, <4>2, EndTaskStacks
    <3>2. CASE u # t
      <4>1. (Idle(u)' <=> Idle(u)) /\ holder'[u] = holder[u] /\ (InTask(u)' => InTask(u))
        BY <2>1, <3>2, EndTaskStacks
      <4>2. QED
        BY <4>1 DEF ThreadsClean, TasksHaveIds
    <3>3. QED
      BY <3>1, <3>2
  <2>5. ThreadsClean' /\ TasksHaveIds'
    BY <2>2, <2>4 DEF ThreadsClean, TasksHaveIds
  <2>6. QED
    BY <2>2, <2>3, <2>5
<1>8. ASSUME NEW t \in PoolThreads, ThreadReplaced(t)
      PROVE  Places'
  <2>1. /\ stack' = stack /\ kept' = kept \ {t} /\ Idle(t) /\ t \in Threads
        /\ holder' = [holder EXCEPT ![t] = NoId]
    BY <1>8 DEF ThreadReplaced, programVars, Threads
  <2>2. \A u \in Threads : holder'[u] = IF u = t THEN NoId ELSE holder[u]
    BY <2>1 DEF Types
  <2>3. ASSUME NEW u \in Threads
        PROVE  Sound(u, stack'[u], kept')
    <3>1. Sound(u, stack[u], kept) /\ (u = t => stack[u] = <<>>)
      BY <2>1 DEF SoundStacks, Idle
    <3>2. QED
      BY <2>1, <3>1, SoundAnyway
  <2>4. \A u \in Threads : (Idle(u)' <=> Idle(u)) /\ (InTask(u)' <=> InTask(u))
    BY <2>1, SameThreads
  <2>5. ~InTask(t)
    BY <2>1, IdleHasNone
  <2>6. SoundStacks' /\ ThreadsClean' /\ TasksHaveIds'
    BY <2>1, <2>2, <2>3, <2>4, <2>5 DEF SoundStacks, ThreadsClean, TasksHaveIds
  <2>7. QED
    BY <2>1, <2>6
<1>9. ASSUME Elsewhere \/ \E t \in Threads : SubmitUnseen(t)
      PROVE  Places'
  <2>1. stack' = stack /\ holder' = holder /\ kept' = kept
    BY <1>9, ElsewhereKeeps DEF SubmitUnseen, idVars, spanVars
  <2>2. SoundStacks' /\ ThreadsClean' /\ TasksHaveIds'
    BY <2>1, SameThreads DEF SoundStacks, ThreadsClean, TasksHaveIds
  <2>3. QED
    BY <2>1, <2>2
<1>10. QED
  BY <1>1, <1>2, <1>3, <1>4, <1>5, <1>6, <1>7, <1>8, <1>9 DEF Next, Asks, Elsewhere

LEMMA InitCore == Init => Core
<1> SUFFICES ASSUME Init
             PROVE  Core
  OBVIOUS
<1>1. \A t \in Threads : stack[t] = <<>> /\ holder[t] = NoId
  BY DEF Init
<1>2. SoundStacks /\ ThreadsClean /\ TasksHaveIds
  BY <1>1 DEF SoundStacks, Sound, ThreadsClean, TasksHaveIds, InTask
<1>3. kept \subseteq Callers \union PoolThreads
  BY DEF Init
<1>4. QED
  BY <1>2, <1>3, InitTypes DEF Core, Places

\* A thread of the pool at rest has no id unless it has run a bare task, nor has a caller
\* whose last main was sampled (TraceContextRunnable.run, LogInterceptor.intercept),
\* however deep calls and inline tasks were nested, at any sampling rate.
THEOREM CleanThreads == Spec => []ThreadsClean
<1>1. Core => ThreadsClean
  BY DEF Core, Places
<1>2. QED
  BY <1>1, InitCore, NextCore, PTL DEF Spec

-------------------------------------------------------------------------------
(* Ids on their way                                                        *)

\* Asking for an id adds at most one item, with that id or none.
LEMMA AskingItems ==
    ASSUME Types, NEW t \in Threads, Asks(t)
    PROVE  /\ ~Idle(t) /\ Top(t).req \in Requests /\ IdOf(t) # NoId
           /\ UNCHANGED <<begun, astray, bareTasks>>
           /\ inbox' \subseteq inbox \union {Carried(Top(t).req, IdOf(t))}
           /\ \A x \in AllItems' :
                 x \in AllItems \/ \E id \in {NoId, IdOf(t)} : x = Carried(Top(t).req, id)
<1> DEFINE new(id) == Carried(Top(t).req, id)
<1>1. ~Idle(t) /\ UNCHANGED <<begun, astray, bareTasks>>
  BY DEF Asks, Submit, SubmitUnwrapped, SubmitFails, SubmitInline, RemoteCall, Skip, Report,
         Runs, CanCall
<1>2. Top(t).req \in Requests /\ IdOf(t) \in 1..ids' /\ ids' \in Nat
  BY <1>1, TopTypes, Asking
<1>3. \A id \in {NoId, IdOf(t)} : new(id) \in Items'
  BY <1>2 DEF Carried, Items, NoId
<1>4. /\ reported' \subseteq reported \union {new(IdOf(t))}
      /\ inbox' \subseteq inbox \union {new(IdOf(t))}
      /\ queue' = queue \/ \E id \in {NoId, IdOf(t)} : queue' = Append(queue, new(id))
  BY DEF Asks, Submit, SubmitUnwrapped, SubmitFails, SubmitInline, RemoteCall, Skip, Report,
         Enqueue, spanVars, programVars
<1>5. \A x \in ToSet(queue') : x \in ToSet(queue) \/ \E id \in {NoId, IdOf(t)} : x = new(id)
  <2>1. queue \in Seq(Items')
    BY Asking, TypesGrow
  <2>2. \A id \in {NoId, IdOf(t)} : ToSet(Append(queue, new(id))) = ToSet(queue) \union {new(id)}
    BY <1>3, <2>1, Queueing
  <2>3. QED
    BY <1>4, <2>2
<1>6. \A x \in AllItems' : x \in AllItems \/ \E id \in {NoId, IdOf(t)} : x = new(id)
  BY <1>4, <1>5 DEF AllItems
<1>7. IdOf(t) # NoId
  BY <1>2 DEF NoId
<1>8. QED
  BY <1>1, <1>2, <1>4, <1>6, <1>7

\* Steps that at most move the ids of a thread between its frames and its holder.
Quiet(t) ==
    \/ Call(t) \/ EndTask(t) \/ InlineTaskFails(t) \/ EndBareTask(t) \/ SubmitUnseen(t)
    \/ ThreadReplaced(t)

LEMMA QuietItems ==
    ASSUME Types, NEW t \in Threads, Quiet(t)
    PROVE  /\ UNCHANGED <<inbox, ids, begun, astray, bareTasks>>
           /\ \A x \in AllItems' :
                 x \in AllItems \/ (~Idle(t) /\ x = Carried(Top(t).req, NoId))
<1>1. CASE Call(t) \/ EndTask(t) \/ EndBareTask(t) \/ ThreadReplaced(t)
  <2>1. UNCHANGED <<inbox, ids, begun, astray, bareTasks, queue, reported>>
    BY <1>1 DEF Call, EndTask, EndBareTask, ThreadReplaced, idVars, spanVars, programVars
  <2>2. AllItems' = AllItems
    BY <2>1 DEF AllItems
  <2>3. QED
    BY <2>1, <2>2
<1>2. CASE SubmitUnseen(t) \/ InlineTaskFails(t)
  <2>1. /\ UNCHANGED <<inbox, ids, begun, astray, bareTasks, reported>>
        /\ ~Idle(t) /\ Enqueue(Top(t).req, NoId)
    <3>1. InlineTaskFails(t) => EndsTask(t)
      BY EndingTask
    <3>2. QED
      BY <1>2, <3>1 DEF SubmitUnseen, InlineTaskFails, EndsTask, CanCall, idVars, spanVars
  <2>2. ToSet(queue') = ToSet(queue) \union {Carried(Top(t).req, NoId)}
    BY <2>1, QueuedTypes
  <2>3. QED
    BY <2>1, <2>2 DEF AllItems
<1>3. QED
  BY <1>1, <1>2 DEF Quiet

LEMMA QuietThreads ==
    ASSUME Core, NEW t \in Threads, Quiet(t), NEW u \in Threads
    PROVE  /\ \A q : Busy(u, q)' => Busy(u, q)
           /\ \A x : Restores(u, x)' => Restores(u, x) \/ x = NoId
           /\ \A q : Busy(u, q)' =>
                 /\ holder'[u] = holder[u] \/ Restores(u, holder'[u])
                 /\ holder'[u] = NoId => holder[u] = NoId
<1> USE DEF Core, Places
<1>1. CASE Call(t) \/ EndBareTask(t)
  <2>1. holder' = holder
    BY <1>1 DEF Call, EndBareTask, idVars
  <2>2. QED
    BY <1>1, <2>1, CallStacks, EndBareTaskStacks
<1>2. CASE EndTask(t) \/ InlineTaskFails(t)
  <2>1. EndsTask(t)
    BY <1>2, EndingTask
  <2>2. CASE u # t
    BY <2>1, <2>2, EndTaskStacks
  <2>3. CASE u = t
    <3>1. \A q : Busy(u, q)' => ~Idle(t)'
      BY <2>3 DEF Busy
    <3>2. QED
      BY <2>1, <2>3, <3>1, EndTaskStacks
  <2>4. QED
    BY <2>2, <2>3
<1>3. CASE SubmitUnseen(t)
  <2>1. stack' = stack /\ holder' = holder
    BY <1>3 DEF SubmitUnseen, idVars
  <2>2. QED
    BY <2>1, SameThreads
<1>4. CASE ThreadReplaced(t)
  <2>1. /\ stack' = stack /\ Idle(t) /\ (u # t => holder'[u] = holder[u])
    BY <1>4 DEF ThreadReplaced, programVars, Types
  <2>2. \A q : Busy(u, q) => u # t
    BY <2>1 DEF Busy
  <2>3. QED
    BY <2>1, <2>2, SameThreads
<1>5. QED
  BY <1>1, <1>2, <1>3, <1>4 DEF Quiet

\* What a step must do to what is there for requests that have not entered: nothing.
LEMMA StaysMarked ==
    ASSUME Marked, begun \subseteq begun', astray' \subseteq astray \union begun',
           \A x \in AllItems' : x \in AllItems \/ x.req \in begun',
           \A u \in Threads, q \in Requests : Busy(u, q)' => Busy(u, q) \/ q \in begun'
    PROVE  Marked'
BY DEF Marked

\* A thread that starts to work for a request is busy with it; the others go on.
LEMMA StartingMarked ==
    ASSUME Core, Marked, NEW t \in Threads, NEW r \in Requests, NEW kind, NEW previous,
           StartsOn(t, r, kind, previous), kind = "bare" \/ previous # NoId => t \in kept',
           kept \subseteq kept',
           begun \subseteq begun', r \in begun', astray' \subseteq astray \union {r},
           AllItems' \subseteq AllItems
    PROVE  Marked'
<1>1. ASSUME NEW u \in Threads
      PROVE  \A q : Busy(u, q)' <=> IF u = t THEN q = r ELSE Busy(u, q)
  <2>1. Sound(u, stack[u], kept')
    BY SoundAnyway DEF Core, Places, SoundStacks
  <2>2. QED
    BY <2>1, BaseIsSound DEF Core
<1>2. \A u \in Threads, q \in Requests : Busy(u, q)' => Busy(u, q) \/ q \in begun'
  BY <1>1
<1>3. QED
  BY <1>2, StaysMarked

\* Every span, task, HTTP request and busy thread is for a request that entered.
LEMMA NextMarked == Core /\ Marked /\ [Next]_vars => Marked'
<1> SUFFICES ASSUME Core, Marked, [Next]_vars
             PROVE  Marked'
  OBVIOUS
<1> USE DEF Core
<1>1. ASSUME NEW t \in Threads, Asks(t)
      PROVE  Marked'
  <2>1. /\ Top(t).req \in Requests /\ ~Idle(t) /\ UNCHANGED <<begun, astray>>
        /\ \A x \in AllItems' :
              x \in AllItems \/ \E id \in {NoId, IdOf(t)} : x = Carried(Top(t).req, id)
    BY <1>1, AskingItems
  <2>2. Top(t).req \in begun
    BY <2>1 DEF Marked, Busy
  <2>3. \A x \in AllItems' : x \in AllItems \/ x.req \in begun'
    BY <2>1, <2>2 DEF Carried
  <2>4. \A u \in Threads, q \in Requests : Busy(u, q)' => Busy(u, q)
    BY <1>1, AskingStacks DEF Places
  <2>5. QED
    BY <2>1, <2>3, <2>4, StaysMarked
<1>2. ASSUME NEW t \in Callers, NEW r \in Requests, Enter(t, r)
      PROVE  Marked'
  <2>1. /\ begun' = begun \union {r} /\ astray' \subseteq astray \union {r}
        /\ AllItems' = AllItems
    BY <1>2 DEF Enter, spanVars, AllItems
  <2>2. QED
    BY <1>2, <2>1, EnterStarts, StartingMarked
<1>3. ASSUME NEW t \in PoolThreads, StartTask(t) \/ StartBareTask(t)
      PROVE  Marked'
  <2>1. /\ UNCHANGED <<inbox, reported, begun>> /\ ToSet(queue') \subseteq ToSet(queue)
        /\ Head(queue) \in Items /\ Head(queue) \in ToSet(queue)
        /\ astray' \subseteq astray \union {Head(queue).req}
    BY <1>3, StartTaskTypes DEF StartTask, StartBareTask, spanVars
  <2>2. AllItems' \subseteq AllItems
    BY <2>1 DEF AllItems
  <2>3. Head(queue).req \in Requests /\ Head(queue).req \in begun
    BY <2>1 DEF Items, Marked, AllItems
  <2>4. CASE StartTask(t)
    <3>1. /\ t \in Threads /\ StartsOn(t, Head(queue).req, "task", holder[t])
          /\ (holder[t] # NoId => t \in kept) /\ kept' = kept
      BY <2>4, StartTaskStarts
    <3>2. QED
      BY <2>1, <2>2, <2>3, <3>1, StartingMarked
  <2>5. CASE StartBareTask(t)
    <3>1. /\ t \in Threads /\ StartsOn(t, Head(queue).req, "bare", NoId)
          /\ kept' = kept \union {t}
      BY <2>5, StartBareTaskStarts
    <3>2. QED
      BY <2>1, <2>2, <2>3, <3>1, StartingMarked
  <2>6. QED
    BY <1>3, <2>4, <2>5
<1>4. ASSUME NEW m \in inbox, Handle(m)
      PROVE  Marked'
  <2>1. UNCHANGED <<queue, reported, begun>> /\ inbox' \subseteq inbox
    BY <1>4 DEF Handle, spanVars
  <2>2. AllItems' \subseteq AllItems
    BY <2>1 DEF AllItems
  <2>3. m.req \in begun /\ astray' \subseteq astray \union {m.req}
    BY <1>4 DEF Marked, AllItems, Handle
  <2>4. QED
    BY <1>4, <2>1, <2>2, <2>3, HandleStarts, StartingMarked
<1>5. ASSUME NEW t \in Threads, Quiet(t)
      PROVE  Marked'
  <2>1. /\ UNCHANGED <<begun, astray>>
        /\ \A x \in AllItems' :
              x \in AllItems \/ (~Idle(t) /\ x = Carried(Top(t).req, NoId))
    BY <1>5, QuietItems
  <2>2. ~Idle(t) => Top(t).req \in begun
    BY TopTypes DEF Marked, Busy
  <2>3. \A x \in AllItems' : x \in AllItems \/ x.req \in begun'
    BY <2>1, <2>2 DEF Carried
  <2>4. \A u \in Threads, q \in Requests : Busy(u, q)' => Busy(u, q)
    BY <1>5, QuietThreads
  <2>5. QED
    BY <2>1, <2>3, <2>4, StaysMarked
<1>6. ASSUME Elsewhere
      PROVE  Marked'
  <2>1. UNCHANGED <<stack, queue, reported, astray>>
    BY <1>6, ElsewhereKeeps
  <2>2. /\ begun \subseteq begun'
        /\ \A x \in inbox' : x \in inbox \/ x.req \in begun'
    BY <1>6 DEF Elsewhere, ExternalRequest, RateChanges, Carried, vars, programVars
  <2>3. \A x \in AllItems' : x \in AllItems \/ x.req \in begun'
    BY <2>1, <2>2 DEF AllItems
  <2>4. \A u \in Threads, q \in Requests : Busy(u, q)' => Busy(u, q)
    BY <2>1, SameThreads
  <2>5. QED
    BY <2>1, <2>2, <2>3, <2>4, StaysMarked
<1>7. \A t \in PoolThreads : t \in Threads
  BY DEF Threads
<1>8. QED
  BY <1>1, <1>2, <1>3, <1>4, <1>5, <1>6, <1>7 DEF Next, Asks, Quiet, Elsewhere

-------------------------------------------------------------------------------
(* What a step does to the claims of a request                             *)

\* The ids in use are ids.
LEMMA CarriedIds ==
    ASSUME Types
    PROVE  \A r, id : Carries(r, id) => id \in 1..ids
<1> SUFFICES ASSUME NEW r, NEW id, Carries(r, id)
             PROVE  id \in 1..ids
  OBVIOUS
<1>1. ASSUME Carried(r, id) \in AllItems
      PROVE  id \in 0..ids
  <2>1. queue \in Seq(Items)
    BY DEF Types
  <2>2. \A i \in DOMAIN queue : queue[i] \in Items
    BY <2>1
  <2>3. Carried(r, id) \in Items
    BY <1>1, <2>2 DEF AllItems, ToSet, Types
  <2>4. Carried(r, id).id = id
    BY DEF Carried
  <2>5. QED
    BY <2>3, <2>4 DEF Items
<1>2. ASSUME NEW t \in Threads, holder[t] = id
      PROVE  id \in 0..ids
  BY <1>2 DEF Types
<1>3. ASSUME NEW t \in Threads, Restores(t, id)
      PROVE  id \in 0..ids
  <2>1. PICK i \in DOMAIN stack[t] : stack[t][i].previous = id
    BY <1>3 DEF Restores
  <2>2. stack[t] \in Seq(Frames)
    BY DEF Types
  <2>3. stack[t][i] \in Frames
    BY <2>2
  <2>4. QED
    BY <2>1, <2>3 DEF Frames
<1>4. id \in 0..ids
  BY <1>1, <1>2, <1>3 DEF Carries
<1>5. id # 0 /\ ids \in Nat
  BY DEF Carries, NoId, Types
<1>6. QED
  BY <1>4, <1>5

\* Claims of different kinds differ.
LEMMA ClaimsDiffer ==
    /\ \A id, t : IdClaim(id) # ThreadClaim(t)
    /\ \A id : IdClaim(id) # HttpClaim
    /\ \A t : ThreadClaim(t) # HttpClaim
    /\ \A i, j : IdClaim(i) = IdClaim(j) => i = j
    /\ \A t, u : ThreadClaim(t) = ThreadClaim(u) => t = u
BY DEF IdClaim, ThreadClaim, HttpClaim

\* Nothing new: neither a place an id is in nor one it is missing from.
Steady(q) ==
    /\ \A id : Carries(q, id)' => Carries(q, id)
    /\ \A u \in Threads : Wants(u, q)' => Wants(u, q)
    /\ Carried(q, NoId) \in inbox' => Carried(q, NoId) \in inbox

\* At most one claim more, for a claim that goes or for an entry or a bare task.
Adds(q, y) == Claims(q)' \subseteq Claims(q) \union {y}

Exchanges(q) == (\E y : Adds(q, y)) /\ ~(Claims(q) \subseteq Claims(q)')

Gains(q) == (\E y : Adds(q, y)) /\ Allowed(q)' >= Allowed(q) + 1

\* An id that was there is new to a request only if the request went astray.
Fresh(q) == \A id : Carries(q, id)' => Carries(q, id) \/ q \in astray' \/ id \notin 1..ids

Effect ==
    /\ astray \subseteq astray'
    /\ \A q \in Requests : Allowed(q)' >= Allowed(q)
    /\ \/ \A q \in Requests : Steady(q)
       \/ \E r \in Requests :
             /\ \A q \in Requests \ {r} : Steady(q)
             /\ Exchanges(r) \/ Gains(r)
             /\ Fresh(r)

\* What is new to a request makes its new claim.
LEMMA Adding ==
    ASSUME Types, NEW q, NEW y,
           \A id : Carries(q, id)' => Carries(q, id) \/ y = IdClaim(id),
           \A u \in Threads : Wants(u, q)' => Wants(u, q) \/ y = ThreadClaim(u),
           Carried(q, NoId) \in inbox' => Carried(q, NoId) \in inbox \/ y = HttpClaim
    PROVE  Adds(q, y)
<1>1. ASSUME NEW id, Carries(q, id)'
      PROVE  IdClaim(id) \in Claims(q) \union {y}
  BY <1>1, CarriedIds DEF Claims
<1>2. ASSUME NEW u \in Threads, Wants(u, q)'
      PROVE  ThreadClaim(u) \in Claims(q) \union {y}
  BY <1>2 DEF Claims
<1>3. ASSUME Carried(q, NoId) \in inbox'
      PROVE  HttpClaim \in Claims(q) \union {y}
  BY <1>3 DEF Claims
<1>4. ASSUME NEW z \in Claims(q)'
      PROVE  \/ \E id : Carries(q, id)' /\ z = IdClaim(id)
             \/ \E u \in Threads : Wants(u, q)' /\ z = ThreadClaim(u)
             \/ Carried(q, NoId) \in inbox' /\ z = HttpClaim
  BY <1>4 DEF Claims
<1>5. QED
  BY <1>1, <1>2, <1>3, <1>4 DEF Adds

LEMMA SteadyClaims ==
    ASSUME Types, NEW q, Steady(q)
    PROVE  Claims(q)' \subseteq Claims(q)
<1>1. ASSUME NEW id, Carries(q, id)'
      PROVE  IdClaim(id) \in Claims(q)
  BY <1>1, CarriedIds DEF Claims, Steady
<1>2. ASSUME NEW u \in Threads, Wants(u, q)'
      PROVE  ThreadClaim(u) \in Claims(q)
  BY <1>2 DEF Claims, Steady
<1>3. ASSUME Carried(q, NoId) \in inbox'
      PROVE  HttpClaim \in Claims(q)
  BY <1>3 DEF Claims, Steady
<1>4. ASSUME NEW z \in Claims(q)'
      PROVE  \/ \E id : Carries(q, id)' /\ z = IdClaim(id)
             \/ \E u \in Threads : Wants(u, q)' /\ z = ThreadClaim(u)
             \/ Carried(q, NoId) \in inbox' /\ z = HttpClaim
  BY <1>4 DEF Claims
<1>5. QED
  BY <1>1, <1>2, <1>3, <1>4

\* A claim that is gone.
LEMMA ThreadClaimGone ==
    ASSUME NEW q, NEW t, ~Wants(t, q)'
    PROVE  ThreadClaim(t) \notin Claims(q)'
BY ClaimsDiffer DEF Claims

LEMMA HttpClaimGone ==
    ASSUME NEW q, Carried(q, NoId) \notin inbox'
    PROVE  HttpClaim \notin Claims(q)'
BY ClaimsDiffer DEF Claims

\* Nothing is taken from what a request is allowed.
LEMMA AllowedGrows ==
    ASSUME Types, begun \subseteq begun', bareTasks' = bareTasks, NEW q \in Requests
    PROVE  /\ Allowed(q) \in Nat
           /\ Allowed(q)' >= Allowed(q)
           /\ q \notin begun /\ q \in begun' => Allowed(q)' >= Allowed(q) + 1
<1>1. bareTasks[q] \in Nat
  BY DEF Types
<1>2. QED
  BY <1>1 DEF Allowed

\* A request that a thread starts to work for gets what is in the holder.
LEMMA Starting ==
    ASSUME Core, NEW t \in Threads, NEW r \in Requests, NEW kind, NEW previous,
           StartsOn(t, r, kind, previous), kind = "bare" \/ previous # NoId => t \in kept',
           kept \subseteq kept',
           \A u \in Threads \ {t} : holder'[u] = holder[u],
           AllItems' \subseteq AllItems, inbox' \subseteq inbox, NEW q
    PROVE  /\ \A id : Carries(q, id)' => Carries(q, id) \/ (q = r /\ id = holder'[t])
           /\ \A u \in Threads :
                 Wants(u, q)' => Wants(u, q) \/ (q = r /\ u = t /\ holder'[t] = NoId)
           /\ q # r => Steady(q)
<1>1. ASSUME NEW u \in Threads
      PROVE  /\ Busy(u, q)' <=> IF u = t THEN q = r ELSE Busy(u, q)
             /\ \A x : Restores(u, x)' => u # t /\ Restores(u, x)
  <2>1. Sound(u, stack[u], kept')
    BY SoundAnyway DEF Core, Places, SoundStacks
  <2>2. QED
    BY <2>1, BaseIsSound DEF Core
<1>2. ASSUME NEW id, Carries(q, id)'
      PROVE  Carries(q, id) \/ (q = r /\ id = holder'[t])
  <2>1. id # NoId
    BY <1>2 DEF Carries
  <2>2. CASE Carried(q, id) \in AllItems'
    BY <2>1, <2>2 DEF Carries
  <2>3. ASSUME NEW u \in Threads, Busy(u, q)', holder'[u] = id \/ Restores(u, id)'
        PROVE  Carries(q, id) \/ (q = r /\ id = holder'[t])
    <3>1. CASE u = t
      <4>1. ~Restores(u, id)'
        BY <1>1, <3>1
      <4>2. QED
        BY <1>1, <2>3, <3>1, <4>1
    <3>2. CASE u # t
      <4>1. Busy(u, q) /\ (holder[u] = id \/ Restores(u, id))
        BY <1>1, <2>3, <3>2
      <4>2. QED
        BY <2>1, <4>1 DEF Carries
    <3>3. QED
      BY <3>1, <3>2
  <2>4. QED
    BY <1>2, <2>2, <2>3 DEF Carries
<1>3. ASSUME NEW u \in Threads, Wants(u, q)'
      PROVE  Wants(u, q) \/ (q = r /\ u = t /\ holder'[t] = NoId)
  BY <1>1, <1>3 DEF Wants
<1>4. QED
  BY <1>2, <1>3 DEF Steady

\* Asking for an id spreads that id.
LEMMA AskingCarries ==
    ASSUME Core, NEW t \in Threads, Asks(t), NEW q
    PROVE  /\ \A id : Carries(q, id)' => Carries(q, id) \/ (q = Top(t).req /\ id = IdOf(t))
           /\ \A u \in Threads : Wants(u, q)' => Wants(u, q) /\ u # t
           /\ Carried(q, NoId) \in inbox' => Carried(q, NoId) \in inbox
<1> USE DEF Core, Places
<1> DEFINE r == Top(t).req
<1>1. /\ inbox' \subseteq inbox \union {Carried(r, IdOf(t))}
      /\ \A x \in AllItems' : x \in AllItems \/ \E id \in {NoId, IdOf(t)} : x = Carried(r, id)
      /\ IdOf(t) # NoId /\ ~Idle(t)
  BY AskingItems
<1>2. ASSUME NEW i, NEW j, Carried(q, i) = Carried(r, j)
      PROVE  q = r /\ i = j
  BY <1>2 DEF Carried
<1>3. /\ \A u \in Threads \ {t} : holder'[u] = holder[u]
      /\ holder'[t] = IF Report(t) /\ Top(t).kind = "main" THEN NoId ELSE IdOf(t)
  BY Asking
<1>4. \A u \in Threads : Busy(u, q)' => Busy(u, q)
  BY AskingStacks
<1>5. Busy(t, q) => q = r
  BY DEF Busy
<1>6. ASSUME NEW id, Carries(q, id)'
      PROVE  Carries(q, id) \/ (q = r /\ id = IdOf(t))
  <2>1. id # NoId
    BY <1>6 DEF Carries
  <2>2. CASE Carried(q, id) \in AllItems'
    BY <1>1, <1>2, <2>1, <2>2 DEF Carries
  <2>3. ASSUME NEW u \in Threads, Busy(u, q)', holder'[u] = id \/ Restores(u, id)'
        PROVE  Carries(q, id) \/ (q = r /\ id = IdOf(t))
    <3>1. Restores(u, id)' => Restores(u, id) \/ id = NoId \/ (u = t /\ id = IdOf(t))
      BY AskingStacks
    <3>2. QED
      BY <1>3, <1>4, <1>5, <2>1, <2>3, <3>1 DEF Carries
  <2>4. QED
    BY <1>6, <2>2, <2>3 DEF Carries
<1>7. ASSUME NEW u \in Threads, Wants(u, q)'
      PROVE  Wants(u, q) /\ u # t
  <2>1. CASE u = t
    <3>1. ~Idle(t)'
      BY <1>7, <2>1 DEF Wants, Busy
    <3>2. QED
      BY <1>1, <1>3, <1>7, <2>1, <3>1, AskingStacks DEF Wants
  <2>2. QED
    BY <1>3, <1>4, <1>7, <2>1 DEF Wants
<1>8. QED
  BY <1>1, <1>2, <1>6, <1>7

\* The thread had the id, or makes the one it stood for.
LEMMA AskingEffect ==
    ASSUME IdInv, NEW t \in Threads, Asks(t)
    PROVE  Effect
<1> USE DEF IdInv
<1>1. /\ Top(t).req \in Requests /\ ~Idle(t) /\ UNCHANGED <<begun, astray, bareTasks>>
      /\ IdOf(t) # NoId /\ Types
  BY AskingItems DEF Core
<1>2. PICK r \in Requests : r = Top(t).req /\ Busy(t, r)
  BY <1>1 DEF Busy
<1>3. ASSUME NEW q
      PROVE  /\ \A id : Carries(q, id)' => Carries(q, id) \/ (q = r /\ id = IdOf(t))
             /\ \A u \in Threads : Wants(u, q)' => Wants(u, q) /\ u # t
             /\ Carried(q, NoId) \in inbox' => Carried(q, NoId) \in inbox
  BY <1>2, AskingCarries
<1>4. astray \subseteq astray' /\ \A q \in Requests : Allowed(q)' >= Allowed(q)
  BY <1>1, AllowedGrows
<1>5. CASE holder[t] # NoId
  <2>1. IdOf(t) = holder[t] /\ Carries(r, holder[t])
    BY <1>2, <1>5 DEF IdOf, Carries
  <2>2. \A q \in Requests : Steady(q)
    BY <1>3, <2>1 DEF Steady
  <2>3. QED
    BY <1>4, <2>2 DEF Effect
<1>6. CASE holder[t] = NoId
  <2>1. IdOf(t) = ids + 1 /\ ids \in Nat
    BY <1>1, <1>6 DEF IdOf, Types
  <2>2. \A q \in Requests \ {r} : Steady(q)
    BY <1>3 DEF Steady
  <2>3. \E y : Adds(r, y)
    <3>1. PICK y : y = IdClaim(ids + 1)
      OBVIOUS
    <3>2. /\ \A id : Carries(r, id)' => Carries(r, id) \/ y = IdClaim(id)
          /\ \A u \in Threads : Wants(u, r)' => Wants(u, r)
          /\ Carried(r, NoId) \in inbox' => Carried(r, NoId) \in inbox
      BY <1>3, <2>1, <3>1
    <3>3. Adds(r, y)
      BY <1>1, <3>2, Adding
    <3>4. QED
      BY <3>3
  <2>4. ThreadClaim(t) \in Claims(r)
    BY <1>2, <1>6 DEF Wants, Claims
  <2>5. ThreadClaim(t) \notin Claims(r)'
    BY <1>3, ThreadClaimGone
  <2>6. Exchanges(r)
    BY <2>3, <2>4, <2>5 DEF Exchanges
  <2>7. Fresh(r)
    <3>1. ids + 1 \notin 1..ids
      BY <2>1
    <3>2. QED
      BY <1>3, <2>1, <3>1 DEF Fresh
  <2>8. QED
    BY <1>4, <2>2, <2>6, <2>7 DEF Effect
<1>7. QED
  BY <1>5, <1>6

\* An entry: with a clean holder, or with what an unsampled main left in it.
LEMMA EnterEffect ==
    ASSUME IdInv, NEW t \in Callers, NEW r \in Requests, Enter(t, r)
    PROVE  Effect
<1> USE DEF IdInv
<1>1. /\ t \in Threads /\ StartsOn(t, r, "main", NoId) /\ holder' = holder /\ kept' = kept
      /\ r \notin begun /\ begun' = begun \union {r} /\ Idle(t) /\ t # Dispatcher
      /\ astray' = IF t \in kept THEN astray \union {r} ELSE astray
      /\ bareTasks' = bareTasks /\ Types
  BY EnterStarts, TraceAssumption DEF Enter, Core
<1>2. AllItems' = AllItems /\ inbox' = inbox
  BY DEF Enter, spanVars, AllItems
<1>3. ASSUME NEW q
      PROVE  /\ \A id : Carries(q, id)' => Carries(q, id) \/ (q = r /\ id = holder'[t])
             /\ \A u \in Threads :
                   Wants(u, q)' => Wants(u, q) \/ (q = r /\ u = t /\ holder'[t] = NoId)
             /\ q # r => Steady(q)
  BY <1>1, <1>2, Starting
<1>4. /\ astray \subseteq astray'
      /\ \A q \in Requests : Allowed(q)' >= Allowed(q)
      /\ Allowed(r)' >= Allowed(r) + 1
  BY <1>1, AllowedGrows
<1>5. \A id : ~Carries(r, id)
  <2>1. /\ \A u \in Threads : ~Busy(u, r)
        /\ \A id : Carried(r, id) \notin AllItems
    BY <1>1 DEF Marked, Carried
  <2>2. QED
    BY <2>1 DEF Carries
<1>6. \E y : Adds(r, y)
  <2>1. CASE holder[t] = NoId
    <3>1. \A id : Carries(r, id)' => Carries(r, id)
      BY <1>1, <1>3, <2>1 DEF Carries
    <3>2. PICK y : y = ThreadClaim(t)
      OBVIOUS
    <3>3. \A u \in Threads : Wants(u, r)' => Wants(u, r) \/ y = ThreadClaim(u)
      BY <1>3, <3>2
    <3>4. Adds(r, y)
      BY <1>1, <1>2, <3>1, <3>3, Adding
    <3>5. QED
      BY <3>4
  <2>2. CASE holder[t] # NoId
    <3>1. PICK y : y = IdClaim(holder[t])
      OBVIOUS
    <3>2. /\ \A id : Carries(r, id)' => Carries(r, id) \/ y = IdClaim(id)
          /\ \A u \in Threads : Wants(u, r)' => Wants(u, r)
      BY <1>1, <1>3, <2>2, <3>1
    <3>3. Adds(r, y)
      BY <1>1, <1>2, <3>2, Adding
    <3>4. QED
      BY <3>3
  <2>3. QED
    BY <2>1, <2>2
<1>7. Fresh(r)
  <2>1. ASSUME NEW id, Carries(r, id)'
        PROVE  r \in astray'
    <3>1. id = holder[t] /\ id # NoId
      BY <1>1, <1>3, <1>5, <2>1 DEF Carries
    <3>2. t \in kept
      BY <1>1, <3>1 DEF Core, Places, ThreadsClean
    <3>3. QED
      BY <1>1, <3>2
  <2>2. QED
    BY <2>1 DEF Fresh
<1>8. QED
  BY <1>3, <1>4, <1>6, <1>7 DEF Effect, Gains

\* The dispatcher takes the id of the header, or what it has.
LEMMA HandleEffect ==
    ASSUME IdInv, NEW m \in inbox, Handle(m)
    PROVE  Effect
<1> USE DEF IdInv
<1>1. /\ Dispatcher \in Threads /\ m \in Items /\ Types
      /\ StartsOn(Dispatcher, m.req, "handle", NoId) /\ kept' = kept
      /\ \A u \in Threads \ {Dispatcher} : holder'[u] = holder[u]
      /\ holder'[Dispatcher] = IF m.id = NoId THEN holder[Dispatcher] ELSE m.id
  BY HandleStarts DEF Core
<1>2. PICK r \in Requests : r = m.req /\ m = Carried(r, m.id)
  BY <1>1 DEF Items, Carried
<1>3. inbox' = inbox \ {m} /\ UNCHANGED <<queue, reported, begun, bareTasks>>
  BY DEF Handle, spanVars
<1>4. AllItems' \subseteq AllItems /\ inbox' \subseteq inbox
  BY <1>3 DEF AllItems
<1>5. ASSUME NEW q
      PROVE  /\ \A id : Carries(q, id)' =>
                   Carries(q, id) \/ (q = r /\ id = holder'[Dispatcher])
             /\ \A u \in Threads : Wants(u, q)' =>
                   Wants(u, q) \/ (q = r /\ u = Dispatcher /\ holder'[Dispatcher] = NoId)
             /\ q # r => Steady(q)
  BY <1>1, <1>2, <1>4, Starting
<1>6. astray \subseteq astray' /\ \A q \in Requests : Allowed(q)' >= Allowed(q)
  BY <1>1, <1>3, AllowedGrows DEF Handle
<1>7. CASE m.id # NoId
  <2>1. Carries(r, m.id)
    BY <1>2, <1>7 DEF Carries, AllItems
  <2>2. Steady(r)
    BY <1>1, <1>4, <1>5, <1>7, <2>1 DEF Steady
  <2>3. QED
    BY <1>5, <1>6, <2>2 DEF Effect
<1>8. CASE m.id = NoId
  <2>1. HttpClaim \in Claims(r) /\ holder'[Dispatcher] = holder[Dispatcher]
    BY <1>1, <1>2, <1>8 DEF Claims
  <2>2. HttpClaim \notin Claims(r)'
    BY <1>2, <1>3, <1>8, HttpClaimGone
  <2>3. \E y : Adds(r, y)
    <3>1. CASE holder[Dispatcher] = NoId
      <4>1. \A id : Carries(r, id)' => Carries(r, id)
        BY <1>5, <2>1, <3>1 DEF Carries
      <4>2. PICK y : y = ThreadClaim(Dispatcher)
        OBVIOUS
      <4>3. \A u \in Threads : Wants(u, r)' => Wants(u, r) \/ y = ThreadClaim(u)
        BY <1>5, <4>2
      <4>4. Adds(r, y)
        BY <1>1, <1>4, <4>1, <4>3, Adding
      <4>5. QED
        BY <4>4
    <3>2. CASE holder[Dispatcher] # NoId
      <4>1. PICK y : y = IdClaim(holder[Dispatcher])
        OBVIOUS
      <4>2. /\ \A id : Carries(r, id)' => Carries(r, id) \/ y = IdClaim(id)
            /\ \A u \in Threads : Wants(u, r)' => Wants(u, r)
        BY <1>5, <2>1, <3>2, <4>1
      <4>3. Adds(r, y)
        BY <1>1, <1>4, <4>2, Adding
      <4>4. QED
        BY <4>3
    <3>3. QED
      BY <3>1, <3>2
  <2>4. Fresh(r)
    <3>1. ASSUME NEW id, Carries(r, id)', ~Carries(r, id)
          PROVE  r \in astray'
      <4>1. id = holder[Dispatcher] /\ id # NoId
        BY <1>5, <2>1, <3>1 DEF Carries
      <4>2. QED
        BY <1>2, <1>8, <4>1 DEF Handle
    <3>2. QED
      BY <3>1 DEF Fresh
  <2>5. QED
    BY <1>5, <1>6, <2>1, <2>2, <2>3, <2>4 DEF Effect, Exchanges
<1>9. QED
  BY <1>7, <1>8

\* A pool thread takes the id that came with the task.
LEMMA StartTaskEffect ==
    ASSUME IdInv, NEW t \in PoolThreads, StartTask(t)
    PROVE  Effect
<1> USE DEF IdInv
<1>1. /\ t \in Threads /\ StartsOn(t, Head(queue).req, "task", holder[t])
      /\ holder[t] # NoId => t \in kept
      /\ kept' = kept /\ \A u \in Threads \ {t} : holder'[u] = holder[u]
      /\ holder'[t] = Head(queue).id /\ Head(queue).id # NoId
      /\ Head(queue) \in Items /\ Head(queue) \in ToSet(queue) /\ Types
  BY StartTaskStarts DEF Core
<1>2. PICK r \in Requests, id \in Nat :
         r = Head(queue).req /\ id = Head(queue).id /\ Head(queue) = Carried(r, id)
  BY <1>1 DEF Items, Carried, Types
<1>3. /\ ToSet(queue') \subseteq ToSet(queue)
      /\ UNCHANGED <<inbox, reported, begun, astray, bareTasks>>
  BY StartTaskTypes DEF Core, StartTask, spanVars
<1>4. AllItems' \subseteq AllItems /\ inbox' \subseteq inbox
  BY <1>3 DEF AllItems
<1>5. ASSUME NEW q
      PROVE  /\ \A x : Carries(q, x)' => Carries(q, x) \/ (q = r /\ x = holder'[t])
             /\ \A u \in Threads :
                   Wants(u, q)' => Wants(u, q) \/ (q = r /\ u = t /\ holder'[t] = NoId)
             /\ q # r => Steady(q)
  BY <1>1, <1>2, <1>4, Starting
<1>6. Carries(r, id)
  BY <1>1, <1>2 DEF Carries, AllItems
<1>7. Steady(r)
  BY <1>1, <1>2, <1>4, <1>5, <1>6 DEF Steady
<1>8. astray \subseteq astray' /\ \A q \in Requests : Allowed(q)' >= Allowed(q)
  BY <1>1, <1>3, AllowedGrows
<1>9. QED
  BY <1>5, <1>7, <1>8 DEF Effect

\* A bare task has nothing to go by but what is in the thread's holder.
LEMMA StartBareTaskEffect ==
    ASSUME IdInv, NEW t \in PoolThreads, StartBareTask(t)
    PROVE  Effect
<1> USE DEF IdInv
<1>0. Head(queue).req \in Requests
  BY StartBareTaskStarts DEF Items
<1> PICK r \in Requests : r = Head(queue).req
  BY <1>0
<1>1. /\ t \in Threads /\ StartsOn(t, r, "bare", NoId)
      /\ kept' = kept \union {t} /\ holder' = holder
      /\ Types
  BY StartBareTaskStarts DEF Core
<1>2. /\ ToSet(queue') \subseteq ToSet(queue) /\ UNCHANGED <<inbox, reported, begun>>
      /\ astray' = IF holder[t] # NoId THEN astray \union {r} ELSE astray
      /\ bareTasks' = [bareTasks EXCEPT ![r] = @ + 1]
  BY StartTaskTypes DEF Core, StartBareTask
<1>3. AllItems' \subseteq AllItems /\ inbox' \subseteq inbox
  BY <1>2 DEF AllItems
<1>4. ASSUME NEW q
      PROVE  /\ \A x : Carries(q, x)' => Carries(q, x) \/ (q = r /\ x = holder[t])
             /\ \A u \in Threads :
                   Wants(u, q)' => Wants(u, q) \/ (q = r /\ u = t /\ holder[t] = NoId)
             /\ q # r => Steady(q)
  <2>1. /\ \A x : Carries(q, x)' => Carries(q, x) \/ (q = r /\ x = holder'[t])
        /\ \A u \in Threads :
              Wants(u, q)' => Wants(u, q) \/ (q = r /\ u = t /\ holder'[t] = NoId)
        /\ q # r => Steady(q)
    <3>1. /\ t \in kept' /\ kept \subseteq kept'
          /\ \A u \in Threads \ {t} : holder'[u] = holder[u]
      BY <1>1
    <3>2. QED
      BY <1>1, <1>3, <3>1, Starting
  <2>2. QED
    BY <1>1, <2>1
<1>5. /\ \A q \in Requests : Allowed(q)' >= Allowed(q)
      /\ Allowed(r)' >= Allowed(r) + 1
  <2>1. \A q \in Requests : bareTasks[q] \in Nat
    BY <1>1 DEF Types
  <2>2. \A q \in Requests : bareTasks'[q] = IF q = r THEN bareTasks[q] + 1 ELSE bareTasks[q]
    BY <1>1, <1>2 DEF Types
  <2>3. QED
    BY <1>1, <1>2, <2>1, <2>2 DEF Allowed
<1>6. \E y : Adds(r, y)
  <2>1. CASE holder[t] = NoId
    <3>1. \A id : Carries(r, id)' => Carries(r, id)
      BY <1>4, <2>1 DEF Carries
    <3>2. PICK y : y = ThreadClaim(t)
      OBVIOUS
    <3>3. \A u \in Threads : Wants(u, r)' => Wants(u, r) \/ y = ThreadClaim(u)
      BY <1>4, <3>2
    <3>4. Adds(r, y)
      BY <1>1, <1>3, <3>1, <3>3, Adding
    <3>5. QED
      BY <3>4
  <2>2. CASE holder[t] # NoId
    <3>1. PICK y : y = IdClaim(holder[t])
      OBVIOUS
    <3>2. /\ \A id : Carries(r, id)' => Carries(r, id) \/ y = IdClaim(id)
          /\ \A u \in Threads : Wants(u, r)' => Wants(u, r)
      BY <1>4, <2>2, <3>1
    <3>3. Adds(r, y)
      BY <1>1, <1>3, <3>2, Adding
    <3>4. QED
      BY <3>3
  <2>3. QED
    BY <2>1, <2>2
<1>7. Fresh(r)
  <2>1. ASSUME NEW id, Carries(r, id)', ~Carries(r, id)
        PROVE  r \in astray'
    <3>1. id = holder[t] /\ id # NoId
      BY <1>4, <2>1 DEF Carries
    <3>2. QED
      BY <1>2, <3>1
  <2>2. QED
    BY <2>1 DEF Fresh
<1>8. QED
  BY <1>1, <1>2, <1>4, <1>5, <1>6, <1>7 DEF Effect, Gains

\* Quiet steps move ids that are there.
LEMMA QuietEffect ==
    ASSUME IdInv, NEW t \in Threads, Quiet(t)
    PROVE  Effect
<1> USE DEF IdInv
<1>1. /\ UNCHANGED <<inbox, begun, astray, bareTasks>> /\ Types
      /\ \A x \in AllItems' : x \in AllItems \/ x.id = NoId
  BY QuietItems DEF Core, Carried
<1>2. ASSUME NEW q \in Requests
      PROVE  Steady(q)
  <2>1. ASSUME NEW id, Carries(q, id)'
        PROVE  Carries(q, id)
    <3>1. id # NoId /\ Carried(q, id).id = id
      BY <2>1 DEF Carries, Carried
    <3>2. QED
      BY <1>1, <2>1, <3>1, QuietThreads DEF Carries
  <2>2. ASSUME NEW u \in Threads, Wants(u, q)'
        PROVE  Wants(u, q)
    BY <2>2, QuietThreads DEF Wants
  <2>3. QED
    BY <1>1, <2>1, <2>2 DEF Steady
<1>3. QED
  BY <1>1, <1>2, AllowedGrows DEF Effect

\* A request from outside waits without an id; nothing else changes elsewhere.
LEMMA ElsewhereEffect ==
    ASSUME IdInv, Elsewhere
    PROVE  Effect
<1> USE DEF IdInv
<1>1. UNCHANGED <<holder, stack, queue, ids, reported, astray, bareTasks>> /\ Types
  BY ElsewhereKeeps DEF Core
<1>2. ASSUME NEW u \in Threads, NEW q
      PROVE  /\ Busy(u, q)' <=> Busy(u, q)
             /\ Wants(u, q)' <=> Wants(u, q)
             /\ \A x : Restores(u, x)' <=> Restores(u, x)
  BY <1>1, SameThreads DEF Wants
<1>3. ASSUME NEW r \in Requests, ExternalRequest(r)
      PROVE  Effect
  <2>1. /\ r \notin begun /\ begun' = begun \union {r}
        /\ inbox' = inbox \union {Carried(r, NoId)}
    BY <1>3 DEF ExternalRequest
  <2>2. ASSUME NEW q, NEW id, Carries(q, id)'
        PROVE  Carries(q, id)
    <3>1. id # NoId /\ Carried(q, id) # Carried(r, NoId)
      BY <2>2 DEF Carries, Carried
    <3>2. AllItems' = AllItems \union {Carried(r, NoId)}
      BY <1>1, <2>1 DEF AllItems
    <3>3. QED
      BY <1>1, <1>2, <2>2, <3>1, <3>2 DEF Carries
  <2>3. \A q \in Requests \ {r} : Steady(q)
    <3>1. \A q : q # r => Carried(q, NoId) # Carried(r, NoId)
      BY DEF Carried
    <3>2. QED
      BY <1>2, <2>1, <2>2, <3>1 DEF Steady
  <2>4. Adds(r, HttpClaim)
    BY <1>1, <1>2, <2>2, Adding
  <2>5. /\ \A q \in Requests : Allowed(q)' >= Allowed(q)
        /\ Allowed(r)' >= Allowed(r) + 1
    BY <1>1, <2>1, AllowedGrows
  <2>6. Gains(r) /\ Fresh(r)
    BY <2>2, <2>4, <2>5 DEF Gains, Fresh
  <2>7. QED
    BY <1>1, <2>3, <2>5, <2>6 DEF Effect
<1>4. CASE RateChanges \/ UNCHANGED vars
  <2>1. inbox' = inbox /\ begun' = begun
    BY <1>4 DEF RateChanges, vars, programVars
  <2>2. AllItems' = AllItems
    BY <1>1, <2>1 DEF AllItems
  <2>3. \A q \in Requests : Steady(q)
    BY <1>1, <1>2, <2>1, <2>2 DEF Steady, Carries
  <2>4. QED
    BY <1>1, <2>1, <2>3, AllowedGrows DEF Effect
<1>5. QED
  BY <1>3, <1>4 DEF Elsewhere

-------------------------------------------------------------------------------
(* One id for each request                                                 *)

\* A set that loses an element for each one it gets is no larger; one that may get an
\* element has at most one more.
LEMMA SetsCompared ==
    ASSUME NEW S, IsFiniteSet(S), NEW T, NEW y
    PROVE  /\ T \subseteq S => IsFiniteSet(T) /\ Cardinality(T) <= Cardinality(S)
           /\ T \subseteq S \union {y} =>
                 IsFiniteSet(T) /\ Cardinality(T) <= Cardinality(S) + 1
           /\ T \subseteq S \union {y} /\ ~(S \subseteq T) =>
                 IsFiniteSet(T) /\ Cardinality(T) <= Cardinality(S)
<1>1. Cardinality(S) \in Nat
  BY FS_CardinalityType
<1>2. T \subseteq S => IsFiniteSet(T) /\ Cardinality(T) <= Cardinality(S)
  BY FS_Subset
<1>3. IsFiniteSet(S \union {y}) /\ Cardinality(S \union {y}) <= Cardinality(S) + 1
  BY <1>1, FS_AddElement
<1>4. ASSUME T \subseteq S \union {y}
      PROVE  IsFiniteSet(T) /\ Cardinality(T) <= Cardinality(S) + 1
  <2>1. IsFiniteSet(T) /\ Cardinality(T) <= Cardinality(S \union {y})
    BY <1>3, <1>4, FS_Subset
  <2>2. Cardinality(T) \in Nat /\ Cardinality(S \union {y}) \in Nat
    BY <1>3, <2>1, FS_CardinalityType
  <2>3. QED
    BY <1>1, <1>3, <2>1, <2>2
<1>5. ASSUME T \subseteq S \union {y}, NEW x \in S, x \notin T
      PROVE  IsFiniteSet(T) /\ Cardinality(T) <= Cardinality(S)
  <2> PICK R : R = S \ {x}
    OBVIOUS
  <2>1. IsFiniteSet(R) /\ Cardinality(R) = Cardinality(S) - 1 /\ Cardinality(R) \in Nat
    BY <1>5, FS_RemoveElement, FS_CardinalityType
  <2>2. IsFiniteSet(R \union {y}) /\ Cardinality(R \union {y}) <= Cardinality(R) + 1
    <3>1. /\ IsFiniteSet(R \union {y})
          /\ Cardinality(R \union {y}) =
                IF y \in R THEN Cardinality(R) ELSE Cardinality(R) + 1
      BY <2>1, FS_AddElement
    <3>2. QED
      BY <2>1, <3>1
  <2>3. T \subseteq R \union {y}
    BY <1>5
  <2>4. IsFiniteSet(T) /\ Cardinality(T) <= Cardinality(R \union {y})
    BY <2>2, <2>3, FS_Subset
  <2>5. Cardinality(T) \in Nat /\ Cardinality(R \union {y}) \in Nat
    BY <2>2, <2>4, FS_CardinalityType
  <2>6. QED
    BY <1>1, <2>1, <2>2, <2>4, <2>5
<1>6. QED
  BY <1>2, <1>4, <1>5

\* A step that does only that to the claims of a request keeps them within what it is
\* allowed ...
LEMMA EffectKeepsBudget ==
    ASSUME IdInv, Types', Effect
    PROVE  Budget'
<1> USE DEF IdInv, Core
<1>1. ASSUME NEW q \in Requests
      PROVE  /\ Allowed(q) \in Nat /\ Allowed(q)' \in Nat
             /\ IsFiniteSet(Claims(q)) /\ Cardinality(Claims(q)) \in Nat
             /\ Cardinality(Claims(q)) <= Allowed(q) /\ Allowed(q)' >= Allowed(q)
  <2>1. bareTasks[q] \in Nat /\ bareTasks'[q] \in Nat
    BY DEF Types
  <2>2. Allowed(q) \in Nat /\ Allowed(q)' \in Nat
    BY <2>1 DEF Allowed
  <2>3. IsFiniteSet(Claims(q)) /\ Cardinality(Claims(q)) <= Allowed(q)
    BY DEF Budget
  <2>4. QED
    BY <2>2, <2>3, FS_CardinalityType DEF Effect
<1>2. ASSUME NEW q \in Requests, Steady(q) \/ Exchanges(q) \/ Gains(q)
      PROVE  IsFiniteSet(Claims(q)') /\ Cardinality(Claims(q)') <= Allowed(q)'
  <2>1. CASE Steady(q)
    <3>1. /\ IsFiniteSet(Claims(q)')
          /\ Cardinality(Claims(q)') <= Cardinality(Claims(q))
      BY <1>1, <2>1, SteadyClaims, SetsCompared
    <3>2. Cardinality(Claims(q)') \in Nat
      BY <3>1, FS_CardinalityType
    <3>3. QED
      BY <1>1, <3>1, <3>2
  <2>2. CASE Exchanges(q)
    <3>1. PICK y : Claims(q)' \subseteq Claims(q) \union {y}
      BY <2>2 DEF Exchanges, Adds
    <3>2. ~(Claims(q) \subseteq Claims(q)')
      BY <2>2 DEF Exchanges
    <3>3. /\ IsFiniteSet(Claims(q)')
          /\ Cardinality(Claims(q)') <= Cardinality(Claims(q))
      BY <1>1, <3>1, <3>2, SetsCompared
    <3>4. Cardinality(Claims(q)') \in Nat
      BY <3>3, FS_CardinalityType
    <3>5. QED
      BY <1>1, <3>3, <3>4
  <2>3. CASE Gains(q)
    <3>1. PICK y : Claims(q)' \subseteq Claims(q) \union {y}
      BY <2>3 DEF Gains, Adds
    <3>2. /\ IsFiniteSet(Claims(q)')
          /\ Cardinality(Claims(q)') <= Cardinality(Claims(q)) + 1
      BY <1>1, <3>1, SetsCompared
    <3>3. Cardinality(Claims(q)') \in Nat /\ Allowed(q)' >= Allowed(q) + 1
      BY <2>3, <3>2, FS_CardinalityType DEF Gains
    <3>4. QED
      BY <1>1, <3>2, <3>3
  <2>4. QED
    BY <1>2, <2>1, <2>2, <2>3
<1>3. QED
  BY <1>2 DEF Effect, Budget

\* ... and requests apart.
LEMMA EffectKeepsApart ==
    ASSUME IdInv, Effect
    PROVE  Apart'
<1> USE DEF IdInv
<1>1. \A r, id : Carries(r, id) => id \in 1..ids
  BY CarriedIds DEF Core
<1>2. astray \subseteq astray'
  BY DEF Effect
<1>3. ASSUME NEW q, Steady(q)
      PROVE  \A id : Carries(q, id)' => Carries(q, id)
  BY <1>3 DEF Steady
<1>4. CASE \A q \in Requests : Steady(q)
  BY <1>1, <1>2, <1>3, <1>4 DEF Apart
<1>5. ASSUME NEW r \in Requests, \A q \in Requests \ {r} : Steady(q), Fresh(r)
      PROVE  Apart'
  <2>1. \A id : Carries(r, id)' => Carries(r, id) \/ r \in astray' \/ id \notin 1..ids
    BY <1>5 DEF Fresh
  <2>2. ASSUME NEW p \in Requests \ astray', NEW q \in Requests \ astray',
               NEW i \in 1..ids', Carries(p, i)', Carries(q, i)'
        PROVE  p = q
    <3>1. CASE p # r \/ q # r
      <4>1. i \in 1..ids
        BY <1>1, <1>3, <1>5, <2>2, <3>1
      <4>2. Carries(p, i) /\ Carries(q, i)
        BY <1>3, <1>5, <2>1, <2>2, <4>1
      <4>3. QED
        BY <1>2, <4>1, <4>2 DEF Apart
    <3>2. QED
      BY <3>1
  <2>3. QED
    BY <2>2 DEF Apart
<1>6. QED
  BY <1>4, <1>5 DEF Effect

LEMMA NextIdInv == IdInv /\ [Next]_vars => IdInv'
<1> SUFFICES ASSUME IdInv, [Next]_vars
             PROVE  IdInv'
  OBVIOUS
<1>1. Core' /\ Marked'
  BY NextCore, NextMarked DEF IdInv
<1>2. \A t \in PoolThreads : t \in Threads
  BY DEF Threads
<1>3. Effect
  BY <1>2, AskingEffect, EnterEffect, HandleEffect, StartTaskEffect, StartBareTaskEffect,
     QuietEffect, ElsewhereEffect DEF Next, Asks, Quiet, Elsewhere
<1>4. Types'
  BY <1>1 DEF Core
<1>5. Budget' /\ Apart'
  BY <1>3, <1>4, EffectKeepsBudget, EffectKeepsApart
<1>6. QED
  BY <1>1, <1>5 DEF IdInv

LEMMA InitIdInv == Init => IdInv
<1> SUFFICES ASSUME Init
             PROVE  IdInv
  OBVIOUS
<1>1. Core
  BY InitCore
<1>2. inbox = {} /\ AllItems = {} /\ begun = {} /\ astray = {} /\ ids = 0
  BY DEF Init, AllItems, ToSet
<1>3. \A r, t : t \in Threads => ~Busy(t, r)
  BY DEF Init, Busy, Idle
<1>4. \A r : Claims(r) = {}
  <2>1. \A r, id : ~Carries(r, id)
    BY <1>2, <1>3 DEF Carries
  <2>2. \A r, t : t \in Threads => ~Wants(t, r)
    BY <1>3 DEF Wants
  <2>3. QED
    BY <1>2, <2>1, <2>2 DEF Claims
<1>5. Marked
  BY <1>2, <1>3 DEF Marked
<1>6. Budget
  <2>1. \A r \in Requests : Allowed(r) = 0
    BY <1>2 DEF Init, Allowed
  <2>2. QED
    BY <1>4, <2>1, FS_EmptySet DEF Budget
<1>7. Apart
  BY <1>2, <1>3 DEF Apart, Carries
<1>8. QED
  BY <1>1, <1>5, <1>6, <1>7 DEF IdInv

LEMMA IdInvHolds == Spec => []IdInv
BY InitIdInv, NextIdInv, PTL DEF Spec

\* Types; the dispatcher keeps no id of a main or a bare task, only requests that entered
\* go astray, and a thread in a wrapped task has an id.
THEOREM TypeCorrect == Spec => []TypeOK
<1>1. IdInv => TypeOK
  <2> SUFFICES ASSUME IdInv
               PROVE  TypeOK
    OBVIOUS
  <2>1. Types /\ kept \subseteq Callers \union PoolThreads /\ astray \subseteq begun
    BY DEF IdInv, Core, Places, Marked
  <2>2. ASSUME NEW t \in Threads, ~Idle(t), Top(t).kind = "task"
        PROVE  holder[t] # NoId
    <3>1. stack[t] \in Seq(Frames) /\ stack[t] # <<>>
      BY <2>1, <2>2 DEF Types, Idle
    <3>2. 1 \in DOMAIN stack[t] /\ Top(t) = stack[t][1]
      BY <3>1, Popping DEF Top
    <3>3. InTask(t)
      BY <2>2, <3>2 DEF InTask
    <3>4. QED
      BY <3>3 DEF IdInv, Core, Places, TasksHaveIds
  <2>3. QED
    BY <2>1, <2>2 DEF TypeOK
<1>2. QED
  BY <1>1, IdInvHolds, PTL

\* What stands for a request is what the invariant speaks of.
LEMMA IdsForCarried ==
    ASSUME IdInv, NEW r \in Requests, NEW id \in IdsFor(r)
    PROVE  id \in 1..ids /\ Carries(r, id)
<1>1. id # NoId
  BY DEF IdsFor
<1>2. CASE \E s \in reported \union inbox \union ToSet(queue) : s.req = r /\ id = s.id
  <2>1. PICK s \in reported \union inbox \union ToSet(queue) : s.req = r /\ id = s.id
    BY <1>2
  <2>2. s \in Items
    <3>1. queue \in Seq(Items) /\ reported \subseteq Items /\ inbox \subseteq Items
      BY DEF IdInv, Core, Types
    <3>2. \A i \in DOMAIN queue : queue[i] \in Items
      BY <3>1
    <3>3. QED
      BY <3>1, <3>2 DEF ToSet
  <2>3. s = Carried(r, id)
    BY <2>1, <2>2 DEF Items, Carried
  <2>4. QED
    BY <1>1, <2>1, <2>3, CarriedIds DEF Carries, AllItems, IdInv, Core
<1>3. CASE \E t \in Threads : Busy(t, r) /\ id = holder[t]
  BY <1>1, <1>3, CarriedIds DEF Carries, IdInv, Core
<1>4. QED
  BY <1>2, <1>3 DEF IdsFor, Busy

\* All spans, headers, waiting tasks and busy threads of a request have one id, and at
\* most one more for each of its tasks that ran bare.
THEOREM OneId == Spec => []OneIdPerRequest
<1>1. IdInv => OneIdPerRequest
  <2> SUFFICES ASSUME IdInv, NEW r \in Requests
               PROVE  Cardinality(IdsFor(r)) <= 1 + bareTasks[r]
    BY DEF OneIdPerRequest
  <2> DEFINE f == [id \in IdsFor(r) |-> IdClaim(id)]
  <2>1. \A id \in IdsFor(r) : IdClaim(id) \in Claims(r)
    BY IdsForCarried DEF Claims
  <2>2. f \in Injection(IdsFor(r), Claims(r))
    <3>1. f \in [IdsFor(r) -> Claims(r)]
      BY <2>1
    <3>2. \A i, j \in IdsFor(r) : f[i] = f[j] => i = j
      BY ClaimsDiffer
    <3>3. QED
      BY <3>1, <3>2 DEF Injection, IsInjective
  <2>3. IsFiniteSet(Claims(r)) /\ Cardinality(Claims(r)) <= Allowed(r)
    BY DEF IdInv, Budget
  <2>4. IsFiniteSet(IdsFor(r)) /\ Cardinality(IdsFor(r)) <= Cardinality(Claims(r))
    BY <2>2, <2>3, FS_Injection
  <2>5. Cardinality(IdsFor(r)) \in Nat /\ Cardinality(Claims(r)) \in Nat
    BY <2>3, <2>4, FS_CardinalityType
  <2>6. bareTasks[r] \in Nat /\ Allowed(r) \in Nat /\ Allowed(r) <= 1 + bareTasks[r]
    BY DEF IdInv, Core, Types, Allowed
  <2>7. QED
    BY <2>3, <2>4, <2>5, <2>6
<1>2. QED
  BY <1>1, IdInvHolds, PTL

\* Requests share an id only if one of them met a holder that had not been cleared.
THEOREM NoIdShared == Spec => []IdsApart
<1>1. IdInv => IdsApart
  <2> SUFFICES ASSUME IdInv, NEW r \in Requests \ astray, NEW q \in Requests \ astray, r # q,
                      NEW id \in IdsFor(r), id \in IdsFor(q)
               PROVE  FALSE
    BY DEF IdsApart
  <2>1. id \in 1..ids /\ Carries(r, id) /\ Carries(q, id)
    BY IdsForCarried
  <2>2. QED
    BY <2>1 DEF IdInv, Apart
<1>2. QED
  BY <1>1, IdInvHolds, PTL
===============================================================================
