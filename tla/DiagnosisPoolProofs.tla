-------------------------- MODULE DiagnosisPoolProofs --------------------------
(***************************************************************************)
(* Proofs about DiagnosisPool, for pools of any size, queues of any         *)
(* capacity, any number of retries, spans and restarts, and any expiry.     *)
(***************************************************************************)
EXTENDS DiagnosisPool, FiniteSetTheorems, TLAPS

-------------------------------------------------------------------------------
(* The pool's queue                                                        *)

\* The queue with a span added holds it and what it held.
LEMMA QueueAfterAppend ==
    ASSUME NEW S, NEW q \in Seq(S), NEW x \in S
    PROVE  /\ Append(q, x) \in Seq(S)
           /\ Len(Append(q, x)) = Len(q) + 1
           /\ DOMAIN q = 1..Len(q)
           /\ DOMAIN Append(q, x) = 1..Len(q) + 1
           /\ \A i \in DOMAIN q : Append(q, x)[i] = q[i]
           /\ Append(q, x)[Len(q) + 1] = x
           /\ Len(q) \in Nat
OBVIOUS

\* A non-empty queue without its head.
LEMMA QueueAfterTail ==
    ASSUME NEW S, NEW q \in Seq(S), q # <<>>
    PROVE  /\ Head(q) = q[1] /\ 1 \in DOMAIN q /\ Head(q) \in S
           /\ Tail(q) \in Seq(S)
           /\ Len(Tail(q)) = Len(q) - 1
           /\ Len(q) \in Nat \ {0}
           /\ DOMAIN q = 1..Len(q)
           /\ DOMAIN Tail(q) = 1..Len(q) - 1
           /\ \A i \in DOMAIN Tail(q) : Tail(q)[i] = q[i + 1]
OBVIOUS

\* A queue of spans holds nothing else.
LEMMA QueuedSpans ==
    ASSUME NEW S, NEW q \in Seq(S)
    PROVE  ToSet(q) \subseteq S
BY DEF ToSet

\* Spans that have been submitted stay submitted.
LEMMA SubmittedSpans ==
    ASSUME NEW n \in Nat, NEW m \in Nat, n <= m
    PROVE  /\ 0..n \subseteq 0..m /\ 1..n \subseteq 1..m
           /\ Seq(1..n) \subseteq Seq(1..m)
<1>1. 0..n \subseteq 0..m /\ 1..n \subseteq 1..m
  OBVIOUS
<1>2. ASSUME NEW q \in Seq(1..n)
      PROVE  q \in Seq(1..m)
  BY <1>1
<1>3. QED
  BY <1>1, <1>2

-------------------------------------------------------------------------------
(* Type correctness                                                        *)

\* A thread at work has a span to diagnose; a span on offer is one too.
LEMMA BusyHoldsSpan ==
    ASSUME TypeOK
    PROVE  /\ offer # "none" => offered \in 1..submitted
           /\ \A t \in Threads :
                 thread[t] \notin {"none", "idle"} => job[t] \in 1..submitted
<1>1. submitted \in Nat /\ \A n \in 0..submitted : n # 0 => n \in 1..submitted
  BY DiagnosisAssumption DEF TypeOK
<1>2. offer # "none" => offered \in 0..submitted /\ offered # 0
  BY DEF TypeOK, None
<1>3. \A t \in Threads : job[t] \in 0..submitted
  BY DEF TypeOK
<1>4. \A t \in Threads : thread[t] \notin {"none", "idle"} => job[t] # 0
  BY DEF TypeOK, None
<1>5. QED
  BY <1>1, <1>2, <1>3, <1>4

\* The queue holds spans, and taking one or adding the offered one if there is room
\* leaves it so.
LEMMA QueueTyped ==
    ASSUME TypeOK
    PROVE  /\ queue # <<>> =>
                 /\ Head(queue) \in 1..submitted
                 /\ Tail(queue) \in Seq(1..submitted)
                 /\ Len(Tail(queue)) <= QueueCapacity
           /\ offer # "none" /\ Len(queue) < QueueCapacity =>
                 /\ Append(queue, offered) \in Seq(1..submitted)
                 /\ Len(Append(queue, offered)) <= QueueCapacity
           /\ ToSet(queue) \subseteq 1..submitted
<1>1. queue \in Seq(1..submitted) /\ Len(queue) \in Nat /\ Len(queue) <= QueueCapacity
      /\ QueueCapacity \in Nat
  BY DiagnosisAssumption DEF TypeOK
<1>2. queue # <<>> => Head(queue) \in 1..submitted /\ Tail(queue) \in Seq(1..submitted)
                     /\ Len(Tail(queue)) = Len(queue) - 1
  BY <1>1, QueueAfterTail
<1>3. offer # "none" => Append(queue, offered) \in Seq(1..submitted)
                       /\ Len(Append(queue, offered)) = Len(queue) + 1
  BY <1>1, BusyHoldsSpan, QueueAfterAppend
<1>4. Len(queue) - 1 <= QueueCapacity
  BY <1>1
<1>5. ToSet(queue) \subseteq 1..submitted
  BY <1>1, QueuedSpans
<1>6. ASSUME offer # "none", Len(queue) < QueueCapacity
      PROVE  Len(Append(queue, offered)) <= QueueCapacity
  BY <1>1, <1>3, <1>6
<1>7. QED
  BY <1>2, <1>3, <1>4, <1>5, <1>6

\* A step of the worker that submits keeps the types.
LEMMA SubmitterType ==
    ASSUME TypeOK, Submit \/ SubmitterStep
    PROVE  TypeOK'
<1> USE DiagnosisAssumption DEF TypeOK, threadVars, redisVars, history, None
<1>1. CASE Submit
  <2>1. submitted' = submitted + 1 /\ submitted < MaxSpans
    BY <1>1 DEF Submit
  <2>2. /\ 0..submitted \subseteq 0..submitted' /\ 1..submitted \subseteq 1..submitted'
        /\ Seq(1..submitted) \subseteq Seq(1..submitted')
    BY <2>1, SubmittedSpans
  <2>3. /\ submitted' \in 0..MaxSpans /\ submitted' \in 1..submitted' /\ submitted' # None
    BY <2>1
  <2>4. UNCHANGED <<executor, queue, thread, job, attempt, verdict, results, ttl,
                    discarded, lost, expired, unrenewed, crashes>>
    BY <1>1 DEF Submit
  <2>5. /\ offered' \in 0..submitted' /\ offer' \in {"none", "execute", "full"}
        /\ offer' = "none" <=> offered' = None
        /\ undiagnosed' \subseteq 1..submitted'
    <3>1. CASE executor
      <4>1. offered' = submitted' /\ offer' = "execute" /\ undiagnosed' = undiagnosed
        BY <1>1, <3>1 DEF Submit
      <4>2. submitted' \in 0..submitted' /\ submitted' # None
        BY <2>3
      <4>3. undiagnosed \subseteq 1..submitted'
        BY <2>2
      <4>4. QED
        BY <4>1, <4>2, <4>3
    <3>2. CASE ~executor
      BY <1>1, <2>2, <2>3, <3>2 DEF Submit
    <3>3. QED
      BY <3>1, <3>2
  <2>6. queue \in Seq(1..submitted') /\ job \in [Threads -> 0..submitted']
    BY <2>2
  <2>7. results \in [Lists -> SUBSET (1..submitted')]
    BY <2>2
  <2>8. /\ discarded \subseteq 1..submitted' /\ lost \subseteq 1..submitted'
        /\ expired \subseteq 1..submitted'
    BY <2>2
  <2>9. QED
    BY <2>3, <2>4, <2>5, <2>6, <2>7, <2>8
<1>2. CASE Enqueue
  <2>1. queue' \in Seq(1..submitted) /\ Len(queue') <= QueueCapacity
    BY <1>2, QueueTyped DEF Enqueue
  <2>2. QED
    BY <1>2, <2>1 DEF Enqueue
<1>3. CASE DiscardOldest
  <2>1. /\ queue' \in Seq(1..submitted) /\ Len(queue') <= QueueCapacity
        /\ discarded' \subseteq 1..submitted
    BY <1>3, QueueTyped DEF DiscardOldest
  <2>2. QED
    BY <1>3, <2>1 DEF DiscardOldest
<1>4. ASSUME NEW t \in Threads, StartCore(t) \/ StartExtra(t)
      PROVE  TypeOK'
  <2>1. StartThread(t) /\ offered \in 1..submitted
    BY <1>4, BusyHoldsSpan DEF StartCore, StartExtra
  <2>2. QED
    BY <2>1 DEF StartThread
<1>5. QED
  BY <1>1, <1>2, <1>3, <1>4 DEF SubmitterStep

\* A step of a pool thread keeps the types.
LEMMA ThreadType ==
    ASSUME TypeOK, NEW t \in Threads, ThreadStep(t) \/ ThreadEnds(t)
    PROVE  TypeOK'
<1> USE DiagnosisAssumption DEF TypeOK, poolVars, redisVars, history, None, Lists
<1>1. CASE TakeTask(t)
  <2>1. /\ queue' \in Seq(1..submitted) /\ Len(queue') <= QueueCapacity
        /\ Head(queue) \in 1..submitted
    BY <1>1, QueueTyped DEF TakeTask
  <2>2. QED
    <3>1. /\ thread' \in [Threads -> {"none", "idle", "asking", "sleeping", "storing",
                                       "expiring"}]
          /\ job' \in [Threads -> 0..submitted]
          /\ \A u \in Threads : thread'[u] \in {"none", "idle"} <=> job'[u] = None
      BY <1>1, <2>1 DEF TakeTask
    <3>2. /\ attempt' \in [Threads -> 0..MaxRetries]
          /\ \A u \in Threads : thread'[u] = "sleeping" => attempt'[u] < MaxRetries
      BY <1>1 DEF TakeTask
    <3>3. QED
      BY <1>1, <2>1, <3>1, <3>2 DEF TakeTask
<1>2. CASE ThreadEnds(t)
  BY <1>2 DEF ThreadEnds
<1>3. CASE Answered(t) \/ Unaskable(t)
  <2>1. PICK l \in Lists : Concludes(t, l)
    BY <1>3 DEF Answered, Unaskable
  <2>2. thread[t] = "asking" /\ UNCHANGED <<poolVars, job, redisVars, history, crashes>>
    BY <1>3 DEF Answered, Unaskable
  <2>3. QED
    BY <2>1, <2>2 DEF Concludes
<1>4. CASE Unusable(t)
  <2>1. /\ thread' \in [Threads -> {"none", "idle", "asking", "sleeping", "storing",
                                     "expiring"}]
        /\ \A u \in Threads : thread'[u] \in {"none", "idle"} <=> job[u] = None
        /\ verdict' \in [Threads -> Lists]
    BY <1>4 DEF Unusable, Concludes
  <2>2. /\ attempt' \in [Threads -> 0..MaxRetries]
        /\ \A u \in Threads : thread'[u] = "sleeping" => attempt'[u] < MaxRetries
    <3>1. CASE attempt[t] < MaxRetries
      <4>1. attempt[t] + 1 \in 0..MaxRetries
        BY <3>1
      <4>2. /\ thread' = thread /\ thread[t] = "asking"
            /\ attempt' = [attempt EXCEPT ![t] = attempt[t] + 1]
        BY <1>4, <3>1 DEF Unusable
      <4>3. QED
        BY <4>1, <4>2
    <3>2. CASE ~(attempt[t] < MaxRetries)
      BY <1>4, <3>2 DEF Unusable, Concludes
    <3>3. QED
      BY <3>1, <3>2
  <2>3. QED
    BY <1>4, <2>1, <2>2 DEF Unusable
<1>5. CASE CallFails(t)
  BY <1>5 DEF CallFails, Concludes
<1>6. CASE SleepEnds(t)
  <2>1. attempt[t] \in 0..MaxRetries /\ attempt[t] < MaxRetries
    BY <1>6 DEF SleepEnds
  <2>2. attempt[t] + 1 \in 0..MaxRetries
    BY <2>1
  <2>3. /\ thread' = [thread EXCEPT ![t] = "asking"] /\ thread[t] = "sleeping"
        /\ attempt' = [attempt EXCEPT ![t] = attempt[t] + 1]
        /\ UNCHANGED <<executor, submitted, offered, offer, queue, job, verdict, results, ttl,
                       discarded, undiagnosed, lost, expired, unrenewed, crashes>>
    BY <1>6 DEF SleepEnds, poolVars
  <2>4. /\ attempt' \in [Threads -> 0..MaxRetries]
        /\ \A u \in Threads : thread'[u] = "sleeping" => attempt'[u] < MaxRetries
    BY <2>2, <2>3
  <2>5. /\ thread' \in [Threads -> {"none", "idle", "asking", "sleeping", "storing", "expiring"}]
        /\ \A u \in Threads : thread'[u] \in {"none", "idle"} <=> job'[u] = None
    BY <2>3
  <2>6. QED
    BY <2>3, <2>4, <2>5
<1>7. ASSUME Rest(t)
      PROVE  /\ thread' \in [Threads -> {"none", "idle", "asking", "sleeping",
                                         "storing", "expiring"}]
             /\ job' \in [Threads -> 0..submitted]
             /\ \A u \in Threads : thread'[u] \in {"none", "idle"} <=> job'[u] = None
             /\ attempt' \in [Threads -> 0..MaxRetries]
             /\ \A u \in Threads : thread'[u] = "sleeping" => attempt'[u] < MaxRetries
             /\ verdict' \in [Threads -> Lists]
  BY <1>7 DEF Rest
<1>8. ASSUME thread[t] = "storing", Pushed(t)
      PROVE  results' \in [Lists -> SUBSET (1..submitted)] /\ ttl' = ttl
  <2>1. job[t] \in 1..submitted /\ verdict[t] \in Lists
    BY <1>8, BusyHoldsSpan
  <2>2. \A l \in Lists : results[l] \union {job[t]} \in SUBSET (1..submitted)
    BY <2>1
  <2>3. results' = [l \in Lists |-> IF l = verdict[t] THEN results[l] \union {job[t]}
                                    ELSE results[l]]
    BY <1>8 DEF Pushed
  <2>4. QED
    BY <1>8, <2>2, <2>3 DEF Pushed
<1>9. CASE Push(t)
  BY <1>8, <1>9 DEF Push
<1>10. CASE PushUnacknowledged(t)
  BY <1>7, <1>8, <1>10 DEF PushUnacknowledged
<1>11. CASE PushFails(t)
  <2>1. job[t] \in 1..submitted
    BY <1>11, BusyHoldsSpan DEF PushFails
  <2>2. QED
    BY <1>7, <1>11, <2>1 DEF PushFails
<1>12. CASE Expire(t)
  <2>1. ttl' \in [Lists -> Int] /\ \A l \in Lists : ttl'[l] \in {NoTTL} \union 1..Expiry[l]
    BY <1>12 DEF Expire
  <2>2. QED
    BY <1>7, <1>12, <2>1 DEF Expire
<1>13. CASE ExpireFails(t)
  BY <1>7, <1>13 DEF ExpireFails
<1>14. QED
  BY <1>1, <1>2, <1>3, <1>4, <1>5, <1>6, <1>9, <1>10, <1>11, <1>12, <1>13 DEF ThreadStep

\* So do time and the crash of the server.
LEMMA EnvironmentType ==
    ASSUME TypeOK, Tick \/ Crash \/ UNCHANGED vars
    PROVE  TypeOK'
<1> USE DiagnosisAssumption DEF TypeOK, poolVars, threadVars, redisVars, history, None
<1>1. CASE Tick
  <2>1. /\ results' \in [Lists -> SUBSET (1..submitted)]
        /\ expired' \subseteq 1..submitted
    <3>1. \A l \in Lists : results[l] \subseteq 1..submitted
      OBVIOUS
    <3>2. PICK over \in SUBSET Lists :
             /\ results' = [l \in Lists |-> IF l \in over THEN {} ELSE results[l]]
             /\ expired' = expired \union UNION {results[l] : l \in over}
      BY <1>1 DEF Tick
    <3>3. UNION {results[l] : l \in over} \subseteq 1..submitted
      BY <3>1, <3>2
    <3>4. results' \in [Lists -> SUBSET (1..submitted)]
      BY <3>1, <3>2
    <3>5. QED
      BY <3>2, <3>3, <3>4
  <2>2. /\ ttl' \in [Lists -> Int]
        /\ \A l \in Lists : ttl'[l] \in {NoTTL} \union 1..Expiry[l]
    BY <1>1 DEF Tick, NoTTL, Lists
  <2>3. QED
    BY <1>1, <2>1, <2>2 DEF Tick
<1>2. CASE Crash
  <2>1. ToSet(queue) \subseteq 1..submitted
    BY QueueTyped
  <2>2. \A t \in Threads : Held(t) \subseteq 1..submitted
    BY BusyHoldsSpan DEF Held
  <2>3. lost' \subseteq 1..submitted
    BY <1>2, <2>1, <2>2 DEF Crash, InPool
  <2>4. unrenewed' \subseteq Lists
    BY <1>2 DEF Crash
  <2>5. queue' \in Seq(1..submitted) /\ Len(queue') = 0
    BY <1>2 DEF Crash
  <2>6. QED
    BY <1>2, <2>3, <2>4, <2>5 DEF Crash, Lists
<1>3. CASE UNCHANGED vars
  BY <1>3 DEF vars
<1>4. QED
  BY <1>1, <1>2, <1>3

\* The types of the pool, at every moment: the queue keeps its capacity though it is
\* filled and emptied by different threads, no diagnosis is attempted more often than
\* the settings say, and a thread has a task exactly while it works on one.
THEOREM TypeCorrect == Spec => []TypeOK
<1>1. Init => TypeOK
  <2> SUFFICES ASSUME Init
               PROVE  TypeOK
    OBVIOUS
  <2> USE DiagnosisAssumption DEF Init, None
  <2>1. queue \in Seq(1..submitted) /\ Len(queue) <= QueueCapacity
    OBVIOUS
  <2>2. results \in [Lists -> SUBSET (1..submitted)] /\ verdict \in [Threads -> Lists]
    BY DEF Lists
  <2>3. QED
    BY <2>1, <2>2 DEF TypeOK, NoTTL
<1>2. TypeOK /\ [Next]_vars => TypeOK'
  BY SubmitterType, ThreadType, EnvironmentType DEF Next
<1>3. QED
  BY <1>1, <1>2, PTL DEF Spec
-------------------------------------------------------------------------------
(* Lists have a time to live                                               *)

\* The code's order, LPUSH and then EXPIRE, cannot leave a list of results that
\* never expires, unless a fault comes between the two, and then only until the next
\* result is stored in that list.
THEOREM ListsExpire == Spec => []ListsHaveTTL
<1>1. Init => ListsHaveTTL
  BY DEF Init, ListsHaveTTL
<1>2. TypeOK /\ ListsHaveTTL /\ [Next]_vars => ListsHaveTTL'
  <2> SUFFICES ASSUME TypeOK, ListsHaveTTL, [Next]_vars,
                      NEW l \in Lists, results'[l] # {}, ttl'[l] = NoTTL,
                      l \notin unrenewed'
               PROVE  \E t \in Threads : thread'[t] = "expiring" /\ verdict'[t] = l
    BY DEF ListsHaveTTL
  <2> DEFINE Renewing(t) == thread[t] = "expiring" /\ verdict[t] = l
  <2>1. /\ verdict \in [Threads -> Lists] /\ DOMAIN thread = Threads
        /\ ttl \in [Lists -> Int] /\ results \in [Lists -> SUBSET (1..submitted)]
    BY DEF TypeOK
  <2>2. ASSUME UNCHANGED <<results, ttl, unrenewed>>
        PROVE  \E t \in Threads : Renewing(t)
    BY <2>2 DEF ListsHaveTTL
  <2>3. CASE Submit \/ Enqueue \/ DiscardOldest \/ UNCHANGED vars
    BY <2>2, <2>3
       DEF Submit, Enqueue, DiscardOldest, vars, threadVars, redisVars, history
  <2>4. ASSUME NEW t \in Threads,
               UNCHANGED <<results, ttl, unrenewed>>,
               thread[t] # "expiring",
               \A u \in Threads \ {t} : thread'[u] = thread[u] /\ verdict'[u] = verdict[u]
        PROVE  \E u \in Threads : thread'[u] = "expiring" /\ verdict'[u] = l
    BY <2>2, <2>4
  <2>5. ASSUME NEW t \in Threads,
               StartCore(t) \/ StartExtra(t) \/ TakeTask(t) \/ ThreadEnds(t)
        PROVE  \E u \in Threads : thread'[u] = "expiring" /\ verdict'[u] = l
    <3>1. /\ thread[t] # "expiring" /\ UNCHANGED <<results, ttl, unrenewed, verdict>>
          /\ \A u \in Threads \ {t} : thread'[u] = thread[u]
      BY <2>1, <2>5
         DEF StartCore, StartExtra, StartThread, TakeTask, ThreadEnds, redisVars, history
    <3>2. QED
      BY <2>4, <3>1
  <2>6. ASSUME NEW t \in Threads, \/ Answered(t) \/ Unaskable(t) \/ Unusable(t)
                                  \/ CallFails(t) \/ SleepEnds(t) \/ PushFails(t)
        PROVE  \E u \in Threads : thread'[u] = "expiring" /\ verdict'[u] = l
    <3>1. /\ thread[t] # "expiring" /\ UNCHANGED <<results, ttl, unrenewed>>
          /\ \A u \in Threads \ {t} : thread'[u] = thread[u] /\ verdict'[u] = verdict[u]
      BY <2>1, <2>6
         DEF Answered, Unaskable, Unusable, CallFails, SleepEnds, PushFails, Concludes,
             Rest, redisVars, history
    <3>2. QED
      BY <2>4, <3>1
  <2>7. ASSUME NEW t \in Threads, Push(t)
        PROVE  \E u \in Threads : thread'[u] = "expiring" /\ verdict'[u] = l
    <3>1. /\ thread' = [thread EXCEPT ![t] = "expiring"] /\ thread[t] = "storing"
          /\ UNCHANGED <<ttl, verdict, unrenewed>>
          /\ results' = [results EXCEPT ![verdict[t]] = results[verdict[t]] \union {job[t]}]
      BY <2>7 DEF Push, Pushed, history
    <3>2. CASE verdict[t] = l
      BY <2>1, <3>1, <3>2
    <3>3. CASE verdict[t] # l
      <4>1. \E u \in Threads : Renewing(u)
        BY <2>1, <3>1, <3>3 DEF ListsHaveTTL
      <4>2. QED
        BY <2>1, <3>1, <4>1
    <3>4. QED
      BY <3>2, <3>3
  <2>8. ASSUME NEW t \in Threads, PushUnacknowledged(t) \/ Expire(t) \/ ExpireFails(t)
        PROVE  \E u \in Threads : thread'[u] = "expiring" /\ verdict'[u] = l
    <3>1. \A u \in Threads \ {t} : thread'[u] = thread[u] /\ verdict'[u] = verdict[u]
      BY <2>1, <2>8 DEF PushUnacknowledged, Expire, ExpireFails, Rest
    <3>2. verdict[t] # l
      <4>1. CASE Expire(t)
        <5>1. verdict[t] = l => ttl'[l] = Expiry[l]
          BY <2>1, <4>1 DEF Expire
        <5>2. Expiry[l] # NoTTL
          BY DiagnosisAssumption DEF NoTTL, Lists
        <5>3. QED
          BY <5>1, <5>2
      <4>2. CASE PushUnacknowledged(t) \/ ExpireFails(t)
        BY <4>2 DEF PushUnacknowledged, ExpireFails
      <4>3. QED
        BY <2>8, <4>1, <4>2
    <3>3. results'[l] = results[l] /\ ttl'[l] = ttl[l] /\ l \notin unrenewed
      BY <2>1, <2>8, <3>2
         DEF PushUnacknowledged, Expire, ExpireFails, Pushed, redisVars, history
    <3>4. \E u \in Threads : Renewing(u)
      BY <3>3 DEF ListsHaveTTL
    <3>5. QED
      BY <3>1, <3>2, <3>4
  <2>9. CASE Tick
    <3>1. \A t \in Threads : ~Renewing(t)
      BY <2>9 DEF Tick
    <3>2. l \notin unrenewed
      BY <2>9 DEF Tick
    <3>3. results[l] # {} /\ ttl[l] = NoTTL
      <4>1. ttl[l] # 1 /\ results'[l] = results[l]
        BY <2>9 DEF Tick
      <4>2. ttl[l] = NoTTL \/ ttl'[l] = ttl[l] - 1
        BY <2>9, <4>1 DEF Tick
      <4>3. ttl[l] \in {NoTTL} \union 1..Expiry[l] /\ ttl[l] \in Int
        BY DEF TypeOK
      <4>4. ttl[l] - 1 = NoTTL => ttl[l] = 0
        BY <4>3 DEF NoTTL
      <4>5. ttl[l] = NoTTL
        BY <4>2, <4>3, <4>4, DiagnosisAssumption DEF NoTTL, Lists
      <4>6. QED
        BY <4>1, <4>5
    <3>4. QED
      BY <3>1, <3>2, <3>3 DEF ListsHaveTTL
  <2>10. CASE Crash
    <3>1. UNCHANGED <<results, ttl>>
      BY <2>10 DEF Crash, redisVars
    <3>2. \A t \in Threads : Renewing(t) => l \in unrenewed'
      BY <2>10 DEF Crash
    <3>3. l \notin unrenewed
      BY <2>10 DEF Crash
    <3>4. QED
      BY <3>1, <3>2, <3>3 DEF ListsHaveTTL
  <2>11. QED
    BY <2>3, <2>5, <2>6, <2>7, <2>8, <2>9, <2>10 DEF Next, SubmitterStep, ThreadStep
<1>3. QED
  BY <1>1, <1>2, TypeCorrect, PTL DEF Spec
-------------------------------------------------------------------------------
(* The oldest is discarded                                                 *)

\* The queue is in the order of submission, the span on offer is younger than all of
\* it, and what has been discarded is older than both.
InOrder ==
    /\ \A i, j \in DOMAIN queue : i < j => queue[i] < queue[j]
    /\ \A i \in DOMAIN queue : offer # "none" => queue[i] < offered
    /\ \A d \in discarded : \A i \in DOMAIN queue : d < queue[i]
    /\ \A d \in discarded : offer # "none" => d < offered

\* What InOrder speaks of are numbers.
LEMMA PoolSpans ==
    ASSUME TypeOK
    PROVE  /\ submitted \in Nat /\ queue \in Seq(1..submitted)
           /\ offered \in 0..submitted
           /\ \A i \in DOMAIN queue : queue[i] \in 1..submitted
           /\ discarded \subseteq 1..submitted
<1>1. submitted \in Nat /\ queue \in Seq(1..submitted) /\ offered \in 0..submitted
      /\ discarded \subseteq 1..submitted
  BY DiagnosisAssumption DEF TypeOK
<1>2. \A i \in DOMAIN queue : queue[i] \in 1..submitted
  BY <1>1, QueuedSpans DEF ToSet
<1>3. QED
  BY <1>1, <1>2

\* Taking the head keeps the order, and the head is older than all that stays.
LEMMA HeadIsOldest ==
    ASSUME TypeOK, InOrder, queue # <<>>
    PROVE  /\ \A i, j \in DOMAIN Tail(queue) :
                 i < j => Tail(queue)[i] < Tail(queue)[j]
           /\ \A i \in DOMAIN Tail(queue) :
                 /\ Head(queue) < Tail(queue)[i]
                 /\ offer # "none" => Tail(queue)[i] < offered
                 /\ \A d \in discarded : d < Tail(queue)[i]
           /\ offer # "none" => Head(queue) < offered
<1>1. /\ Head(queue) = queue[1] /\ 1 \in DOMAIN queue
      /\ Len(queue) \in Nat \ {0}
      /\ DOMAIN queue = 1..Len(queue) /\ DOMAIN Tail(queue) = 1..Len(queue) - 1
      /\ \A i \in DOMAIN Tail(queue) : Tail(queue)[i] = queue[i + 1]
  BY PoolSpans, QueueAfterTail
<1>2. ASSUME NEW i \in DOMAIN Tail(queue)
      PROVE  i + 1 \in DOMAIN queue /\ 1 < i + 1 /\ i \in Nat
  BY <1>1
<1>3. ASSUME NEW i \in DOMAIN Tail(queue), NEW j \in DOMAIN Tail(queue), i < j
      PROVE  Tail(queue)[i] < Tail(queue)[j]
  <2>1. i + 1 < j + 1
    BY <1>2, <1>3
  <2>2. QED
    BY <1>1, <1>2, <2>1 DEF InOrder
<1>4. ASSUME NEW i \in DOMAIN Tail(queue)
      PROVE  /\ Head(queue) < Tail(queue)[i]
             /\ offer # "none" => Tail(queue)[i] < offered
             /\ \A d \in discarded : d < Tail(queue)[i]
  BY <1>1, <1>2 DEF InOrder
<1>5. QED
  BY <1>1, <1>3, <1>4 DEF InOrder

\* Every step keeps the order.
LEMMA NextInOrder ==
    ASSUME TypeOK, InOrder, [Next]_vars
    PROVE  InOrder'
<1>1. CASE Submit
  <2>1. /\ offer = "none" /\ UNCHANGED <<queue, discarded>>
        /\ offer' # "none" => offered' = submitted + 1
    BY <1>1 DEF Submit
  <2>2. ASSUME NEW s \in 1..submitted, offer' # "none"
        PROVE  s < offered'
    BY <2>1, <2>2, PoolSpans
  <2>3. QED
    BY <2>1, <2>2, PoolSpans DEF InOrder
<1>2. CASE Enqueue
  <2>1. offer = "execute" /\ discarded' = discarded
    BY <1>2 DEF Enqueue, history
  <2>2. CASE Len(queue) < QueueCapacity
    <3>1. queue' = Append(queue, offered) /\ offer' = "none"
      BY <1>2, <2>2 DEF Enqueue
    <3>2. /\ DOMAIN queue = 1..Len(queue) /\ Len(queue) \in Nat
          /\ DOMAIN queue' = 1..Len(queue) + 1
          /\ \A i \in DOMAIN queue : queue'[i] = queue[i]
          /\ queue'[Len(queue) + 1] = offered
      BY <2>1, <3>1, PoolSpans, BusyHoldsSpan, QueueAfterAppend
    <3>3. ASSUME NEW i \in DOMAIN queue', NEW j \in DOMAIN queue', i < j
          PROVE  queue'[i] < queue'[j]
      <4>1. i \in DOMAIN queue /\ (j \in DOMAIN queue \/ j = Len(queue) + 1)
        BY <3>2, <3>3
      <4>2. QED
        BY <2>1, <3>2, <3>3, <4>1 DEF InOrder
    <3>4. ASSUME NEW d \in discarded, NEW i \in DOMAIN queue'
          PROVE  d < queue'[i]
      <4>1. i \in DOMAIN queue \/ i = Len(queue) + 1
        BY <3>2
      <4>2. QED
        BY <2>1, <3>2, <4>1 DEF InOrder
    <3>5. QED
      BY <2>1, <3>1, <3>3, <3>4 DEF InOrder
  <2>3. CASE ~(Len(queue) < QueueCapacity)
    BY <1>2, <2>1, <2>3 DEF Enqueue, InOrder
  <2>4. QED
    BY <2>2, <2>3
<1>3. CASE DiscardOldest
  <2>1. offer = "full" /\ offer' = "execute" /\ offered' = offered
    BY <1>3 DEF DiscardOldest
  <2>2. CASE queue = <<>>
    BY <1>3, <2>1, <2>2 DEF DiscardOldest, InOrder
  <2>3. CASE queue # <<>>
    <3>1. queue' = Tail(queue) /\ discarded' = discarded \union {Head(queue)}
      BY <1>3, <2>3 DEF DiscardOldest
    <3>2. QED
      BY <2>1, <2>3, <3>1, HeadIsOldest DEF InOrder
  <2>4. QED
    BY <2>2, <2>3
<1>4. ASSUME NEW t \in Threads, StartCore(t) \/ StartExtra(t)
      PROVE  InOrder'
  <2>1. offer' = "none" /\ UNCHANGED <<queue, discarded>>
    BY <1>4 DEF StartCore, StartExtra, StartThread, history
  <2>2. QED
    BY <2>1 DEF InOrder
<1>5. ASSUME NEW t \in Threads, TakeTask(t)
      PROVE  InOrder'
  <2>1. queue # <<>> /\ queue' = Tail(queue) /\ UNCHANGED <<offered, offer, discarded>>
    BY <1>5 DEF TakeTask, history
  <2>2. QED
    BY <2>1, HeadIsOldest DEF InOrder
<1>6. CASE Crash
  <2>1. offer' = "none" /\ DOMAIN queue' = {}
    BY <1>6 DEF Crash
  <2>2. QED
    BY <2>1 DEF InOrder
<1>7. CASE \/ Tick \/ UNCHANGED vars
           \/ \E t \in Threads :
                 \/ ThreadEnds(t) \/ Answered(t) \/ Unaskable(t) \/ Unusable(t)
                 \/ CallFails(t) \/ SleepEnds(t) \/ Push(t) \/ PushUnacknowledged(t)
                 \/ PushFails(t) \/ Expire(t) \/ ExpireFails(t)
  <2>1. UNCHANGED <<queue, offered, offer, discarded>>
    BY <1>7
       DEF Tick, vars, poolVars, history, ThreadEnds, Answered, Unaskable, Unusable,
           CallFails, SleepEnds, Push, PushUnacknowledged, PushFails, Expire, ExpireFails
  <2>2. QED
    BY <2>1 DEF InOrder
<1>8. QED
  BY <1>1, <1>2, <1>3, <1>4, <1>5, <1>6, <1>7 DEF Next, SubmitterStep, ThreadStep

\* What the saturated pool discards is older than everything it keeps waiting,
\* whatever the threads take from the queue while the policy polls and retries.
THEOREM OldestGoesFirst == Spec => []DiscardsOldest
<1>1. Init => InOrder
  <2>1. Init => DOMAIN queue = {} /\ discarded = {}
    BY DEF Init
  <2>2. QED
    BY <2>1 DEF InOrder
<1>2. TypeOK /\ InOrder /\ [Next]_vars => InOrder'
  BY NextInOrder
<1>3. TypeOK /\ InOrder => DiscardsOldest
  <2>1. ASSUME TypeOK, InOrder, NEW d \in discarded, NEW s \in InPool
        PROVE  d < s
    <3>1. CASE s \in ToSet(queue)
      BY <2>1, <3>1 DEF InOrder, ToSet
    <3>2. CASE s = offered /\ offered # None
      BY <2>1, <3>2 DEF InOrder, TypeOK
    <3>3. QED
      BY <3>1, <3>2 DEF InPool
  <2>2. QED
    BY <2>1 DEF DiscardsOldest
<1>4. QED
  BY <1>1, <1>2, <1>3, TypeCorrect, PTL DEF Spec
-------------------------------------------------------------------------------
(* Every span is in one place                                              *)

One(b) == IF b THEN 1 ELSE 0

\* The places a span can be in, each counted once however often it holds the span.
Queued(s) == s \in ToSet(queue)
Running(s) == \E t \in Threads : s \in Held(t)
Stored(s) == \E l \in Lists : s \in results[l]

Places(s) ==
    One(offered = s) + One(Queued(s)) + One(Running(s)) + One(Stored(s))
    + One(s \in discarded) + One(s \in undiagnosed) + One(s \in lost)
    + One(s \in expired)

\* One place holds the span, and holds it once. (InOrder says so of the queue.)
InOnePlace(s) ==
    /\ Places(s) = 1
    /\ \A t, u \in Threads : s \in Held(t) /\ s \in Held(u) => t = u
    /\ \A k, l \in Lists : s \in results[k] /\ s \in results[l] => k = l

AllInOnePlace == \A s \in 1..submitted : InOnePlace(s)

\* What the queue holds after a span is added, and after its head is taken.
LEMMA QueuedAfter ==
    ASSUME TypeOK, InOrder
    PROVE  /\ offer # "none" =>
                 ToSet(Append(queue, offered)) = ToSet(queue) \union {offered}
           /\ queue # <<>> =>
                 /\ ToSet(Tail(queue)) = ToSet(queue) \ {Head(queue)}
                 /\ Head(queue) \in ToSet(queue)
                 /\ Head(queue) \in 1..submitted
<1>1. ASSUME offer # "none"
      PROVE  ToSet(Append(queue, offered)) = ToSet(queue) \union {offered}
  <2>1. /\ DOMAIN queue = 1..Len(queue) /\ Len(queue) \in Nat
        /\ DOMAIN Append(queue, offered) = 1..Len(queue) + 1
        /\ \A i \in DOMAIN queue : Append(queue, offered)[i] = queue[i]
        /\ Append(queue, offered)[Len(queue) + 1] = offered
    BY <1>1, PoolSpans, BusyHoldsSpan, QueueAfterAppend
  <2>2. 1..Len(queue) + 1 = DOMAIN queue \union {Len(queue) + 1}
    BY <2>1
  <2>3. QED
    BY <2>1, <2>2 DEF ToSet
<1>2. ASSUME queue # <<>>
      PROVE  /\ ToSet(Tail(queue)) = ToSet(queue) \ {Head(queue)}
             /\ Head(queue) \in ToSet(queue)
             /\ Head(queue) \in 1..submitted
  <2> DEFINE rest == Tail(queue)
  <2>1. /\ Head(queue) = queue[1] /\ 1 \in DOMAIN queue /\ Head(queue) \in 1..submitted
        /\ Len(queue) \in Nat \ {0}
        /\ DOMAIN queue = 1..Len(queue) /\ DOMAIN rest = 1..Len(queue) - 1
        /\ \A i \in DOMAIN rest : rest[i] = queue[i + 1]
    BY <1>2, PoolSpans, QueueAfterTail
  <2>2. ASSUME NEW i \in DOMAIN rest
        PROVE  rest[i] \in ToSet(queue) /\ rest[i] # Head(queue)
    <3>1. i + 1 \in DOMAIN queue
      BY <2>1
    <3>2. Head(queue) < rest[i] /\ Head(queue) \in Int /\ rest[i] \in 1..submitted
      BY <1>2, <2>1, <3>1, HeadIsOldest, PoolSpans
    <3>3. QED
      BY <2>1, <3>1, <3>2 DEF ToSet
  <2>3. ASSUME NEW i \in DOMAIN queue, queue[i] # Head(queue)
        PROVE  queue[i] \in ToSet(rest)
    <3>1. i # 1
      BY <2>1, <2>3
    <3>2. i - 1 \in DOMAIN rest /\ rest[i - 1] = queue[i]
      BY <2>1, <3>1
    <3>3. QED
      BY <3>2 DEF ToSet
  <2>4. Head(queue) \in ToSet(queue)
    BY <2>1 DEF ToSet
  <2>5. QED
    BY <2>1, <2>2, <2>3, <2>4 DEF ToSet
<1>3. QED
  BY <1>1, <1>2

\* A span stays where it is when no place lets it go or takes it.
LEMMA Unmoved ==
    ASSUME NEW s, InOnePlace(s),
           offered' = s <=> offered = s,
           s \in ToSet(queue') <=> s \in ToSet(queue),
           \A t \in Threads : s \in Held(t)' <=> s \in Held(t),
           \A l \in Lists : s \in results'[l] <=> s \in results[l],
           s \in discarded' <=> s \in discarded,
           s \in undiagnosed' <=> s \in undiagnosed,
           s \in lost' <=> s \in lost,
           s \in expired' <=> s \in expired
    PROVE  InOnePlace(s)'
<1>1. Queued(s)' = Queued(s) /\ Running(s)' = Running(s) /\ Stored(s)' = Stored(s)
  BY DEF Queued, Running, Stored
<1>2. Places(s)' = Places(s)
  BY <1>1 DEF Places, One
<1>3. QED
  BY <1>2 DEF InOnePlace

\* A submitted span comes to the worker's hands, or to no pool at all.
LEMMA SubmitMoves ==
    ASSUME TypeOK, AllInOnePlace, Submit
    PROVE  AllInOnePlace'
<1> USE DEF threadVars, redisVars
<1>1. /\ submitted \in Nat /\ submitted' = submitted + 1
      /\ offer = "none" /\ offered = 0
      /\ UNCHANGED <<queue, thread, job, results, discarded, lost, expired>>
      /\ \/ offered' = submitted' /\ undiagnosed' = undiagnosed
         \/ offered' = 0 /\ undiagnosed' = undiagnosed \union {submitted'}
  BY PoolSpans DEF Submit, TypeOK, None
<1>2. \A t \in Threads : Held(t)' = Held(t)
  BY <1>1 DEF Held
<1>3. ASSUME NEW s \in 1..submitted
      PROVE  InOnePlace(s)'
  <2>1. InOnePlace(s) /\ s # 0 /\ s # submitted'
    BY <1>1, <1>3 DEF AllInOnePlace
  <2>2. QED
    BY <1>1, <1>2, <2>1, Unmoved
<1>4. ASSUME NEW new, new = submitted'
      PROVE  InOnePlace(new)'
  <2>1. new \notin 1..submitted /\ new # 0
    BY <1>1, <1>4
  <2>2. ~Queued(new)'
    BY <1>1, <2>1, QueueTyped DEF Queued
  <2>3. \A t \in Threads : new \notin Held(t)'
    BY <1>2, <2>1, BusyHoldsSpan DEF Held
  <2>4. \A l \in Lists : new \notin results'[l]
    BY <1>1, <2>1 DEF TypeOK
  <2>5. new \notin discarded' /\ new \notin lost' /\ new \notin expired'
        /\ new \notin undiagnosed
    BY <1>1, <2>1 DEF TypeOK
  <2>6. ~Running(new)' /\ ~Stored(new)'
    BY <2>3, <2>4 DEF Running, Stored
  <2>7. Places(new)' = 1
    BY <1>1, <1>4, <2>1, <2>2, <2>5, <2>6 DEF Places, One
  <2>8. QED
    BY <2>3, <2>4, <2>7 DEF InOnePlace
<1>5. \A s \in 1..submitted' : s \in 1..submitted \/ s = submitted'
  BY <1>1
<1>6. QED
  BY <1>3, <1>4, <1>5 DEF AllInOnePlace

\* The pool moves a span from the worker's hands to its queue or to a new thread,
\* and, when it is saturated, from the head of its queue to those it discarded.
LEMMA SubmitterMoves ==
    ASSUME TypeOK, InOrder, AllInOnePlace, SubmitterStep, NEW s \in 1..submitted
    PROVE  InOnePlace(s)'
<1> USE DEF threadVars, redisVars, history
<1>1. InOnePlace(s) /\ s # 0 /\ UNCHANGED <<results, undiagnosed, lost, expired>>
  BY PoolSpans
     DEF AllInOnePlace, SubmitterStep, Enqueue, DiscardOldest, StartCore, StartExtra,
         StartThread
<1>2. CASE Enqueue
  <2>1. UNCHANGED <<thread, job, discarded>> /\ offer = "execute"
    BY <1>2 DEF Enqueue
  <2>2. \A t \in Threads : Held(t)' = Held(t)
    BY <2>1 DEF Held
  <2>3. CASE s = offered /\ Len(queue) < QueueCapacity
    <3>1. queue' = Append(queue, offered) /\ offered' = 0
      BY <1>2, <2>3 DEF Enqueue, None
    <3>2. Queued(s)' /\ offered' # s
      BY <1>1, <2>1, <2>3, <3>1, QueuedAfter DEF Queued
    <3>3. Running(s)' = Running(s) /\ Stored(s)' = Stored(s)
      BY <1>1, <2>2 DEF Running, Stored
    <3>4. Places(s)' = 1
      BY <1>1, <2>1, <2>3, <3>2, <3>3 DEF InOnePlace, Places, One
    <3>5. QED
      BY <1>1, <2>2, <3>4 DEF InOnePlace
  <2>4. CASE ~(s = offered /\ Len(queue) < QueueCapacity)
    <3>1. (offered' = s <=> offered = s) /\ (s \in ToSet(queue') <=> s \in ToSet(queue))
      <4>1. CASE Len(queue) < QueueCapacity
        <5>1. queue' = Append(queue, offered) /\ offered' = 0 /\ s # offered
          BY <1>2, <2>4, <4>1 DEF Enqueue, None
        <5>2. ToSet(queue') = ToSet(queue) \union {offered}
          BY <2>1, <5>1, QueuedAfter
        <5>3. QED
          BY <1>1, <5>1, <5>2
      <4>2. CASE ~(Len(queue) < QueueCapacity)
        BY <1>2, <4>2 DEF Enqueue
      <4>3. QED
        BY <4>1, <4>2
    <3>2. QED
      BY <1>1, <2>1, <2>2, <3>1, Unmoved
  <2>5. QED
    BY <2>3, <2>4
<1>3. CASE DiscardOldest
  <2>1. UNCHANGED <<thread, job, offered>>
    BY <1>3 DEF DiscardOldest
  <2>2. \A t \in Threads : Held(t)' = Held(t)
    BY <2>1 DEF Held
  <2>3. CASE queue # <<>> /\ s = Head(queue)
    <3>1. queue' = Tail(queue) /\ discarded' = discarded \union {s}
      BY <1>3, <2>3 DEF DiscardOldest
    <3>2. ~Queued(s)' /\ Queued(s)
      BY <2>3, <3>1, QueuedAfter DEF Queued
    <3>3. Running(s)' = Running(s) /\ Stored(s)' = Stored(s)
      BY <1>1, <2>2 DEF Running, Stored
    <3>4. Places(s)' = 1
      BY <1>1, <2>1, <3>1, <3>2, <3>3 DEF InOnePlace, Places, One
    <3>5. QED
      BY <1>1, <2>2, <3>4 DEF InOnePlace
  <2>4. CASE ~(queue # <<>> /\ s = Head(queue))
    <3>1. /\ s \in ToSet(queue') <=> s \in ToSet(queue)
          /\ s \in discarded' <=> s \in discarded
      BY <1>3, <2>4, QueuedAfter DEF DiscardOldest
    <3>2. QED
      BY <1>1, <2>1, <2>2, <3>1, Unmoved
  <2>5. QED
    BY <2>3, <2>4
<1>4. ASSUME NEW t \in Threads, StartCore(t) \/ StartExtra(t)
      PROVE  InOnePlace(s)'
  <2>1. /\ UNCHANGED <<queue, discarded>> /\ offered' = 0 /\ thread[t] = "none"
        /\ thread' = [thread EXCEPT ![t] = "asking"]
        /\ job' = [job EXCEPT ![t] = offered]
    BY <1>4 DEF StartCore, StartExtra, StartThread, None
  <2>2. /\ Held(t) = {} /\ Held(t)' = {offered}
        /\ \A u \in Threads \ {t} : Held(u)' = Held(u)
    BY <2>1 DEF TypeOK, Held
  <2>3. CASE s = offered
    <3>1. Running(s)' /\ Queued(s)' = Queued(s) /\ Stored(s)' = Stored(s)
      BY <1>1, <2>1, <2>2, <2>3 DEF Running, Queued, Stored
    <3>2. ~Running(s)
      BY <1>1, <2>3 DEF InOnePlace, Places, One
    <3>3. Places(s)' = 1
      BY <1>1, <2>1, <2>3, <3>1 DEF InOnePlace, Places, One
    <3>4. \A u \in Threads \ {t} : s \notin Held(u)'
      BY <2>2, <3>2 DEF Running
    <3>5. QED
      BY <1>1, <3>3, <3>4 DEF InOnePlace
  <2>4. CASE s # offered
    BY <1>1, <2>1, <2>2, <2>4, Unmoved
  <2>5. QED
    BY <2>3, <2>4
<1>5. QED
  BY <1>2, <1>3, <1>4 DEF SubmitterStep

\* A thread takes a span from the queue and hands its result to a list, or loses it.
LEMMA ThreadMoves ==
    ASSUME TypeOK, InOrder, AllInOnePlace,
           NEW t \in Threads, ThreadStep(t) \/ ThreadEnds(t), NEW s \in 1..submitted
    PROVE  InOnePlace(s)'
<1> USE DEF poolVars, redisVars, history
<1>1. InOnePlace(s) /\ UNCHANGED <<offered, discarded, undiagnosed, expired>>
  BY DEF AllInOnePlace, ThreadStep, TakeTask, ThreadEnds, Answered, Unaskable, Unusable,
         CallFails, SleepEnds, Push, PushUnacknowledged, PushFails, Expire, ExpireFails
<1>2. \A u \in Threads \ {t} : Held(u)' = Held(u)
  BY DEF TypeOK, Held, ThreadStep, TakeTask, ThreadEnds, Answered, Unaskable, Unusable,
         CallFails, SleepEnds, Push, PushUnacknowledged, PushFails, Expire, ExpireFails,
         Concludes, Rest
<1>3. CASE TakeTask(t)
  <2>1. /\ queue # <<>> /\ queue' = Tail(queue) /\ UNCHANGED <<results, lost>>
        /\ Held(t) = {} /\ Held(t)' = {Head(queue)}
    BY <1>3 DEF TakeTask, TypeOK, Held
  <2>2. ToSet(queue') = ToSet(queue) \ {Head(queue)} /\ Head(queue) \in ToSet(queue)
    BY <2>1, QueuedAfter
  <2>3. CASE s = Head(queue)
    <3>1. Queued(s) /\ ~Queued(s)' /\ Running(s)' /\ Stored(s)' = Stored(s)
      BY <2>1, <2>2, <2>3 DEF Running, Queued, Stored
    <3>2. ~Running(s)
      BY <1>1, <3>1 DEF InOnePlace, Places, One
    <3>3. Places(s)' = 1
      BY <1>1, <2>1, <3>1 DEF InOnePlace, Places, One
    <3>4. \A u \in Threads \ {t} : s \notin Held(u)'
      BY <1>2, <3>2 DEF Running
    <3>5. QED
      BY <1>1, <2>1, <3>3, <3>4 DEF InOnePlace
  <2>4. CASE s # Head(queue)
    BY <1>1, <1>2, <2>1, <2>2, <2>4, Unmoved
  <2>5. QED
    BY <2>3, <2>4
<1>4. CASE \/ Answered(t) \/ Unaskable(t) \/ Unusable(t) \/ CallFails(t) \/ SleepEnds(t)
           \/ ThreadEnds(t) \/ Expire(t) \/ ExpireFails(t)
  <2>1. UNCHANGED <<queue, results, lost>>
    BY <1>4 DEF Answered, Unaskable, Unusable, CallFails, SleepEnds, ThreadEnds, Expire,
                ExpireFails
  <2>2. Held(t)' = Held(t)
    BY <1>4 DEF Answered, Unaskable, Unusable, CallFails, SleepEnds, ThreadEnds, Expire,
                ExpireFails, Concludes, Rest, TypeOK, Held
  <2>3. QED
    BY <1>1, <1>2, <2>1, <2>2, Unmoved
<1>5. CASE Push(t) \/ PushUnacknowledged(t)
  <2>1. /\ UNCHANGED <<queue, lost>> /\ verdict[t] \in Lists
        /\ Held(t) = {job[t]} /\ Held(t)' = {}
    BY <1>5 DEF Push, PushUnacknowledged, Rest, TypeOK, Held
  <2>2. results' = [results EXCEPT ![verdict[t]] = results[verdict[t]] \union {job[t]}]
    BY <1>5 DEF Push, PushUnacknowledged, Pushed
  <2>3. results \in [Lists -> SUBSET (1..submitted)]
    BY DEF TypeOK
  <2>4. CASE s = job[t]
    <3>1. Running(s) /\ Queued(s)' = Queued(s)
      BY <2>1, <2>4 DEF Running, Queued
    <3>2. \A u \in Threads : s \notin Held(u)'
      BY <1>1, <1>2, <2>1, <2>4 DEF InOnePlace
    <3>3. ~Stored(s)
      BY <1>1, <3>1 DEF InOnePlace, Places, One
    <3>4. \A l \in Lists : s \in results'[l] <=> l = verdict[t]
      BY <2>2, <2>3, <2>4, <3>3 DEF Stored
    <3>5. ~Running(s)' /\ Stored(s)'
      BY <2>1, <3>2, <3>4 DEF Running, Stored
    <3>6. Places(s)' = 1
      BY <1>1, <2>1, <3>1, <3>3, <3>5 DEF InOnePlace, Places, One
    <3>7. QED
      BY <3>2, <3>4, <3>6 DEF InOnePlace
  <2>5. CASE s # job[t]
    <3>1. \A l \in Lists : s \in results'[l] <=> s \in results[l]
      BY <2>2, <2>3, <2>5
    <3>2. QED
      BY <1>1, <1>2, <2>1, <2>5, <3>1, Unmoved
  <2>6. QED
    BY <2>4, <2>5
<1>6. CASE PushFails(t)
  <2>1. /\ UNCHANGED <<queue, results>> /\ lost' = lost \union {job[t]}
        /\ Held(t) = {job[t]} /\ Held(t)' = {}
    BY <1>6 DEF PushFails, Rest, TypeOK, Held
  <2>2. CASE s = job[t]
    <3>1. Running(s) /\ Queued(s)' = Queued(s) /\ Stored(s)' = Stored(s)
      BY <2>1, <2>2 DEF Running, Queued, Stored
    <3>2. \A u \in Threads : s \notin Held(u)'
      BY <1>1, <1>2, <2>1, <2>2 DEF InOnePlace
    <3>3. ~Running(s)'
      BY <3>2 DEF Running
    <3>4. Places(s)' = 1
      BY <1>1, <2>1, <2>2, <3>1, <3>3 DEF InOnePlace, Places, One
    <3>5. QED
      BY <1>1, <2>1, <3>2, <3>4 DEF InOnePlace
  <2>3. CASE s # job[t]
    BY <1>1, <1>2, <2>1, <2>3, Unmoved
  <2>4. QED
    BY <2>2, <2>3
<1>7. QED
  BY <1>3, <1>4, <1>5, <1>6 DEF ThreadStep

\* Redis moves whole lists to what has expired, a crash what was in memory to what is
\* lost.
LEMMA EnvironmentMoves ==
    ASSUME TypeOK, AllInOnePlace, Tick \/ Crash \/ UNCHANGED vars,
           NEW s \in 1..submitted
    PROVE  InOnePlace(s)'
<1> USE DEF poolVars, threadVars, redisVars, history
<1>1. InOnePlace(s)
  BY DEF AllInOnePlace
<1>2. CASE Tick
  <2>1. UNCHANGED <<offered, queue, thread, job, discarded, undiagnosed, lost>>
    BY <1>2 DEF Tick
  <2>2. \A t \in Threads : Held(t)' = Held(t)
    BY <2>1 DEF Held
  <2>3. PICK over \in SUBSET Lists :
           /\ results' = [l \in Lists |-> IF l \in over THEN {} ELSE results[l]]
           /\ expired' = expired \union UNION {results[l] : l \in over}
    BY <1>2 DEF Tick
  <2>4. CASE \E l \in over : s \in results[l]
    <3>1. Stored(s) /\ Queued(s)' = Queued(s) /\ Running(s)' = Running(s)
      BY <2>1, <2>2, <2>4 DEF Stored, Queued, Running
    <3>2. \A l \in Lists : s \notin results'[l]
      BY <1>1, <2>3, <2>4 DEF InOnePlace
    <3>3. ~Stored(s)' /\ s \in expired'
      BY <2>3, <2>4, <3>2 DEF Stored
    <3>4. Places(s)' = 1
      BY <1>1, <2>1, <3>1, <3>3 DEF InOnePlace, Places, One
    <3>5. QED
      BY <1>1, <2>2, <3>2, <3>4 DEF InOnePlace
  <2>5. CASE ~\E l \in over : s \in results[l]
    BY <1>1, <2>1, <2>2, <2>3, <2>5, Unmoved
  <2>6. QED
    BY <2>4, <2>5
<1>3. CASE Crash
  <2>1. /\ UNCHANGED <<results, discarded, undiagnosed, expired>>
        /\ lost' = lost \union InPool \union UNION {Held(t) : t \in Threads}
        /\ queue' = <<>> /\ offered' = 0
        /\ \A t \in Threads : thread'[t] = "none"
    BY <1>3 DEF Crash, None
  <2>2. \A t \in Threads : Held(t)' = {}
    BY <2>1 DEF Held
  <2>3. ~Queued(s)' /\ ~Running(s)' /\ offered' # s /\ Stored(s)' = Stored(s)
    BY <2>1, <2>2, PoolSpans DEF Queued, ToSet, Running, Stored
  <2>4. s \in lost' <=> s \in lost \/ Queued(s) \/ Running(s) \/ offered = s
    BY <2>1, PoolSpans DEF Queued, Running, InPool, None
  <2>5. Places(s)' = 1
    BY <1>1, <2>1, <2>3, <2>4 DEF InOnePlace, Places, One
  <2>6. QED
    BY <1>1, <2>1, <2>2, <2>5 DEF InOnePlace
<1>4. CASE UNCHANGED vars
  <2>1. \A t \in Threads : Held(t)' = Held(t)
    BY <1>4 DEF vars, Held
  <2>2. QED
    BY <1>1, <1>4, <2>1, Unmoved DEF vars
<1>5. QED
  BY <1>2, <1>3, <1>4

\* A set all of whose elements are equal has one element, or none.
LEMMA AtMostOne ==
    ASSUME NEW S, \A x, y \in S : x = y
    PROVE  Cardinality(S) = One(S # {})
<1>1. CASE S = {}
  BY <1>1, FS_EmptySet DEF One
<1>2. CASE S # {}
  <2>1. PICK x \in S : S = {x}
    BY <1>2
  <2>2. Cardinality({x}) = 1
    BY FS_Singleton
  <2>3. QED
    BY <1>2, <2>1, <2>2 DEF One
<1>3. QED
  BY <1>1, <1>2

\* A span in one place is sighted once.
LEMMA OnePlaceOneSighting ==
    ASSUME TypeOK, InOrder, NEW s \in 1..submitted, InOnePlace(s)
    PROVE  Sightings(s) = 1
<1> DEFINE At == {i \in DOMAIN queue : queue[i] = s}
           By == {t \in Threads : s \in Held(t)}
           In == {l \in Lists : s \in results[l]}
<1>1. Cardinality(At) = One(Queued(s))
  <2>1. \A i, j \in At : i = j
    <3>1. \A i, j \in DOMAIN queue : i \in Int /\ j \in Int /\ queue[i] \in Int
      BY PoolSpans
    <3>2. ASSUME NEW i \in At, NEW j \in At, i < j
          PROVE  FALSE
      BY <3>1, <3>2 DEF InOrder
    <3>3. QED
      BY <3>1, <3>2
  <2>2. At # {} <=> Queued(s)
    BY DEF Queued, ToSet
  <2>3. QED
    BY <2>1, <2>2, AtMostOne DEF One
<1>2. Cardinality(By) = One(Running(s))
  <2>1. \A t, u \in By : t = u
    BY DEF InOnePlace
  <2>2. By # {} <=> Running(s)
    BY DEF Running
  <2>3. QED
    BY <2>1, <2>2, AtMostOne DEF One
<1>3. Cardinality(In) = One(Stored(s))
  <2>1. \A k, l \in In : k = l
    BY DEF InOnePlace
  <2>2. In # {} <=> Stored(s)
    BY DEF Stored
  <2>3. QED
    BY <2>1, <2>2, AtMostOne DEF One
<1>4. Sightings(s) = Places(s)
  BY <1>1, <1>2, <1>3 DEF Sightings, Places, One
<1>5. QED
  BY <1>4 DEF InOnePlace

\* Every slow span that was submitted is, at every moment, in exactly one place: no
\* task is run twice, no result is in both lists, and no span disappears, whatever
\* the threads, the policy, Redis and crashes do.
THEOREM EverySpanAccounted == Spec => []Accounted
<1>1. Init => InOrder /\ AllInOnePlace
  <2> SUFFICES ASSUME Init
               PROVE  InOrder /\ AllInOnePlace
    OBVIOUS
  <2>1. DOMAIN queue = {} /\ discarded = {} /\ submitted = 0
    BY DEF Init
  <2>2. QED
    BY <2>1 DEF InOrder, AllInOnePlace
<1>2. TypeOK /\ InOrder /\ AllInOnePlace /\ [Next]_vars => AllInOnePlace'
  <2> SUFFICES ASSUME TypeOK, InOrder, AllInOnePlace, [Next]_vars
               PROVE  AllInOnePlace'
    OBVIOUS
  <2>1. CASE Submit
    BY <2>1, SubmitMoves
  <2>2. CASE \/ SubmitterStep \/ Tick \/ Crash \/ UNCHANGED vars
             \/ \E t \in Threads : ThreadStep(t) \/ ThreadEnds(t)
    <3>1. submitted' = submitted
      BY <2>2
         DEF vars, poolVars, SubmitterStep, Enqueue, DiscardOldest, StartCore, StartExtra,
             StartThread, Tick, Crash, ThreadStep, TakeTask, ThreadEnds, Answered,
             Unaskable, Unusable, CallFails, SleepEnds, Push, PushUnacknowledged,
             PushFails, Expire, ExpireFails
    <3>2. \A s \in 1..submitted : InOnePlace(s)'
      BY <2>2, SubmitterMoves, ThreadMoves, EnvironmentMoves
    <3>3. QED
      BY <3>1, <3>2 DEF AllInOnePlace
  <2>3. QED
    BY <2>1, <2>2 DEF Next
<1>3. TypeOK /\ InOrder /\ [Next]_vars => InOrder'
  BY NextInOrder
<1>4. TypeOK /\ InOrder /\ AllInOnePlace => Accounted
  BY OnePlaceOneSighting DEF AllInOnePlace, Accounted
<1>5. QED
  BY <1>1, <1>2, <1>3, <1>4, TypeCorrect, PTL DEF Spec
===============================================================================
