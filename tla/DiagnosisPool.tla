----------------------------- MODULE DiagnosisPool -----------------------------
(***************************************************************************)
(* The diagnosis of slow spans: ESSyncWorker submits each one to the pool   *)
(* of DiagnosisTaskExecutor, a pool thread runs DiagnosisTask, which asks   *)
(* the AI service (DiagnosisService, with retries) and pushes the result to *)
(* one of two Redis lists, whose expiry it then renews.                     *)
(*                                                                         *)
(* The pool is a java.util.concurrent.ThreadPoolExecutor: core threads      *)
(* first, then the queue, then extra threads, then DiscardOldestPolicy.     *)
(* ESSyncWorker is its only client. Spans are numbered in the order they    *)
(* are submitted.                                                           *)
(***************************************************************************)
EXTENDS Integers, Sequences, FiniteSets, SequencesExt, FiniteSetsExt

CONSTANTS
    Threads,        \* threads the pool may have: nebula.diagnosis.thread-pool-max
    CoreSize,       \* nebula.diagnosis.thread-pool-core
    QueueCapacity,  \* nebula.diagnosis.thread-pool-queue
    MaxRetries,     \* nebula.ai.retry-count
    Expiry,         \* time to live of each result list, in ticks: a day, a week
    MaxSpans,       \* bound on the spans submitted
    MaxCrashes      \* bound on restarts of the server

ASSUME DiagnosisAssumption ==
    /\ IsFiniteSet(Threads)
    /\ CoreSize \in 1..Cardinality(Threads)
    /\ QueueCapacity \in Nat \ {0}
    /\ MaxRetries \in Nat \ {0}
    /\ Expiry \in [{"queue", "failed"} -> Nat \ {0}]
    /\ MaxSpans \in Nat
    /\ MaxCrashes \in Nat

VARIABLES
    executor,       \* DiagnosisTaskExecutor.executor # null
    submitted,      \* number of spans submitted so far
    offered,        \* the span ESSyncWorker is in the middle of submitting, or None
    offer,          \* how far ThreadPoolExecutor.execute is with it
    queue,          \* the pool's LinkedBlockingQueue
    thread,         \* what each thread is doing
    job,            \* the span it diagnoses, or None
    attempt,        \* attempt of diagnoseWithAI
    verdict,        \* the list its result belongs to
    results,        \* the two Redis lists
    ttl,            \* time to live of each list, or NoTTL
    discarded,      \* history: spans discarded by the pool
    undiagnosed,    \* history: spans submitted to no pool
    lost,           \* history: spans whose task or result a fault took away
    expired,        \* history: spans whose result Redis expired
    unrenewed,      \* history: lists whose last EXPIRE a fault prevented
    crashes

poolVars == <<executor, submitted, offered, offer, queue>>
threadVars == <<thread, job, attempt, verdict>>
redisVars == <<results, ttl>>
history == <<discarded, undiagnosed, lost, expired, unrenewed>>
vars == <<poolVars, threadVars, redisVars, history, crashes>>

Spans == 1..MaxSpans
None == 0
NoTTL == -1

\* DIAGNOSIS_QUEUE_KEY and DIAGNOSIS_FAILED_KEY.
Lists == {"queue", "failed"}

Live == {t \in Threads : thread[t] # "none"}

Init ==
    /\ executor \in BOOLEAN        \* start initializes it if the AI settings are valid
    /\ submitted = 0
    /\ offered = None
    /\ offer = "none"
    /\ queue = <<>>
    /\ thread = [t \in Threads |-> "none"]
    /\ job = [t \in Threads |-> None]
    /\ attempt = [t \in Threads |-> 0]
    /\ verdict = [t \in Threads |-> "failed"]
    /\ results = [l \in Lists |-> {}]
    /\ ttl = [l \in Lists |-> NoTTL]
    /\ discarded = {}
    /\ undiagnosed = {}
    /\ lost = {}
    /\ expired = {}
    /\ unrenewed = {}
    /\ crashes = 0

-------------------------------------------------------------------------------
(* submitDiagnosisTask, in ESSyncWorker's thread                           *)

\* Without an executor the call returns null, and nobody looks at what it returns.
Submit ==
    /\ offer = "none"
    /\ submitted < MaxSpans
    /\ submitted' = submitted + 1
    /\ IF executor
       THEN /\ offered' = submitted'
            /\ offer' = "execute"
            /\ UNCHANGED undiagnosed
       ELSE /\ undiagnosed' = undiagnosed \union {submitted'}
            /\ UNCHANGED <<offered, offer>>
    /\ UNCHANGED <<executor, queue, threadVars, redisVars, discarded, lost, expired,
                   unrenewed, crashes>>

\* A new thread takes the offered span as its first task.
StartThread(t) ==
    /\ thread[t] = "none"
    /\ thread' = [thread EXCEPT ![t] = "asking"]
    /\ job' = [job EXCEPT ![t] = offered]
    /\ attempt' = [attempt EXCEPT ![t] = 1]
    /\ offered' = None
    /\ offer' = "none"
    /\ UNCHANGED <<executor, submitted, queue, verdict, redisVars, history, crashes>>

StartCore(t) ==
    /\ offer = "execute"
    /\ Cardinality(Live) < CoreSize
    /\ StartThread(t)

EnqueueUnbounded ==                 \* mutant: the queue has no capacity
    /\ offer = "execute"
    /\ Cardinality(Live) >= CoreSize
    /\ queue' = Append(queue, offered)
    /\ offered' = None
    /\ offer' = "none"
    /\ UNCHANGED <<executor, submitted, threadVars, redisVars, history, crashes>>

Enqueue ==
    /\ offer = "execute"
    /\ Cardinality(Live) >= CoreSize
    /\ IF Len(queue) < QueueCapacity
       THEN /\ queue' = Append(queue, offered)
            /\ offered' = None
            /\ offer' = "none"
       ELSE /\ offer' = "full"
            /\ UNCHANGED <<queue, offered>>
    /\ UNCHANGED <<executor, submitted, threadVars, redisVars, history, crashes>>

StartExtra(t) ==
    /\ offer = "full"
    /\ StartThread(t)

DiscardOffered ==                   \* mutant: DiscardPolicy
    /\ offer = "full"
    /\ Live = Threads
    /\ discarded' = discarded \union {offered}
    /\ offered' = None
    /\ offer' = "none"
    /\ UNCHANGED <<executor, submitted, queue, threadVars, redisVars, undiagnosed,
                   lost, expired, unrenewed, crashes>>

DiscardUnseen ==                    \* mutant: the offered task is not tried again
    /\ offer = "full"
    /\ Live = Threads
    /\ queue' = IF queue = <<>> THEN queue ELSE Tail(queue)
    /\ discarded' = IF queue = <<>> THEN discarded ELSE discarded \union {Head(queue)}
    /\ offered' = None
    /\ offer' = "none"
    /\ UNCHANGED <<executor, submitted, threadVars, redisVars, undiagnosed, lost,
                   expired, unrenewed, crashes>>

\* DiscardOldestPolicy polls whatever is at the head by now, then executes again.
DiscardOldest ==
    /\ offer = "full"
    /\ Live = Threads
    /\ offer' = "execute"
    /\ queue' = IF queue = <<>> THEN queue ELSE Tail(queue)
    /\ discarded' = IF queue = <<>> THEN discarded ELSE discarded \union {Head(queue)}
    /\ UNCHANGED <<executor, submitted, offered, threadVars, redisVars, undiagnosed,
                   lost, expired, unrenewed, crashes>>

SubmitterStep ==
    Enqueue \/ DiscardOldest \/ \E t \in Threads : StartCore(t) \/ StartExtra(t)

-------------------------------------------------------------------------------
(* A pool thread                                                           *)

TakeTask(t) ==
    /\ thread[t] = "idle"
    /\ queue # <<>>
    /\ queue' = Tail(queue)
    /\ thread' = [thread EXCEPT ![t] = "asking"]
    /\ job' = [job EXCEPT ![t] = Head(queue)]
    /\ attempt' = [attempt EXCEPT ![t] = 1]
    /\ UNCHANGED <<executor, submitted, offered, offer, verdict, redisVars, history,
                   crashes>>

\* An extra thread that has been idle for the keep-alive time ends.
ThreadEnds(t) ==
    /\ thread[t] = "idle"
    /\ queue = <<>>
    /\ Cardinality(Live) > CoreSize
    /\ thread' = [thread EXCEPT ![t] = "none"]
    /\ UNCHANGED <<poolVars, job, attempt, verdict, redisVars, history, crashes>>

\* diagnoseWithAI is done: the result is to be stored in list l.
Concludes(t, l) ==
    /\ thread' = [thread EXCEPT ![t] = "storing"]
    /\ verdict' = [verdict EXCEPT ![t] = l]
    /\ UNCHANGED attempt

\* The service answers: SUCCESS.
Answered(t) ==
    /\ thread[t] = "asking"
    /\ Concludes(t, "queue")
    /\ UNCHANGED <<poolVars, job, redisVars, history, crashes>>

\* Collecting the context throws, or validatePrompt rejects the prompt: FAILED.
Unaskable(t) ==
    /\ thread[t] = "asking"
    /\ attempt[t] = 1
    /\ Concludes(t, "failed")
    /\ UNCHANGED <<poolVars, job, redisVars, history, crashes>>

\* The answer holds no text: the next attempt follows at once.
Unusable(t) ==
    /\ thread[t] = "asking"
    /\ IF attempt[t] < MaxRetries
       THEN /\ attempt' = [attempt EXCEPT ![t] = @ + 1]
            /\ UNCHANGED <<thread, verdict>>
       ELSE Concludes(t, "failed")
    /\ UNCHANGED <<poolVars, job, redisVars, history, crashes>>

\* The call throws: the next attempt follows a sleep.
CallFails(t) ==
    /\ thread[t] = "asking"
    /\ IF attempt[t] < MaxRetries
       THEN /\ thread' = [thread EXCEPT ![t] = "sleeping"]
            /\ UNCHANGED <<attempt, verdict>>
       ELSE Concludes(t, "failed")
    /\ UNCHANGED <<poolVars, job, redisVars, history, crashes>>

SleepEndsUncounted(t) ==            \* mutant: attempt++ is skipped after a sleep
    /\ thread[t] = "sleeping"
    /\ thread' = [thread EXCEPT ![t] = "asking"]
    /\ UNCHANGED <<poolVars, job, attempt, verdict, redisVars, history, crashes>>

SleepEnds(t) ==
    /\ thread[t] = "sleeping"
    /\ thread' = [thread EXCEPT ![t] = "asking"]
    /\ attempt' = [attempt EXCEPT ![t] = @ + 1]
    /\ UNCHANGED <<poolVars, job, verdict, redisVars, history, crashes>>

\* The task is over.
Rest(t) ==
    /\ thread' = [thread EXCEPT ![t] = "idle"]
    /\ job' = [job EXCEPT ![t] = None]
    /\ attempt' = [attempt EXCEPT ![t] = 0]
    /\ verdict' = [verdict EXCEPT ![t] = "failed"]

\* LPUSH reaches the list.
Pushed(t) ==
    /\ results' = [results EXCEPT ![verdict[t]] = @ \union {job[t]}]
    /\ UNCHANGED ttl

PushWithoutExpire(t) ==             \* mutant: EXPIRE is forgotten
    /\ thread[t] = "storing"
    /\ Pushed(t)
    /\ Rest(t)
    /\ UNCHANGED <<poolVars, history, crashes>>

\* storeSuccessfulDiagnosis, storeFailedDiagnosis: LPUSH ...
Push(t) ==
    /\ thread[t] = "storing"
    /\ Pushed(t)
    /\ thread' = [thread EXCEPT ![t] = "expiring"]
    /\ UNCHANGED <<poolVars, job, attempt, verdict, history, crashes>>

\* ... whose reply may be lost, which the code takes for a failure ...
PushUnacknowledged(t) ==
    /\ thread[t] = "storing"
    /\ Pushed(t)
    /\ Rest(t)
    /\ unrenewed' = unrenewed \union {verdict[t]}
    /\ UNCHANGED <<poolVars, discarded, undiagnosed, lost, expired, crashes>>

\* ... or fail, or find no connection: the result is only logged.
PushFails(t) ==
    /\ thread[t] = "storing"
    /\ Rest(t)
    /\ lost' = lost \union {job[t]}
    /\ UNCHANGED <<poolVars, redisVars, discarded, undiagnosed, expired, unrenewed,
                   crashes>>

\* EXPIRE sets the time to live of the whole list ...
Expire(t) ==
    /\ thread[t] = "expiring"
    /\ Rest(t)
    /\ ttl' = [ttl EXCEPT ![verdict[t]] = Expiry[verdict[t]]]
    /\ unrenewed' = unrenewed \ {verdict[t]}
    /\ UNCHANGED <<poolVars, results, discarded, undiagnosed, lost, expired, crashes>>

\* ... or throws, which is logged.
ExpireFails(t) ==
    /\ thread[t] = "expiring"
    /\ Rest(t)
    /\ unrenewed' = unrenewed \union {verdict[t]}
    /\ UNCHANGED <<poolVars, redisVars, discarded, undiagnosed, lost, expired, crashes>>

ThreadStep(t) ==
    \/ TakeTask(t)
    \/ Answered(t) \/ Unaskable(t) \/ Unusable(t) \/ CallFails(t) \/ SleepEnds(t)
    \/ Push(t) \/ PushUnacknowledged(t) \/ PushFails(t)
    \/ Expire(t) \/ ExpireFails(t)

-------------------------------------------------------------------------------
(* Environment                                                             *)

\* Time passes in Redis: a list whose time is over is deleted. A tick is hours long,
\* LPUSH and EXPIRE follow one another within seconds.
Tick ==
    /\ \A t \in Threads : thread[t] # "expiring"
    /\ \E l \in Lists : results[l] # {}
    /\ LET over == {l \in Lists : ttl[l] = 1} IN
          /\ results' = [l \in Lists |-> IF l \in over THEN {} ELSE results[l]]
          /\ ttl' = [l \in Lists |-> IF l \in over THEN NoTTL
                                     ELSE IF ttl[l] = NoTTL THEN NoTTL ELSE ttl[l] - 1]
          /\ expired' = expired \union UNION {results[l] : l \in over}
    /\ UNCHANGED <<poolVars, threadVars, discarded, undiagnosed, lost, unrenewed,
                   crashes>>

InPool == ToSet(queue) \union ({offered} \ {None})
Held(t) == IF thread[t] \in {"asking", "sleeping", "storing"} THEN {job[t]} ELSE {}

\* The server dies and starts again with the settings it had.
Crash ==
    /\ crashes < MaxCrashes
    /\ crashes' = crashes + 1
    /\ lost' = lost \union InPool \union UNION {Held(t) : t \in Threads}
    /\ unrenewed' = unrenewed \union {verdict[t] : t \in {u \in Threads : thread[u] = "expiring"}}
    /\ queue' = <<>>
    /\ offered' = None
    /\ offer' = "none"
    /\ thread' = [t \in Threads |-> "none"]
    /\ job' = [t \in Threads |-> None]
    /\ attempt' = [t \in Threads |-> 0]
    /\ verdict' = [t \in Threads |-> "failed"]
    /\ UNCHANGED <<executor, submitted, redisVars, discarded, undiagnosed, expired>>

Next ==
    \/ Submit
    \/ SubmitterStep
    \/ \E t \in Threads : ThreadStep(t) \/ ThreadEnds(t)
    \/ Tick
    \/ Crash

Spec == Init /\ [][Next]_vars

\* ESSyncWorker and the pool threads run, AI calls time out, sleeps end.
Fairness ==
    /\ WF_vars(SubmitterStep)
    /\ \A t \in Threads : WF_vars(ThreadStep(t))

FairSpec == Spec /\ Fairness

-------------------------------------------------------------------------------
(* Properties                                                              *)

\* Types, and the bounds of the pool: extra threads exist only beyond the core, a
\* thread has a task exactly while it works on one, and sleeps only before another
\* attempt.
TypeOK ==
    /\ executor \in BOOLEAN
    /\ submitted \in 0..MaxSpans
    /\ offered \in 0..submitted
    /\ offer \in {"none", "execute", "full"}
    /\ offer = "none" <=> offered = None
    /\ queue \in Seq(1..submitted)
    /\ Len(queue) <= QueueCapacity
    /\ thread \in [Threads -> {"none", "idle", "asking", "sleeping", "storing", "expiring"}]
    /\ job \in [Threads -> 0..submitted]
    /\ \A t \in Threads : thread[t] \in {"none", "idle"} <=> job[t] = None
    /\ attempt \in [Threads -> 0..MaxRetries]
    /\ \A t \in Threads : thread[t] = "sleeping" => attempt[t] < MaxRetries
    /\ verdict \in [Threads -> Lists]
    /\ results \in [Lists -> SUBSET (1..submitted)]
    /\ ttl \in [Lists -> Int]
    /\ \A l \in Lists : ttl[l] \in {NoTTL} \union 1..Expiry[l]
    /\ discarded \subseteq 1..submitted
    /\ undiagnosed \subseteq 1..submitted
    /\ lost \subseteq 1..submitted
    /\ expired \subseteq 1..submitted
    /\ unrenewed \subseteq Lists
    /\ crashes \in 0..MaxCrashes

\* How often a span is somewhere: in the hands of the submitter, waiting, being
\* diagnosed, or at one of its possible ends.
Sightings(s) ==
    LET one(b) == IF b THEN 1 ELSE 0 IN
    one(offered = s)
    + Cardinality({i \in DOMAIN queue : queue[i] = s})
    + Cardinality({t \in Threads : s \in Held(t)})
    + Cardinality({l \in Lists : s \in results[l]})
    + one(s \in discarded) + one(s \in undiagnosed) + one(s \in lost)
    + one(s \in expired)

\* Every slow span that was submitted is in exactly one place: no task is run twice,
\* no result stored in both lists, no span forgotten.
Accounted == \A s \in 1..submitted : Sightings(s) = 1

\* "discarding oldest task": what the pool discards is older than all it keeps
\* waiting, though the threads go on taking tasks while it decides.
DiscardsOldest ==
    \A d \in discarded : \A s \in InPool : d < s

\* A list that holds results has a time to live, or a thread is about to set it, or a
\* fault came between LPUSH and EXPIRE, and no result has been stored in it since: the
\* next EXPIRE is for the whole list, whichever thread sends it.
ListsHaveTTL ==
    \A l \in Lists :
        results[l] # {} /\ ttl[l] = NoTTL =>
            \/ \E t \in Threads : thread[t] = "expiring" /\ verdict[t] = l
            \/ l \in unrenewed

\* Every slow span comes to one of its ends, however often the service fails: the
\* submissions of an instance are finite, so at last none is on its way.
EverySlowSpanSettles ==
    <>[](\A s \in 1..submitted :
            s \in discarded \union undiagnosed \union lost \union expired
                  \union UNION {results[l] : l \in Lists})
===============================================================================
