---------------------------- MODULE SamplingControl ----------------------------
(***************************************************************************)
(* How the server turns the agents' sampling rate down and up again:       *)
(* ThresholdThread watches the load, SamplingRateManager makes commands,    *)
(* ServerHandler keeps the group of connected channels and broadcasts to    *)
(* it one channel at a time, and each agent's ControlMessageHandler applies *)
(* what reaches it. SamplingRateManager.broadcastToApps is an API: its      *)
(* caller is another thread.                                                *)
(*                                                                         *)
(* An agent is one process. It connects once, in premain, and never again.  *)
(* A rate is a percentage. Heap and CPU load are outside the program; the   *)
(* two other conditions of checkSystemLoad cannot hold: the fallback queue  *)
(* never exceeds its capacity, which is the threshold, and nothing calls    *)
(* recordEsLatency.                                                         *)
(***************************************************************************)
EXTENDS Integers, Sequences, FiniteSets, FiniteSetsExt, NettyPipeline

CONSTANTS
    Agents,         \* agent processes
    Apps,           \* application names
    AppOf,          \* the application each agent belongs to
    ApiTargets,     \* lists of applications passed to broadcastToApps
    ApiRates,       \* rates passed to broadcastToApps, legal or not
    MaxApiCalls,    \* bound on calls of broadcastToApps
    MaxLoadChanges, \* bound on changes of the load
    MaxRestarts     \* bound on restarts of the server

ASSUME SamplingAssumption ==
    /\ AppOf \in [Agents -> Apps]
    /\ ApiTargets \subseteq SUBSET Apps
    /\ ApiRates \subseteq Int
    /\ MaxApiCalls \in Nat
    /\ MaxLoadChanges \in Nat
    /\ MaxRestarts \in Nat

VARIABLES
    overloaded,     \* checkHeapMemory() || checkCpuLoad()
    threshold,      \* what ThresholdThread is doing
    reducedMode,    \* ThresholdThread.isInReducedMode
    appRates,       \* SamplingRateManager.appSamplingRates, by default 100
    cast,           \* the command each thread is broadcasting, if any
    left,           \* the channels it has not written it to yet
    link,           \* each agent's connection as the agent sees it
    joined,         \* each agent's channel as the server's group sees it
    wire,           \* commands on their way to each agent
    rate,           \* GlobalConfig.getSamplingRate of each agent's application
    unanswered,     \* history: agents that executed a command and sent no ACK
    due,            \* history: rate of the last command meant for each agent
    crossed,        \* history: agents two broadcasts raced for
    apiCalls, loadChanges, restarts

loadVars == <<overloaded, loadChanges>>
serverVars == <<threshold, reducedMode, appRates, cast, left>>
agentVars == <<rate, unanswered>>
vars == <<loadVars, serverVars, link, joined, wire, agentVars, due, crossed,
          apiCalls, restarts>>

FullRate == 100
ValidRate(r) == r \in 0..100

\* reduceAllSamplingRates(0.5f): at least 1%.
ReducedRate == Max({1, 50})

Threads == {"threshold", "api"}

\* An empty list of targets stands for every application.
Commands == [targets : SUBSET Apps, rate : Int]
ToAll(r) == [targets |-> {}, rate |-> r]
NoCast == [targets |-> {}]          \* no command: it has no rate

Applies(cmd, a) == cmd.targets = {} \/ AppOf[a] \in cmd.targets

Channels == {a \in Agents : joined[a] = "member"}

Init ==
    /\ overloaded \in BOOLEAN
    /\ threshold = "waiting"
    /\ reducedMode = FALSE
    /\ appRates = [app \in Apps |-> FullRate]
    /\ cast = [t \in Threads |-> NoCast]
    /\ left = [t \in Threads |-> {}]
    /\ link = [a \in Agents |-> "none"]
    /\ joined = [a \in Agents |-> "none"]
    /\ wire = [a \in Agents |-> <<>>]
    /\ rate = [a \in Agents |-> FullRate]
    /\ unanswered = {}
    /\ due = [a \in Agents |-> FullRate]
    /\ crossed = {}
    /\ apiCalls = 0
    /\ loadChanges = 0
    /\ restarts = 0

-------------------------------------------------------------------------------
(* Broadcasting                                                            *)

\* ServerHandler.broadcastCommand begins to go through the channel group.
StartCast(t, cmd) ==
    /\ cast' = [cast EXCEPT ![t] = cmd]
    /\ left' = [left EXCEPT ![t] = Channels]
    /\ due' = [a \in Agents |->
                  IF a \in Channels /\ Applies(cmd, a) /\ ValidRate(cmd.rate)
                  THEN cmd.rate ELSE due[a]]
    /\ crossed' = crossed \union UNION {left[u] : u \in Threads}

\* ... and writes to one of its channels. A closed channel fails the write.
WriteCommand(t, a) ==
    /\ a \in left[t]
    /\ left' = [left EXCEPT ![t] = @ \ {a}]
    /\ wire' = IF link[a] = "open" /\ ChannelWrite(ServerPipeline, "Message")
               THEN [wire EXCEPT ![a] = Append(@, cast[t])] ELSE wire
    /\ UNCHANGED <<loadVars, threshold, reducedMode, appRates, cast, link, joined,
                   agentVars, due, crossed, apiCalls, restarts>>

\* broadcastToApps: an illegal rate is refused by the map, not by the broadcast.
BroadcastToApps(apps, r) ==
    /\ cast["api"] = NoCast
    /\ apiCalls < MaxApiCalls
    /\ apiCalls' = apiCalls + 1
    /\ appRates' = [app \in Apps |-> IF app \in apps /\ ValidRate(r) THEN r
                                     ELSE appRates[app]]
    /\ StartCast("api", [targets |-> apps, rate |-> r])
    /\ UNCHANGED <<loadVars, threshold, reducedMode, link, joined, wire, agentVars,
                   restarts>>

ApiReturns ==
    /\ cast["api"] # NoCast
    /\ left["api"] = {}
    /\ cast' = [cast EXCEPT !["api"] = NoCast]
    /\ UNCHANGED <<loadVars, threshold, reducedMode, appRates, left, link, joined,
                   wire, agentVars, due, crossed, apiCalls, restarts>>

-------------------------------------------------------------------------------
(* ThresholdThread.run                                                     *)

\* The load is high for the first time: reduceAllSamplingRates.
Reduce ==
    /\ threshold = "waiting"
    /\ overloaded
    /\ ~reducedMode
    /\ threshold' = "reducing"
    /\ StartCast("threshold", ToAll(ReducedRate))
    /\ UNCHANGED <<loadVars, reducedMode, appRates, link, joined, wire, agentVars,
                   apiCalls, restarts>>

\* The load is normal again: restoreFullSampling.
Restore ==
    /\ threshold = "waiting"
    /\ ~overloaded
    /\ reducedMode
    /\ threshold' = "restoring"
    /\ StartCast("threshold", ToAll(FullRate))
    /\ UNCHANGED <<loadVars, reducedMode, appRates, link, joined, wire, agentVars,
                   apiCalls, restarts>>

ModeNeverReset ==                   \* mutant: isInReducedMode = false is forgotten
    /\ threshold # "waiting"
    /\ left["threshold"] = {}
    /\ reducedMode' = TRUE
    /\ threshold' = "waiting"
    /\ cast' = [cast EXCEPT !["threshold"] = NoCast]
    /\ UNCHANGED <<loadVars, appRates, left, link, joined, wire, agentVars, due,
                   crossed, apiCalls, restarts>>

ModeChangesEarly ==                 \* mutant: a broadcast cut short counts as done
    /\ threshold # "waiting"
    /\ left' = [left EXCEPT !["threshold"] = {}]
    /\ reducedMode' = (threshold = "reducing")
    /\ threshold' = "waiting"
    /\ cast' = [cast EXCEPT !["threshold"] = NoCast]
    /\ UNCHANGED <<loadVars, appRates, link, joined, wire, agentVars, due, crossed,
                   apiCalls, restarts>>

\* The broadcast returns and only then is isInReducedMode assigned.
ModeChanges ==
    /\ threshold # "waiting"
    /\ left["threshold"] = {}
    /\ reducedMode' = (threshold = "reducing")
    /\ threshold' = "waiting"
    /\ cast' = [cast EXCEPT !["threshold"] = NoCast]
    /\ UNCHANGED <<loadVars, appRates, left, link, joined, wire, agentVars, due,
                   crossed, apiCalls, restarts>>

-------------------------------------------------------------------------------
(* Connections                                                             *)

\* NettyClient.connect, in premain: the server may not be there.
Connect(a) ==
    /\ link[a] = "none"
    /\ link' \in {[link EXCEPT ![a] = s] : s \in {"open", "closed"}}
    /\ UNCHANGED <<loadVars, serverVars, joined, wire, agentVars, due, crossed,
                   apiCalls, restarts>>

\* ServerHandler.channelActive. A broadcast under way may or may not still meet
\* the new channel.
ChannelActive(a) ==
    /\ link[a] = "open"
    /\ joined[a] = "none"
    /\ joined' = [joined EXCEPT ![a] = "member"]
    /\ \E met \in SUBSET {t \in Threads : cast[t] # NoCast} :
          left' = [t \in Threads |-> IF t \in met THEN left[t] \union {a} ELSE left[t]]
    /\ crossed' = IF \E t \in Threads : cast[t] # NoCast THEN crossed \union {a}
                  ELSE crossed
    /\ UNCHANGED <<loadVars, threshold, reducedMode, appRates, cast, link, wire,
                   agentVars, due, apiCalls, restarts>>

\* The connection breaks. The agent may still read some of what was on its way,
\* but it never sends another span and its rate no longer matters.
Disconnect(a) ==
    /\ link[a] = "open"
    /\ link' = [link EXCEPT ![a] = "closed"]
    /\ wire' = [wire EXCEPT ![a] = <<>>]
    /\ UNCHANGED <<loadVars, serverVars, joined, agentVars, due, crossed, apiCalls,
                   restarts>>

\* ServerHandler.channelInactive.
ChannelInactive(a) ==
    /\ link[a] = "closed"
    /\ joined[a] = "member"
    /\ joined' = [joined EXCEPT ![a] = "left"]
    /\ UNCHANGED <<loadVars, serverVars, link, wire, agentVars, due, crossed,
                   apiCalls, restarts>>

\* The server dies and starts again. Every connection breaks with it.
RestartServer ==
    /\ restarts < MaxRestarts
    /\ restarts' = restarts + 1
    /\ threshold' = "waiting"
    /\ reducedMode' = FALSE
    /\ appRates' = [app \in Apps |-> FullRate]
    /\ cast' = [t \in Threads |-> NoCast]
    /\ left' = [t \in Threads |-> {}]
    /\ link' = [a \in Agents |-> IF link[a] = "open" THEN "closed" ELSE link[a]]
    /\ joined' = [a \in Agents |-> IF joined[a] = "member" THEN "left" ELSE joined[a]]
    /\ wire' = [a \in Agents |-> <<>>]
    /\ UNCHANGED <<loadVars, agentVars, due, crossed, apiCalls>>

-------------------------------------------------------------------------------
(* ControlMessageHandler, in the agent                                     *)

ExecuteAny(a) ==                    \* mutant: the target list is not looked at
    /\ wire[a] # <<>>
    /\ wire' = [wire EXCEPT ![a] = Tail(@)]
    /\ LET cmd == Head(wire[a]) IN
          /\ rate' = IF ValidRate(cmd.rate) THEN [rate EXCEPT ![a] = cmd.rate] ELSE rate
          /\ unanswered' = unanswered \union {a}
    /\ UNCHANGED <<loadVars, serverVars, link, joined, due, crossed, apiCalls, restarts>>

ExecuteUnchecked(a) ==              \* mutant: GlobalConfig takes any rate
    /\ wire[a] # <<>>
    /\ wire' = [wire EXCEPT ![a] = Tail(@)]
    /\ LET cmd == Head(wire[a]) IN
          IF Applies(cmd, a)
          THEN /\ rate' = [rate EXCEPT ![a] = cmd.rate]
               /\ unanswered' = unanswered \union {a}
          ELSE UNCHANGED agentVars
    /\ UNCHANGED <<loadVars, serverVars, link, joined, due, crossed, apiCalls, restarts>>

\* handleControlCommand: a command for other applications is skipped; otherwise
\* GlobalConfig takes the rate if it is legal, and an ACK is written either way.
Execute(a) ==
    /\ wire[a] # <<>>
    /\ wire' = [wire EXCEPT ![a] = Tail(@)]
    /\ LET cmd == Head(wire[a]) IN
          IF Applies(cmd, a)
          THEN /\ rate' = IF ValidRate(cmd.rate) THEN [rate EXCEPT ![a] = cmd.rate]
                          ELSE rate
               /\ unanswered' =
                     IF ContextWrite(AgentPipeline, "ControlMessageHandler", "Message")
                     THEN unanswered ELSE unanswered \union {a}
          ELSE UNCHANGED agentVars
    /\ UNCHANGED <<loadVars, serverVars, link, joined, due, crossed, apiCalls, restarts>>

-------------------------------------------------------------------------------
LoadChanges ==
    /\ loadChanges < MaxLoadChanges
    /\ loadChanges' = loadChanges + 1
    /\ overloaded' = ~overloaded
    /\ UNCHANGED <<serverVars, link, joined, wire, agentVars, due, crossed, apiCalls,
                   restarts>>

ThresholdStep == Reduce \/ Restore \/ ModeChanges

Next ==
    \/ ThresholdStep
    \/ ApiReturns
    \/ \E apps \in ApiTargets, r \in ApiRates : BroadcastToApps(apps, r)
    \/ \E t \in Threads, a \in Agents : WriteCommand(t, a)
    \/ \E a \in Agents :
          \/ Connect(a)
          \/ ChannelActive(a)
          \/ Disconnect(a)
          \/ ChannelInactive(a)
          \/ Execute(a)
    \/ RestartServer
    \/ LoadChanges

Spec == Init /\ [][Next]_vars

\* ThresholdThread runs for ever, a broadcast is a finite loop, and the event loops
\* of server and agent get to what is waiting for them. Connections need not break
\* nor be made, and the load need not change.
Fairness ==
    /\ WF_vars(ThresholdStep)
    /\ \A a \in Agents :
          /\ \A t \in Threads : WF_vars(WriteCommand(t, a))
          /\ WF_vars(Execute(a))

FairSpec == Spec /\ Fairness

-------------------------------------------------------------------------------
(* Properties                                                              *)

\* Types, and how the threads' broadcasts and each agent's two views of its
\* connection fit together.
TypeOK ==
    /\ overloaded \in BOOLEAN
    /\ threshold \in {"waiting", "reducing", "restoring"}
    /\ reducedMode \in BOOLEAN
    /\ threshold = "reducing" => ~reducedMode
    /\ threshold = "restoring" => reducedMode
    /\ threshold = "waiting" <=> cast["threshold"] = NoCast
    /\ appRates \in [Apps -> 0..100]
    /\ cast \in [Threads -> Commands \union {NoCast}]
    /\ left \in [Threads -> SUBSET Agents]
    /\ \A t \in Threads : cast[t] = NoCast => left[t] = {}
    /\ link \in [Agents -> {"none", "open", "closed"}]
    /\ joined \in [Agents -> {"none", "member", "left"}]
    /\ \A a \in Agents : link[a] = "none" => joined[a] = "none"
    /\ \A a \in Agents : link[a] # "open" => wire[a] = <<>>
    /\ \A a \in Agents : joined[a] = "left" => link[a] = "closed"
    /\ wire \in [Agents -> Seq(Commands)]
    /\ rate \in [Agents -> 0..100]
    /\ unanswered \subseteq Agents
    /\ due \in [Agents -> 0..100]
    /\ crossed \subseteq Agents
    /\ apiCalls \in 0..MaxApiCalls
    /\ loadChanges \in 0..MaxLoadChanges
    /\ restarts \in 0..MaxRestarts

\* Nothing is on its way to a connected agent.
UpToDate(a) ==
    /\ joined[a] = "member"
    /\ link[a] = "open"
    /\ wire[a] = <<>>
    /\ \A t \in Threads : a \notin left[t]

\* A connected agent that has caught up samples at the rate of the last legal
\* command meant for its application, unless two broadcasts raced for it.
FollowsLastCommand ==
    \A a \in Agents : UpToDate(a) /\ a \notin crossed => rate[a] = due[a]

\* Until somebody calls broadcastToApps, no connected agent that has caught up is left
\* at a reduced rate once the mode is normal again, though some may have joined, or been
\* reduced, in the middle of a broadcast.
NoneLeftReduced ==
    apiCalls = 0 =>
        \A a \in Agents :
            UpToDate(a) /\ ~reducedMode /\ threshold = "waiting" => rate[a] = FullRate

\* Sustained overload reaches every agent that was connected when it began, or the
\* agent leaves, or the server restarts.
OverloadReachesAgents ==
    \A a \in Agents :
        threshold = "reducing" /\ a \in left["threshold"] ~>
            rate[a] = ReducedRate \/ link[a] = "closed"

\* When the load settles, the mode settles with it.
ModeFollowsLoad ==
    /\ <>[]overloaded => <>[](reducedMode)
    /\ <>[](~overloaded) => <>[](~reducedMode)

\* "Agent 收到控制命令后返回的确认" (AckResponse.java:6): a command an agent executes
\* is acknowledged.
CommandsAcknowledged == unanswered = {}
===============================================================================
