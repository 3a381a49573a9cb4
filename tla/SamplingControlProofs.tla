------------------------- MODULE SamplingControlProofs -------------------------
(***************************************************************************)
(* Proofs about SamplingControl, for any agents, applications, commands    *)
(* and bounds.                                                             *)
(***************************************************************************)
EXTENDS SamplingControl, TLAPS

-------------------------------------------------------------------------------
(* Facts about commands                                                    *)

\* A thread that broadcasts a command, of whatever rate, is not idle.
LEMMA CommandIsNoNoCast == NoCast \notin Commands
<1>1. ASSUME NEW cmd \in Commands
      PROVE  cmd # NoCast
  <2>1. "rate" \in DOMAIN cmd
    BY DEF Commands
  <2>2. "rate" \notin DOMAIN NoCast
    BY DEF NoCast
  <2>3. QED
    BY <2>1, <2>2
<1>2. QED
  BY <1>1

\* The reduced rate is 50%, which like the full rate is legal.
LEMMA RatesAreLegal ==
    /\ ReducedRate = 50
    /\ \A r \in {FullRate, ReducedRate} : ToAll(r) \in Commands /\ ValidRate(r)
<1>1. ReducedRate \in {1, 50} /\ \A x \in {1, 50} : ReducedRate >= x
  <2>1. 50 \in {1, 50} /\ \A x \in {1, 50} : 50 >= x
    OBVIOUS
  <2>2. QED
    BY <2>1 DEF ReducedRate, Max
<1>2. ReducedRate = 50
  BY <1>1
<1>3. QED
  BY <1>2 DEF FullRate, ToAll, Commands, ValidRate

\* Behind the last handler of the server's pipeline a command is encoded: the
\* bytes of a broadcast reach the socket.
LEMMA CommandsAreEncoded == ChannelWrite(ServerPipeline, "Message")
<1>1. Len(ServerPipeline) = 5 /\ ServerPipeline[2] = "BinaryMessageEncoder"
  BY DEF ServerPipeline
<1>2. 2 \in 1..(Len(ServerPipeline) + 1) - 1
  BY <1>1
<1>3. QED
  BY <1>1, <1>2 DEF ChannelWrite, ReachesSocket, Encodes

-------------------------------------------------------------------------------
(* Type correctness                                                        *)

\* A broadcast that an idle thread begins keeps the types of what it changes.
LEMMA StartCastType ==
    ASSUME TypeOK, NEW t \in Threads, NEW cmd \in Commands, cast[t] = NoCast,
           StartCast(t, cmd)
    PROVE  /\ cast' \in [Threads -> Commands \union {NoCast}]
           /\ cast'[t] = cmd /\ cmd # NoCast
           /\ left' \in [Threads -> SUBSET Agents]
           /\ \A u \in Threads : cast'[u] = NoCast => left'[u] = {}
           /\ due' \in [Agents -> 0..100]
           /\ crossed' \subseteq Agents
<1> USE SamplingAssumption DEF TypeOK, StartCast
<1>1. cast' \in [Threads -> Commands \union {NoCast}] /\ cast'[t] = cmd
  OBVIOUS
<1>2. cmd # NoCast
  BY CommandIsNoNoCast
<1>3. left' \in [Threads -> SUBSET Agents] /\ crossed' \subseteq Agents
  BY DEF Channels
<1>4. \A u \in Threads : cast'[u] = NoCast => left'[u] = {}
  BY <1>2
<1>5. due' \in [Agents -> 0..100]
  BY DEF ValidRate
<1>6. QED
  BY <1>1, <1>2, <1>3, <1>4, <1>5

\* A step of the two threads that broadcast keeps the types.
LEMMA ServerType ==
    ASSUME TypeOK,
           \/ ThresholdStep
           \/ ApiReturns
           \/ \E apps \in ApiTargets, r \in ApiRates : BroadcastToApps(apps, r)
           \/ \E t \in Threads, a \in Agents : WriteCommand(t, a)
    PROVE  TypeOK'
<1> USE SamplingAssumption DEF TypeOK, loadVars, agentVars
<1>1. CASE Reduce \/ Restore
  <2>1. ASSUME NEW r \in {FullRate, ReducedRate}, cast["threshold"] = NoCast,
               StartCast("threshold", ToAll(r))
        PROVE  /\ cast' \in [Threads -> Commands \union {NoCast}]
               /\ cast'["threshold"] # NoCast
               /\ left' \in [Threads -> SUBSET Agents]
               /\ \A u \in Threads : cast'[u] = NoCast => left'[u] = {}
               /\ due' \in [Agents -> 0..100]
               /\ crossed' \subseteq Agents
    <3>1. ToAll(r) \in Commands /\ "threshold" \in Threads
      BY RatesAreLegal DEF Threads
    <3>2. QED
      BY <2>1, <3>1, StartCastType
  <2>2. CASE Reduce
    BY <2>1, <2>2 DEF Reduce
  <2>3. CASE Restore
    BY <2>1, <2>3 DEF Restore
  <2>4. QED
    BY <1>1, <2>2, <2>3
<1>2. CASE ModeChanges
  BY <1>2 DEF ModeChanges, Threads
<1>3. CASE ApiReturns
  BY <1>3 DEF ApiReturns, Threads
<1>4. ASSUME NEW apps \in ApiTargets, NEW r \in ApiRates, BroadcastToApps(apps, r)
      PROVE  TypeOK'
  <2> DEFINE cmd == [targets |-> apps, rate |-> r]
  <2>1. cmd \in Commands /\ cast["api"] = NoCast /\ StartCast("api", cmd)
    BY <1>4 DEF BroadcastToApps, Commands
  <2>2. "api" \in Threads /\ "threshold" # "api"
    BY DEF Threads
  <2>3. /\ cast' \in [Threads -> Commands \union {NoCast}]
        /\ left' \in [Threads -> SUBSET Agents]
        /\ \A u \in Threads : cast'[u] = NoCast => left'[u] = {}
        /\ due' \in [Agents -> 0..100]
        /\ crossed' \subseteq Agents
    BY <2>1, <2>2, StartCastType
  <2>4. cast'["threshold"] = cast["threshold"]
    BY <2>1, <2>2 DEF StartCast, Threads
  <2>5. appRates' \in [Apps -> 0..100]
    BY <1>4 DEF BroadcastToApps, ValidRate
  <2>6. QED
    BY <1>4, <2>3, <2>4, <2>5 DEF BroadcastToApps
<1>5. ASSUME NEW t \in Threads, NEW a \in Agents, WriteCommand(t, a)
      PROVE  TypeOK'
  <2>1. cast[t] \in Commands
    BY <1>5 DEF WriteCommand
  <2>2. wire' \in [Agents -> Seq(Commands)]
    BY <1>5, <2>1 DEF WriteCommand
  <2>3. \A b \in Agents : link'[b] # "open" => wire'[b] = <<>>
    BY <1>5 DEF WriteCommand
  <2>4. left' \in [Threads -> SUBSET Agents]
    BY <1>5 DEF WriteCommand
  <2>5. \A u \in Threads : cast'[u] = NoCast => left'[u] = {}
    BY <1>5 DEF WriteCommand
  <2>6. QED
    BY <1>5, <2>2, <2>3, <2>4, <2>5 DEF WriteCommand
<1>6. QED
  BY <1>1, <1>2, <1>3, <1>4, <1>5 DEF ThresholdStep

\* So does what happens to the connections, the agents and the load.
LEMMA AgentType ==
    ASSUME TypeOK,
           \/ \E a \in Agents :
                 \/ Connect(a) \/ ChannelActive(a) \/ Disconnect(a)
                 \/ ChannelInactive(a) \/ Execute(a)
           \/ RestartServer
           \/ LoadChanges
           \/ UNCHANGED vars
    PROVE  TypeOK'
<1> USE SamplingAssumption DEF TypeOK, loadVars, serverVars, agentVars
<1>1. ASSUME NEW a \in Agents, Connect(a)
      PROVE  TypeOK'
  BY <1>1 DEF Connect
<1>2. ASSUME NEW a \in Agents, ChannelActive(a)
      PROVE  TypeOK'
  <2>1. left' \in [Threads -> SUBSET Agents]
    BY <1>2 DEF ChannelActive
  <2>2. \A t \in Threads : cast[t] = NoCast => left'[t] = {}
    BY <1>2 DEF ChannelActive
  <2>3. crossed' \subseteq Agents
    BY <1>2 DEF ChannelActive
  <2>4. QED
    BY <1>2, <2>1, <2>2, <2>3 DEF ChannelActive
<1>3. ASSUME NEW a \in Agents, Disconnect(a) \/ ChannelInactive(a)
      PROVE  TypeOK'
  <2>1. CASE Disconnect(a)
    <3>1. wire' \in [Agents -> Seq(Commands)]
      BY <2>1 DEF Disconnect
    <3>2. \A b \in Agents : link'[b] # "open" => wire'[b] = <<>>
      BY <2>1 DEF Disconnect
    <3>3. QED
      BY <2>1, <3>1, <3>2 DEF Disconnect
  <2>2. CASE ChannelInactive(a)
    BY <2>2 DEF ChannelInactive
  <2>3. QED
    BY <1>3, <2>1, <2>2
<1>4. ASSUME NEW a \in Agents, Execute(a)
      PROVE  TypeOK'
  <2>1. wire' \in [Agents -> Seq(Commands)]
    BY <1>4 DEF Execute
  <2>2. \A b \in Agents : link'[b] # "open" => wire'[b] = <<>>
    BY <1>4 DEF Execute
  <2>3. rate' \in [Agents -> 0..100] /\ unanswered' \subseteq Agents
    BY <1>4 DEF Execute, ValidRate
  <2>4. QED
    BY <1>4, <2>1, <2>2, <2>3 DEF Execute
<1>5. CASE RestartServer
  <2>1. wire' \in [Agents -> Seq(Commands)]
    BY <1>5 DEF RestartServer
  <2>2. /\ cast' \in [Threads -> Commands \union {NoCast}]
        /\ left' \in [Threads -> SUBSET Agents]
        /\ \A t \in Threads : cast'[t] = NoCast => left'[t] = {}
        /\ cast'["threshold"] = NoCast
    BY <1>5 DEF RestartServer, Threads
  <2>3. appRates' \in [Apps -> 0..100]
    BY <1>5 DEF RestartServer, FullRate
  <2>4. /\ link' \in [Agents -> {"none", "open", "closed"}]
        /\ joined' \in [Agents -> {"none", "member", "left"}]
        /\ \A a \in Agents : link'[a] = "none" => joined'[a] = "none"
        /\ \A a \in Agents : joined'[a] = "left" => link'[a] = "closed"
        /\ \A a \in Agents : wire'[a] = <<>>
    BY <1>5 DEF RestartServer
  <2>5. /\ threshold' = "waiting" /\ reducedMode' = FALSE
        /\ restarts' \in 0..MaxRestarts
        /\ UNCHANGED <<overloaded, loadChanges, rate, unanswered, due, crossed,
                       apiCalls>>
    BY <1>5 DEF RestartServer
  <2>6. QED
    BY <2>1, <2>2, <2>3, <2>4, <2>5
<1>6. CASE LoadChanges
  BY <1>6 DEF LoadChanges
<1>7. CASE UNCHANGED vars
  BY <1>7 DEF vars
<1>8. QED
  BY <1>1, <1>2, <1>3, <1>4, <1>5, <1>6, <1>7

\* The types of the feedback loop, at every moment: a thread that is not
\* broadcasting has no channel left to write to, and nothing is on its way along a
\* connection that is not open.
THEOREM TypeCorrect == Spec => []TypeOK
<1>1. Init => TypeOK
  <2> SUFFICES ASSUME Init
               PROVE  TypeOK
    OBVIOUS
  <2> USE SamplingAssumption DEF Init
  <2>1. wire \in [Agents -> Seq(Commands)]
    OBVIOUS
  <2>2. /\ cast \in [Threads -> Commands \union {NoCast}]
        /\ left \in [Threads -> SUBSET Agents]
        /\ cast["threshold"] = NoCast
    BY DEF Threads
  <2>3. /\ appRates \in [Apps -> 0..100]
        /\ rate \in [Agents -> 0..100]
        /\ due \in [Agents -> 0..100]
    BY DEF FullRate
  <2>4. /\ link \in [Agents -> {"none", "open", "closed"}]
        /\ joined \in [Agents -> {"none", "member", "left"}]
        /\ \A a \in Agents : joined[a] = "none" /\ wire[a] = <<>>
    OBVIOUS
  <2>5. \A t \in Threads : left[t] = {}
    OBVIOUS
  <2>6. /\ overloaded \in BOOLEAN /\ threshold = "waiting" /\ reducedMode = FALSE
        /\ unanswered = {} /\ crossed = {}
        /\ apiCalls = 0 /\ loadChanges = 0 /\ restarts = 0
    OBVIOUS
  <2> HIDE DEF Init
  <2>7. /\ threshold = "waiting" <=> cast["threshold"] = NoCast
        /\ \A t \in Threads : cast[t] = NoCast => left[t] = {}
        /\ \A a \in Agents : link[a] = "none" => joined[a] = "none"
        /\ \A a \in Agents : link[a] # "open" => wire[a] = <<>>
        /\ \A a \in Agents : joined[a] = "left" => link[a] = "closed"
    BY <2>2, <2>4, <2>5, <2>6
  <2>8. /\ apiCalls \in 0..MaxApiCalls
        /\ loadChanges \in 0..MaxLoadChanges
        /\ restarts \in 0..MaxRestarts
    BY <2>6
  <2>9. QED
    BY <2>1, <2>2, <2>3, <2>4, <2>6, <2>7, <2>8 DEF TypeOK
<1>2. TypeOK /\ [Next]_vars => TypeOK'
  BY ServerType, AgentType DEF Next
<1>3. QED
  BY <1>1, <1>2, PTL DEF Spec
-------------------------------------------------------------------------------
(* What the commands on their way to an agent leave it at                  *)

\* The commands that change an agent's rate when it executes them.
Changes(cmd, a) == Applies(cmd, a) /\ ValidRate(cmd.rate)

\* An agent whose rate is `old` samples at r once it has executed all of q: r is
\* the rate of the last command of q that changes it, or `old` if there is none.
Settles(a, q, old, r) ==
    \/ old = r /\ \A i \in DOMAIN q : ~Changes(q[i], a)
    \/ \E i \in DOMAIN q :
          /\ Changes(q[i], a)
          /\ q[i].rate = r
          /\ \A j \in DOMAIN q : i < j => ~Changes(q[j], a)

\* With nothing on its way an agent stays where it is.
LEMMA SettledWhenEmpty ==
    ASSUME NEW a, NEW old, NEW r
    PROVE  Settles(a, <<>>, old, r) <=> old = r
BY DEF Settles

\* A command written last decides, if it changes the agent's rate at all.
LEMMA SettlesAfterAppend ==
    ASSUME NEW a, NEW q \in Seq(Commands), NEW cmd \in Commands, NEW old, NEW r
    PROVE  /\ Changes(cmd, a) => Settles(a, Append(q, cmd), old, cmd.rate)
           /\ ~Changes(cmd, a) /\ Settles(a, q, old, r) =>
                 Settles(a, Append(q, cmd), old, r)
<1> DEFINE p == Append(q, cmd)
<1>1. /\ Len(q) \in Nat
      /\ DOMAIN q = 1..Len(q)
      /\ DOMAIN p = 1..Len(q) + 1
      /\ p[Len(q) + 1] = cmd
      /\ \A i \in 1..Len(q) : p[i] = q[i]
  OBVIOUS
<1>2. ASSUME Changes(cmd, a)
      PROVE  Settles(a, p, old, cmd.rate)
  <2>1. Len(q) + 1 \in DOMAIN p /\ \A j \in DOMAIN p : ~(Len(q) + 1 < j)
    BY <1>1
  <2>2. QED
    BY <1>1, <1>2, <2>1 DEF Settles
<1>3. ASSUME ~Changes(cmd, a), Settles(a, q, old, r)
      PROVE  Settles(a, p, old, r)
  <2>1. \A j \in DOMAIN p : j \in DOMAIN q \/ p[j] = cmd
    BY <1>1
  <2>2. CASE old = r /\ \A i \in DOMAIN q : ~Changes(q[i], a)
    BY <1>1, <1>3, <2>1, <2>2 DEF Settles
  <2>3. ASSUME NEW i \in DOMAIN q, Changes(q[i], a), q[i].rate = r,
               \A j \in DOMAIN q : i < j => ~Changes(q[j], a)
        PROVE  Settles(a, p, old, r)
    <3>1. i \in DOMAIN p /\ p[i] = q[i]
      BY <1>1
    <3>2. \A j \in DOMAIN p : i < j => ~Changes(p[j], a)
      BY <1>1, <1>3, <2>1, <2>3
    <3>3. QED
      BY <2>3, <3>1, <3>2 DEF Settles
  <2>4. QED
    BY <1>3, <2>2, <2>3 DEF Settles
<1>4. QED
  BY <1>2, <1>3

\* Executing the first command leads to the same rate in the end.
LEMMA SettlesAfterTail ==
    ASSUME NEW a, NEW q \in Seq(Commands), q # <<>>, NEW old, NEW r,
           Settles(a, q, old, r)
    PROVE  Settles(a, Tail(q), IF Changes(Head(q), a) THEN Head(q).rate ELSE old, r)
<1> DEFINE p == Tail(q)
           now == IF Changes(q[1], a) THEN q[1].rate ELSE old
<1>1. /\ Len(q) \in Nat \ {0}
      /\ DOMAIN q = 1..Len(q)
      /\ DOMAIN p = 1..Len(q) - 1
      /\ Head(q) = q[1]
      /\ \A i \in 1..Len(q) - 1 : p[i] = q[i + 1]
  OBVIOUS
<1>2. ASSUME NEW i \in DOMAIN p
      PROVE  i + 1 \in DOMAIN q /\ p[i] = q[i + 1] /\ i < i + 1 /\ 1 < i + 1
  BY <1>1
<1>3. CASE old = r /\ \A i \in DOMAIN q : ~Changes(q[i], a)
  <2>1. now = r /\ \A i \in DOMAIN p : ~Changes(p[i], a)
    BY <1>1, <1>2, <1>3
  <2>2. QED
    BY <1>1, <2>1 DEF Settles
<1>4. ASSUME NEW i \in DOMAIN q, Changes(q[i], a), q[i].rate = r,
             \A j \in DOMAIN q : i < j => ~Changes(q[j], a)
      PROVE  Settles(a, p, now, r)
  <2>1. CASE i = 1
    <3>1. now = r /\ \A j \in DOMAIN p : ~Changes(p[j], a)
      BY <1>2, <1>4, <2>1
    <3>2. QED
      BY <3>1 DEF Settles
  <2>2. CASE i # 1
    <3>1. /\ i - 1 \in DOMAIN p
          /\ p[i - 1] = q[i]
      BY <1>1, <2>2
    <3>2. \A j \in DOMAIN p : i - 1 < j => ~Changes(p[j], a)
      BY <1>1, <1>2, <1>4
    <3>3. QED
      BY <1>4, <3>1, <3>2 DEF Settles
  <2>3. QED
    BY <2>1, <2>2
<1>5. QED
  BY <1>1, <1>3, <1>4 DEF Settles
-------------------------------------------------------------------------------
(* Agents follow the last command                                          *)

\* Before its channel joins the group an agent has been told nothing.
Untold(a) ==
    /\ rate[a] = FullRate
    /\ due[a] = FullRate
    /\ wire[a] = <<>>
    /\ \A t \in Threads : a \notin left[t]

\* An agent that commands still reach.
Reached(a) == joined[a] = "member" /\ link[a] = "open"

\* Only one thread is yet to write to the agent. Its command, if it changes the
\* agent's rate, is the last one meant for it; otherwise that one is on its way or
\* has been executed.
InStep(a) ==
    /\ \A t, u \in Threads : a \in left[t] /\ a \in left[u] => t = u
    /\ \A t \in Threads :
          a \in left[t] /\ Changes(cast[t], a) => cast[t].rate = due[a]
    /\ (\A t \in Threads : a \in left[t] => ~Changes(cast[t], a)) =>
          Settles(a, wire[a], rate[a], due[a])

\* FollowsLastCommand, extended to the agents that have not caught up.
FollowsInv ==
    \A a \in Agents :
        /\ joined[a] = "none" => Untold(a)
        /\ Reached(a) /\ a \notin crossed => InStep(a)

\* A broadcast that begins makes its command the last one meant for every channel
\* no other broadcast is yet to write to; the others it marks as crossed.
LEMMA StartCastFollows ==
    ASSUME TypeOK, FollowsInv, NEW t \in Threads, NEW cmd \in Commands,
           cast[t] = NoCast, StartCast(t, cmd), UNCHANGED <<link, joined, wire, rate>>
    PROVE  FollowsInv'
<1> USE DEF TypeOK, StartCast
<1>1. left[t] = {} /\ cast'[t] = cmd /\ left'[t] = Channels
  OBVIOUS
<1>2. \A u \in Threads : u # t => cast'[u] = cast[u] /\ left'[u] = left[u]
  OBVIOUS
<1>3. ASSUME NEW a \in Agents, joined[a] = "none"
      PROVE  Untold(a)'
  <2>1. Untold(a) /\ a \notin Channels
    BY <1>3 DEF FollowsInv, Channels
  <2>2. QED
    BY <1>1, <1>2, <2>1 DEF Untold
<1>4. ASSUME NEW a \in Agents, Reached(a), a \notin crossed'
      PROVE  InStep(a)'
  <2>1. a \notin crossed /\ \A u \in Threads : a \notin left[u]
    BY <1>4
  <2>2. Settles(a, wire[a], rate[a], due[a])
    BY <1>4, <2>1 DEF FollowsInv, InStep
  <2>3. a \in Channels
    BY <1>4 DEF Reached, Channels
  <2>4. \A u \in Threads : a \in left'[u] <=> u = t
    BY <1>1, <1>2, <2>1, <2>3
  <2>5. due'[a] = IF Changes(cmd, a) THEN cmd.rate ELSE due[a]
    BY <2>3 DEF Changes
  <2>6. Settles(a, wire'[a], rate'[a], due[a])
    BY <2>2
  <2>7. QED
    BY <1>1, <2>4, <2>5, <2>6 DEF InStep
<1>5. QED
  BY <1>3, <1>4 DEF FollowsInv, Reached

\* Writing a pending command moves it from the thread's hands to the wire.
LEMMA WriteCommandFollows ==
    ASSUME TypeOK, FollowsInv, NEW t \in Threads, NEW b \in Agents,
           WriteCommand(t, b)
    PROVE  FollowsInv'
<1> USE DEF TypeOK, WriteCommand, agentVars
<1>1. cast[t] \in Commands /\ b \in left[t]
  OBVIOUS
<1>2. joined[b] # "none"
  BY DEF FollowsInv, Untold
<1>3. ASSUME NEW a \in Agents, a # b
      PROVE  wire'[a] = wire[a] /\ \A u \in Threads : a \in left'[u] <=> a \in left[u]
  BY <1>3
<1>4. \A u \in Threads : b \in left'[u] <=> b \in left[u] /\ u # t
  OBVIOUS
<1>5. ASSUME NEW a \in Agents, joined[a] = "none"
      PROVE  Untold(a)'
  <2>1. Untold(a) /\ a # b
    BY <1>2, <1>5 DEF FollowsInv
  <2>2. QED
    BY <1>3, <2>1 DEF Untold
<1>6. ASSUME NEW a \in Agents, Reached(a), a \notin crossed, a # b
      PROVE  InStep(a)'
  <2>1. InStep(a)
    BY <1>6 DEF FollowsInv
  <2>2. /\ wire'[a] = wire[a] /\ rate'[a] = rate[a] /\ due'[a] = due[a]
        /\ \A u \in Threads : cast'[u] = cast[u] /\ (a \in left'[u] <=> a \in left[u])
    BY <1>3, <1>6
  <2>3. QED
    BY <2>1, <2>2 DEF InStep
<1>7. ASSUME Reached(b), b \notin crossed
      PROVE  InStep(b)'
  <2>1. InStep(b)
    BY <1>7 DEF FollowsInv
  <2>2. \A u \in Threads : b \notin left'[u]
    BY <1>1, <1>4, <2>1 DEF InStep
  <2>3. wire'[b] = Append(wire[b], cast[t]) /\ wire[b] \in Seq(Commands)
    BY <1>7, CommandsAreEncoded DEF Reached
  <2>4. CASE Changes(cast[t], b)
    <3>1. cast[t].rate = due[b]
      BY <1>1, <2>1, <2>4 DEF InStep
    <3>2. Settles(b, wire'[b], rate[b], due[b])
      BY <1>1, <2>3, <2>4, <3>1, SettlesAfterAppend
    <3>3. QED
      BY <2>2, <3>2 DEF InStep
  <2>5. CASE ~Changes(cast[t], b)
    <3>1. \A u \in Threads : b \in left[u] => ~Changes(cast[u], b)
      BY <1>1, <2>1, <2>5 DEF InStep
    <3>2. Settles(b, wire[b], rate[b], due[b])
      BY <2>1, <3>1 DEF InStep
    <3>3. Settles(b, wire'[b], rate[b], due[b])
      BY <1>1, <2>3, <2>5, <3>2, SettlesAfterAppend
    <3>4. QED
      BY <2>2, <3>3 DEF InStep
  <2>6. QED
    BY <2>4, <2>5
<1>8. QED
  BY <1>5, <1>6, <1>7 DEF FollowsInv, Reached

\* A thread whose broadcast is over changes nothing for the agents.
LEMMA CastEndsFollows ==
    ASSUME TypeOK, FollowsInv, ModeChanges \/ ApiReturns
    PROVE  FollowsInv'
<1>1. PICK t \in Threads : left[t] = {} /\ \A u \in Threads : u # t => cast'[u] = cast[u]
  BY DEF TypeOK, ModeChanges, ApiReturns, Threads
<1>2. UNCHANGED <<left, link, joined, wire, rate, due, crossed>>
  BY DEF ModeChanges, ApiReturns, agentVars
<1>3. ASSUME NEW a \in Agents
      PROVE  \A u \in Threads : a \in left[u] => cast'[u] = cast[u]
  BY <1>1
<1>4. ASSUME NEW a \in Agents, InStep(a)
      PROVE  InStep(a)'
  BY <1>2, <1>3, <1>4 DEF InStep
<1>5. QED
  BY <1>2, <1>4 DEF FollowsInv, Reached, Untold

\* An agent joins in step with what it was meant to be told, which is nothing, or
\* while a broadcast that may still meet it is under way.
LEMMA JoinFollows ==
    ASSUME TypeOK, FollowsInv, NEW b \in Agents, Connect(b) \/ ChannelActive(b)
    PROVE  FollowsInv'
<1> USE DEF TypeOK, serverVars, agentVars
<1>1. CASE Connect(b)
  <2>1. UNCHANGED <<left, cast, joined, wire, rate, due, crossed>> /\ joined[b] = "none"
    BY <1>1 DEF Connect
  <2>2. ASSUME NEW a \in Agents, Reached(a)'
        PROVE  Reached(a)
    BY <1>1, <2>1, <2>2 DEF Connect, Reached
  <2>3. QED
    BY <2>1, <2>2 DEF FollowsInv, Untold, InStep
<1>2. CASE ChannelActive(b)
  <2>1. /\ UNCHANGED <<cast, link, wire, rate, due>>
        /\ joined[b] = "none" /\ joined' = [joined EXCEPT ![b] = "member"]
        /\ crossed \subseteq crossed'
    BY <1>2 DEF ChannelActive
  <2>2. \A a \in Agents \ {b}, t \in Threads : a \in left'[t] <=> a \in left[t]
    BY <1>2 DEF ChannelActive
  <2>3. ASSUME NEW a \in Agents, a # b
        PROVE  /\ joined'[a] = joined[a]
               /\ Untold(a) => Untold(a)'
               /\ InStep(a) => InStep(a)'
    BY <2>1, <2>2, <2>3 DEF Untold, InStep
  <2>4. ASSUME b \notin crossed'
        PROVE  InStep(b)'
    <3>1. Untold(b) /\ \A t \in Threads : cast[t] = NoCast
      BY <1>2, <2>1, <2>4 DEF FollowsInv, ChannelActive
    <3>2. \A t \in Threads : b \notin left'[t]
      BY <1>2, <3>1 DEF ChannelActive, Untold
    <3>3. Settles(b, wire'[b], rate'[b], due'[b])
      BY <2>1, <3>1, SettledWhenEmpty DEF Untold
    <3>4. QED
      BY <3>2, <3>3 DEF InStep
  <2>5. QED
    BY <2>1, <2>3, <2>4 DEF FollowsInv, Reached
<1>3. QED
  BY <1>1, <1>2

\* A connection that breaks takes its agent out of reach, for good.
LEMMA LeaveFollows ==
    ASSUME TypeOK, FollowsInv,
           \/ \E b \in Agents : Disconnect(b) \/ ChannelInactive(b)
           \/ RestartServer
    PROVE  FollowsInv'
<1> USE DEF TypeOK, serverVars, agentVars
<1>1. ASSUME NEW a \in Agents
      PROVE  /\ rate'[a] = rate[a] /\ due'[a] = due[a]
             /\ wire[a] = <<>> => wire'[a] = <<>>
             /\ \A t \in Threads : a \in left'[t] => a \in left[t]
             /\ joined'[a] = "none" => joined[a] = "none"
  BY DEF Disconnect, ChannelInactive, RestartServer
<1>2. ASSUME NEW a \in Agents, joined'[a] = "none"
      PROVE  Untold(a)'
  BY <1>1, <1>2 DEF FollowsInv, Untold
<1>3. ASSUME NEW b \in Agents, Disconnect(b) \/ ChannelInactive(b),
             NEW a \in Agents, Reached(a)', a \notin crossed'
      PROVE  InStep(a)'
  <2>1. /\ UNCHANGED <<cast, left, rate, due, crossed>>
        /\ wire'[a] = wire[a] /\ Reached(a)
    BY <1>3 DEF Disconnect, ChannelInactive, Reached
  <2>2. InStep(a)
    BY <1>3, <2>1 DEF FollowsInv
  <2>3. QED
    BY <2>1, <2>2 DEF InStep
<1>4. ASSUME RestartServer, NEW a \in Agents
      PROVE  ~Reached(a)'
  BY <1>4 DEF RestartServer, Reached
<1>5. QED
  BY <1>2, <1>3, <1>4 DEF FollowsInv

\* An agent executes the commands in the order they were written.
LEMMA ExecuteFollows ==
    ASSUME TypeOK, FollowsInv, NEW b \in Agents, Execute(b)
    PROVE  FollowsInv'
<1> USE DEF TypeOK, Execute, serverVars
<1>1. UNCHANGED <<cast, left, link, joined, due, crossed>>
  OBVIOUS
<1>2. ASSUME NEW a \in Agents, a # b
      PROVE  wire'[a] = wire[a] /\ rate'[a] = rate[a]
  BY <1>2 DEF agentVars
<1>3. wire[b] # <<>> /\ wire[b] \in Seq(Commands) /\ wire'[b] = Tail(wire[b])
  OBVIOUS
<1>4. rate'[b] = IF Changes(Head(wire[b]), b) THEN Head(wire[b]).rate ELSE rate[b]
  BY DEF Changes, agentVars
<1>5. ASSUME NEW r, Settles(b, wire[b], rate[b], r)
      PROVE  Settles(b, wire'[b], rate'[b], r)
  BY <1>3, <1>4, <1>5, SettlesAfterTail
<1>6. joined[b] # "none"
  BY <1>3 DEF FollowsInv, Untold
<1>7. ASSUME NEW a \in Agents
      PROVE  /\ Untold(a) => a = b \/ Untold(a)'
             /\ InStep(a) => InStep(a)'
  <2>1. CASE a # b
    BY <1>1, <1>2, <2>1 DEF Untold, InStep
  <2>2. CASE a = b
    BY <1>1, <1>5, <2>2 DEF InStep
  <2>3. QED
    BY <2>1, <2>2
<1>8. QED
  BY <1>1, <1>6, <1>7 DEF FollowsInv, Reached

\* FollowsInv is inductive.
LEMMA NextFollows ==
    ASSUME TypeOK, FollowsInv, [Next]_vars
    PROVE  FollowsInv'
<1>1. CASE Reduce \/ Restore
  <2>1. PICK r \in {FullRate, ReducedRate} : StartCast("threshold", ToAll(r))
    BY <1>1 DEF Reduce, Restore
  <2>2. "threshold" \in Threads /\ ToAll(r) \in Commands
    BY RatesAreLegal DEF Threads
  <2>3. cast["threshold"] = NoCast /\ UNCHANGED <<link, joined, wire, rate>>
    BY <1>1 DEF Reduce, Restore, TypeOK, agentVars
  <2>4. QED
    BY <2>1, <2>2, <2>3, StartCastFollows
<1>2. ASSUME NEW apps \in ApiTargets, NEW r \in ApiRates, BroadcastToApps(apps, r)
      PROVE  FollowsInv'
  <2>1. [targets |-> apps, rate |-> r] \in Commands /\ "api" \in Threads
    BY SamplingAssumption DEF Commands, Threads
  <2>2. /\ cast["api"] = NoCast /\ UNCHANGED <<link, joined, wire, rate>>
        /\ StartCast("api", [targets |-> apps, rate |-> r])
    BY <1>2 DEF BroadcastToApps, agentVars
  <2>3. QED
    BY <2>1, <2>2, StartCastFollows
<1>3. ASSUME LoadChanges \/ UNCHANGED vars
      PROVE  FollowsInv'
  <2>1. UNCHANGED <<cast, left, link, joined, wire, rate, due, crossed>>
    BY <1>3 DEF LoadChanges, vars, serverVars, agentVars
  <2>2. QED
    BY <2>1 DEF FollowsInv, Untold, Reached, InStep
<1>4. QED
  BY <1>1, <1>2, <1>3, WriteCommandFollows, CastEndsFollows, JoinFollows,
     LeaveFollows, ExecuteFollows
     DEF Next, ThresholdStep

\* Whatever broadcasts, connections and restarts happen, a connected agent that has
\* caught up samples at the rate of the last legal command meant for its
\* application, unless two broadcasts raced for it.
THEOREM AgentsFollow == Spec => []FollowsLastCommand
<1>1. Init => FollowsInv
  BY DEF Init, FollowsInv, Untold, Reached
<1>2. TypeOK /\ FollowsInv /\ [Next]_vars => FollowsInv'
  BY NextFollows
<1>3. FollowsInv => FollowsLastCommand
  <2>1. ASSUME FollowsInv, NEW a \in Agents, UpToDate(a), a \notin crossed
        PROVE  rate[a] = due[a]
    <3>1. Settles(a, <<>>, rate[a], due[a])
      BY <2>1 DEF FollowsInv, UpToDate, Reached, InStep
    <3>2. QED
      BY <3>1, SettledWhenEmpty
  <2>2. QED
    BY <2>1 DEF FollowsLastCommand
<1>4. QED
  BY <1>1, <1>2, <1>3, TypeCorrect, PTL DEF Spec
-------------------------------------------------------------------------------
(* No agent stays reduced                                                  *)

\* What the threshold thread is broadcasting, as long as nobody called broadcastToApps.
LoopAlone ==
    /\ cast["api"] = NoCast
    /\ threshold = "reducing" => cast["threshold"] = ToAll(ReducedRate)
    /\ threshold = "restoring" => cast["threshold"] = ToAll(FullRate)

\* What is on its way to an agent leaves it at the full rate.
BackToFull(a) == Settles(a, wire[a], rate[a], FullRate)

\* This is so in normal mode, and while the mode is being restored once the
\* command has been written.
RestoredInv ==
    \A a \in Agents :
        /\ joined[a] = "none" => Untold(a)
        /\ Reached(a) =>
              /\ threshold = "waiting" /\ ~reducedMode => BackToFull(a)
              /\ threshold = "restoring" /\ a \notin left["threshold"] => BackToFull(a)

\* The threads of the loop keep this.
LEMMA LoopRestores ==
    ASSUME TypeOK, LoopAlone, RestoredInv, ThresholdStep
    PROVE  LoopAlone' /\ RestoredInv'
<1> USE DEF TypeOK, Threads
<1>1. UNCHANGED <<link, joined, wire, rate>>
  BY DEF ThresholdStep, Reduce, Restore, ModeChanges, agentVars
<1>2. \A a \in Agents : BackToFull(a) => BackToFull(a)'
  BY <1>1 DEF BackToFull
<1>3. CASE Reduce \/ Restore
  <2>1. /\ threshold' \in {"reducing", "restoring"}
        /\ cast' = [cast EXCEPT !["threshold"] =
                       ToAll(IF threshold' = "reducing" THEN ReducedRate ELSE FullRate)]
        /\ left' = [left EXCEPT !["threshold"] = Channels]
        /\ \A a \in Agents : a \notin Channels => due'[a] = due[a]
    BY <1>3 DEF Reduce, Restore, StartCast
  <2>2. LoopAlone'
    BY <2>1 DEF LoopAlone
  <2>3. ASSUME NEW a \in Agents, joined[a] = "none"
        PROVE  Untold(a)'
    <3>1. Untold(a) /\ a \notin Channels
      BY <2>3 DEF RestoredInv, Channels
    <3>2. QED
      BY <1>1, <2>1, <3>1 DEF Untold
  <2>4. ASSUME NEW a \in Agents, Reached(a)'
        PROVE  a \in left'["threshold"]
    BY <1>1, <2>1, <2>4 DEF Reached, Channels
  <2>5. QED
    BY <1>1, <2>1, <2>2, <2>3, <2>4 DEF RestoredInv
<1>4. CASE ModeChanges
  <2>1. /\ threshold # "waiting" /\ threshold' = "waiting"
        /\ reducedMode' = (threshold = "reducing")
        /\ left["threshold"] = {}
        /\ cast' = [cast EXCEPT !["threshold"] = NoCast]
        /\ UNCHANGED <<left, due>>
    BY <1>4 DEF ModeChanges
  <2>2. LoopAlone'
    BY <2>1 DEF LoopAlone
  <2>3. ASSUME NEW a \in Agents, Reached(a), ~reducedMode'
        PROVE  BackToFull(a)
    BY <2>1, <2>3 DEF RestoredInv
  <2>4. QED
    BY <1>1, <1>2, <2>1, <2>2, <2>3 DEF RestoredInv, Untold, Reached
<1>5. QED
  BY <1>3, <1>4 DEF ThresholdStep

\* So does a write: a command that restores leaves its agent at the full rate, and
\* one that reduces is written only while the mode is being reduced.
LEMMA WriteRestores ==
    ASSUME TypeOK, LoopAlone, RestoredInv,
           NEW t \in Threads, NEW b \in Agents, WriteCommand(t, b)
    PROVE  LoopAlone' /\ RestoredInv'
<1> USE DEF TypeOK, WriteCommand, agentVars
<1>1. /\ UNCHANGED <<threshold, reducedMode, cast, link, joined, rate, due>>
      /\ b \in left[t]
  OBVIOUS
<1>2. t = "threshold" /\ threshold # "waiting"
  BY DEF LoopAlone, Threads
<1>3. \A a \in Agents \ {b} :
         wire'[a] = wire[a] /\ \A u \in Threads : a \in left'[u] <=> a \in left[u]
  OBVIOUS
<1>4. joined[b] # "none"
  BY <1>1 DEF RestoredInv, Untold
<1>5. ASSUME NEW a \in Agents, joined[a] = "none"
      PROVE  Untold(a)'
  <2>1. Untold(a) /\ a # b
    BY <1>4, <1>5 DEF RestoredInv
  <2>2. QED
    BY <1>1, <1>3, <2>1 DEF Untold
<1>6. ASSUME NEW a \in Agents, Reached(a), threshold = "restoring",
             a \notin left'["threshold"]
      PROVE  BackToFull(a)'
  <2>1. CASE a # b
    <3>1. BackToFull(a) /\ wire'[a] = wire[a] /\ rate'[a] = rate[a]
      BY <1>1, <1>2, <1>3, <1>6, <2>1 DEF RestoredInv
    <3>2. QED
      BY <3>1 DEF BackToFull
  <2>2. CASE a = b
    <3>1. cast[t] = ToAll(FullRate) /\ cast[t] \in Commands
      BY <1>2, <1>6, RatesAreLegal DEF LoopAlone
    <3>2. Changes(cast[t], b) /\ cast[t].rate = FullRate
      BY <3>1, RatesAreLegal DEF Changes, Applies, ToAll
    <3>3. wire'[b] = Append(wire[b], cast[t]) /\ wire[b] \in Seq(Commands)
      BY <1>6, <2>2, CommandsAreEncoded DEF Reached
    <3>4. Settles(b, wire'[b], rate'[b], FullRate)
      BY <3>1, <3>2, <3>3, SettlesAfterAppend
    <3>5. QED
      BY <2>2, <3>4 DEF BackToFull
  <2>3. QED
    BY <2>1, <2>2
<1>7. LoopAlone'
  BY <1>1 DEF LoopAlone
<1>8. QED
  BY <1>1, <1>2, <1>5, <1>6, <1>7 DEF RestoredInv, Reached

\* And what happens to the connections and in the agents.
LEMMA AgentRestores ==
    ASSUME TypeOK, LoopAlone, RestoredInv, NEW b \in Agents,
           \/ Connect(b) \/ ChannelActive(b) \/ Disconnect(b) \/ ChannelInactive(b)
           \/ Execute(b)
    PROVE  LoopAlone' /\ RestoredInv'
<1> USE DEF TypeOK, serverVars
<1>1. UNCHANGED <<threshold, reducedMode, cast, due>>
  BY DEF Connect, ChannelActive, Disconnect, ChannelInactive, Execute
<1>2. \A a \in Agents \ {b} :
         /\ link'[a] = link[a] /\ joined'[a] = joined[a]
         /\ wire'[a] = wire[a] /\ rate'[a] = rate[a]
         /\ \A t \in Threads : a \in left'[t] <=> a \in left[t]
  BY DEF Connect, ChannelActive, Disconnect, ChannelInactive, Execute, agentVars
<1>3. ASSUME NEW a \in Agents \ {b}
      PROVE  /\ Untold(a) => Untold(a)'
             /\ BackToFull(a) => BackToFull(a)'
             /\ Reached(a)' => Reached(a)
             /\ a \in left["threshold"] => a \in left'["threshold"]
  BY <1>1, <1>2 DEF Untold, BackToFull, Reached, Threads
<1>4. ASSUME joined'[b] = "none"
      PROVE  Untold(b)'
  <2>1. joined[b] = "none" /\ Untold(b)
    BY <1>4 DEF RestoredInv, Connect, ChannelActive, Disconnect, ChannelInactive, Execute
  <2>2. rate'[b] = rate[b] /\ wire'[b] = <<>> /\ UNCHANGED left
    BY <1>4, <2>1
       DEF Untold, Connect, ChannelActive, Disconnect, ChannelInactive, Execute, agentVars
  <2>3. QED
    BY <1>1, <2>1, <2>2 DEF Untold
<1>5. ASSUME Reached(b)', BackToFull(b)
      PROVE  BackToFull(b)'
  <2>1. CASE Execute(b)
    <3>1. wire[b] # <<>> /\ wire[b] \in Seq(Commands) /\ wire'[b] = Tail(wire[b])
      BY <2>1 DEF Execute
    <3>2. rate'[b] = IF Changes(Head(wire[b]), b) THEN Head(wire[b]).rate ELSE rate[b]
      BY <2>1 DEF Execute, Changes, agentVars
    <3>3. Settles(b, wire[b], rate[b], FullRate)
      BY <1>5 DEF BackToFull
    <3>4. Settles(b, Tail(wire[b]),
                  IF Changes(Head(wire[b]), b) THEN Head(wire[b]).rate ELSE rate[b],
                  FullRate)
      BY <3>1, <3>3, SettlesAfterTail
    <3>5. QED
      BY <3>1, <3>2, <3>4 DEF BackToFull
  <2>2. CASE ~Execute(b)
    <3>1. wire'[b] = wire[b] /\ rate'[b] = rate[b]
      BY <1>5, <2>2
         DEF Reached, Connect, ChannelActive, Disconnect, ChannelInactive, agentVars
    <3>2. QED
      BY <1>5, <3>1 DEF BackToFull
  <2>3. QED
    BY <2>1, <2>2
<1>6. ASSUME Reached(b)'
      PROVE  \/ Reached(b) /\ UNCHANGED left
             \/ BackToFull(b)
  <2>1. CASE joined[b] = "none"
    BY <2>1, SettledWhenEmpty DEF RestoredInv, Untold, BackToFull
  <2>2. CASE joined[b] # "none"
    BY <1>6, <2>2
       DEF Reached, Connect, ChannelActive, Disconnect, ChannelInactive, Execute
  <2>3. QED
    BY <2>1, <2>2
<1>7. ASSUME Reached(b)', \/ threshold = "waiting" /\ ~reducedMode
                          \/ threshold = "restoring" /\ b \notin left'["threshold"]
      PROVE  BackToFull(b)'
  BY <1>5, <1>6, <1>7 DEF RestoredInv
<1>8. LoopAlone'
  BY <1>1 DEF LoopAlone
<1>9. ASSUME NEW a \in Agents
      PROVE  /\ joined'[a] = "none" => Untold(a)'
             /\ Reached(a)' =>
                   /\ threshold = "waiting" /\ ~reducedMode => BackToFull(a)'
                   /\ threshold = "restoring" /\ a \notin left'["threshold"] =>
                         BackToFull(a)'
  <2>1. CASE a = b
    BY <1>4, <1>7, <2>1
  <2>2. CASE a # b
    BY <1>2, <1>3, <2>2 DEF RestoredInv
  <2>3. QED
    BY <2>1, <2>2
<1>10. QED
  BY <1>1, <1>8, <1>9 DEF RestoredInv

\* A restart leaves no agent in reach of a command.
LEMMA RestartRestores ==
    ASSUME TypeOK, LoopAlone, RestoredInv, RestartServer
    PROVE  LoopAlone' /\ RestoredInv'
<1>1. LoopAlone'
  BY DEF RestartServer, LoopAlone, Threads
<1>2. ASSUME NEW a \in Agents, joined'[a] = "none"
      PROVE  Untold(a)'
  BY <1>2 DEF TypeOK, RestartServer, RestoredInv, Untold, agentVars
<1>3. \A a \in Agents : ~Reached(a)'
  BY DEF TypeOK, RestartServer, Reached
<1>4. QED
  BY <1>1, <1>2, <1>3 DEF RestoredInv

\* Until somebody calls broadcastToApps, no connected agent that has caught up is at a
\* reduced rate once the mode is normal again, whenever it joined, whenever the load
\* changed, and however often the server was restarted.
THEOREM NoneStaysReduced == Spec => []NoneLeftReduced
<1> DEFINE Inv == apiCalls = 0 => LoopAlone /\ RestoredInv
<1>1. Init => Inv
  BY DEF Init, LoopAlone, RestoredInv, Untold, Reached, Threads
<1>2. TypeOK /\ Inv /\ [Next]_vars => Inv'
  <2> SUFFICES ASSUME TypeOK, Inv, [Next]_vars, apiCalls' = 0
               PROVE  LoopAlone' /\ RestoredInv'
    OBVIOUS
  <2>1. /\ apiCalls = 0
        /\ ~\E apps \in ApiTargets, r \in ApiRates : BroadcastToApps(apps, r)
    <3>1. apiCalls \in Nat
      BY SamplingAssumption DEF TypeOK
    <3>2. apiCalls' \in {apiCalls, apiCalls + 1}
      BY DEF Next, ThresholdStep, Reduce, Restore, ModeChanges, ApiReturns, BroadcastToApps,
             WriteCommand, Connect, ChannelActive, Disconnect, ChannelInactive, Execute,
             RestartServer, LoadChanges, vars
    <3>3. ASSUME NEW apps \in ApiTargets, NEW r \in ApiRates, BroadcastToApps(apps, r)
          PROVE  FALSE
      BY <3>1, <3>3 DEF BroadcastToApps
    <3>4. QED
      BY <3>1, <3>2, <3>3
  <2>2. LoopAlone /\ RestoredInv
    BY <2>1
  <2>3. ~ApiReturns
    BY <2>2 DEF LoopAlone, ApiReturns
  <2>4. CASE LoadChanges \/ UNCHANGED vars
    <3>1. UNCHANGED <<threshold, reducedMode, cast, left, link, joined, wire, rate, due>>
      BY <2>4 DEF LoadChanges, vars, serverVars, agentVars
    <3>2. QED
      BY <2>2, <3>1 DEF LoopAlone, RestoredInv, BackToFull, Untold, Reached
  <2> HIDE DEF Inv
  <2>5. QED
    BY <2>1, <2>2, <2>3, <2>4, LoopRestores, WriteRestores, AgentRestores, RestartRestores
       DEF Next
<1>3. Inv => NoneLeftReduced
  <2>1. ASSUME Inv, apiCalls = 0, NEW a \in Agents, UpToDate(a), ~reducedMode,
               threshold = "waiting"
        PROVE  rate[a] = FullRate
    <3>1. Settles(a, <<>>, rate[a], FullRate)
      BY <2>1 DEF RestoredInv, BackToFull, UpToDate, Reached
    <3>2. QED
      BY <3>1, SettledWhenEmpty
  <2>2. QED
    BY <2>1 DEF NoneLeftReduced
<1>4. QED
  BY <1>1, <1>2, <1>3, TypeCorrect, PTL DEF Spec
===============================================================================
