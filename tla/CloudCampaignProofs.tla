------------------------- MODULE CloudCampaignProofs -------------------------
(***************************************************************************)
(* The inductive invariant of a cloud campaign, for every schedule, every  *)
(* number of pairs and any number of starts of either script; that a       *)
(* schedule measures what the analysis expects, and that what two scripts  *)
(* report of all of it is accepted; and what the final report makes of its *)
(* p-values, for any evidence and any p-values.                            *)
(***************************************************************************)
EXTENDS FinalReport, FiniteSetTheorems, WellFoundedInduction, TLAPS

LEMMA ProductPositive == \A m, n \in Nat \ {0} : m * n \in Nat \ {0}
OBVIOUS

\* There is a first stage.
LEMMA SomeStage == StageCount \in Nat /\ 0 \in StageIndex
<1>1. M \in Nat \ {0} /\ Warmup + Trials \in Nat \ {0} /\ Len(Participants) \in Nat \ {0}
  BY ArgumentsAssumption DEF ValidArguments
<1>2. PairCount \in Nat \ {0}
  BY ArgumentsAssumption DEF ValidArguments, PairCount
<1>3. RoundLength \in Nat \ {0}
  BY <1>1, ProductPositive DEF RoundLength
<1>4. Len(Participants) * PairCount \in Nat \ {0}
  BY <1>1, <1>2, ProductPositive
<1>5. StageCount \in Nat \ {0}
  BY <1>3, <1>4, ProductPositive DEF StageCount
<1> QED
  BY <1>5 DEF StageIndex
-----------------------------------------------------------------------------
StageOf(a) == clients[a].stage
Stored(i, k) == journal[<<i, k>>]

\* The clients of a start, and where its script is: a stage ends when all of
\* its clients are done, and nothing of a start exists before it.
ClientsInv ==
    /\ \A r \in Role : ~ At(r, "down") => starts[r] \in Start
    /\ \A a \in Start : a > starts["client"] => \A k \in PairId : Client(a, k) = "none"
    /\ \A a \in Start, k \in PairId : Client(a, k) # "none" => k \in Pairs(StageOf(a))
    /\ At("client", "between") => \A k \in PairId : Client(starts["client"], k) \in {"none", "done"}
    /\ At("client", "running") => StageOf(starts["client"]) = Stage("client")

\* What a client knows of the record of its execution.
JournalInv ==
    /\ \A a \in Start, k \in PairId :
         /\ Client(a, k) \in {"waiting", "done"} => Stored(StageOf(a), k) = a
         /\ Client(a, k) \in {"sending", "lost", "running"} => Stored(StageOf(a), k) # a
    /\ \A i \in StageIndex, k \in PairId :
         /\ Stored(i, k) <= starts["client"]
         /\ ~ At("client", "down") /\ Stored(i, k) = starts["client"] =>
               i < Stage("client") \/ (At("client", "running") /\ i = Stage("client"))

\* The routes of a gateway, and what the journal knows of them.
RoutesAre(g) ==
    \A k \in PairId :
      /\ g.route[k].state = "free" => g.route[k].client = 0
      /\ g.route[k].state # "free" => k \in Pairs(g.stage)
      /\ g.route[k].state = "stored" => g.route[k].client \in Start /\ Stored(g.stage, k) = g.route[k].client

RoutesInv ==
    /\ RoutesAre(port) /\ RoutesAre(result)
    /\ \A k \in PairId : port.route[k].state = "running" =>
         LET a == port.route[k].client
         IN  a \in Start /\ StageOf(a) = port.stage /\ Client(a, k) \in {"running", "failed"}

\* A start of the server script reads the result of its own stage's gateway.
GatewayInv ==
    /\ port.start <= starts["server"]
    /\ ~ At("server", "running") => result = Unbound
    /\ At("server", "between") => port.start # starts["server"]
    /\ At("server", "running") =>
         /\ port.start = starts["server"] => port.stage = Stage("server")
         /\ result.start = starts["server"] =>
               result.stage = Stage("server") /\ port.start # starts["server"]

\* A row of a report is what the journal holds of its stage.
RowTrue(row) ==
    \A k \in PairId :
        IF k \in Pairs(row.stage) THEN Stored(row.stage, k) # 0 /\ row.arcs[k] = Stored(row.stage, k)
        ELSE row.arcs[k] = 0

ReportsInv ==
    \A r \in Role, a \in Start : \A x \in DOMAIN reports[r][a] : RowTrue(reports[r][a][x])

IInv == TypeOK /\ ClientsInv /\ JournalInv /\ RoutesInv /\ GatewayInv /\ ReportsInv

LEMMA BoundTypes == /\ MaxStarts \in Nat /\ MaxPairs \in Nat /\ 0 \in 0 .. MaxStarts
                    /\ \A i \in StageIndex : Pairs(i) \subseteq PairId
BY BoundsAssumption DEF PairId

LEMMA UnboundType == Unbound \in GatewayType
<1>1. FreeRoute \in [client : 0 .. MaxStarts, state : RouteState]
  BY BoundTypes DEF FreeRoute, RouteState
<1> QED
  BY <1>1, BoundTypes, SomeStage DEF Unbound, Gateway, GatewayType

LEMMA InitInv == Init => IInv
<1> SUFFICES ASSUME Init PROVE IInv
  OBVIOUS
<1>1. /\ \A r \in Role : script[r].at = "down" /\ script[r].stage = 0 /\ starts[r] = 0
      /\ \A a \in Start : StageOf(a) = 0 /\ \A k \in PairId : Client(a, k) = "none"
      /\ \A i \in StageIndex, k \in PairId : Stored(i, k) = 0
  BY DEF Init, NoClients, StageOf, Client, Stored
<1>2. \A r \in Role, a \in Start : reports[r][a] = << >>
  BY DEF Init
<1>3. TypeOK
  <2>1. script \in [Role -> [at : {"down", "between", "running"}, stage : 0 .. StageCount]]
    BY SomeStage DEF Init
  <2>2. NoClients \in [stage : StageIndex, state : [PairId -> ClientState]]
    BY SomeStage DEF NoClients, ClientState
  <2>3. reports \in [Role -> [Start -> Seq(Sample)]]
    BY DEF Init
  <2> QED
    BY <1>1, <2>1, <2>2, <2>3, UnboundType, BoundTypes DEF Init, TypeOK
<1>4. ClientsInv /\ JournalInv /\ GatewayInv
  BY <1>1, BoundTypes DEF Init, ClientsInv, JournalInv, GatewayInv, At, Role, Unbound, Gateway, Start
<1>5. RoutesInv
  BY DEF Init, RoutesInv, RoutesAre, Unbound, Gateway, FreeRoute
<1>6. ReportsInv
  BY <1>2 DEF ReportsInv
<1> QED
  BY <1>3, <1>4, <1>5, <1>6 DEF IInv

-----------------------------------------------------------------------------
\* What one client's or one route's step leaves of the others.
LEMMA BecomesFacts ==
    ASSUME TypeOK, NEW a \in Start, NEW k \in PairId, NEW state \in ClientState, Becomes(a, k, state)
    PROVE  /\ clients' \in [Start -> [stage : StageIndex, state : [PairId -> ClientState]]]
           /\ \A b \in Start : StageOf(b)' = StageOf(b)
           /\ \A b \in Start, j \in PairId :
                Client(b, j)' = IF b = a /\ j = k THEN state ELSE Client(b, j)
<1>1. /\ clients \in [Start -> [stage : StageIndex, state : [PairId -> ClientState]]]
      /\ clients' = [clients EXCEPT ![a].state[k] = state]
  BY DEF TypeOK, Becomes
<1>2. [clients[a].state EXCEPT ![k] = state] \in [PairId -> ClientState]
  BY <1>1
<1>3. clients' = [clients EXCEPT ![a] = [clients[a] EXCEPT !.state = [clients[a].state EXCEPT ![k] = state]]]
  BY <1>1
<1>4. [clients[a] EXCEPT !.state = [clients[a].state EXCEPT ![k] = state]] \in
         [stage : StageIndex, state : [PairId -> ClientState]]
  BY <1>1, <1>2
<1>5. clients' \in [Start -> [stage : StageIndex, state : [PairId -> ClientState]]]
  BY <1>1, <1>3, <1>4
<1>6. \A b \in Start : b # a => clients'[b] = clients[b]
  BY <1>1, <1>3
<1>7. clients'[a] = [clients[a] EXCEPT !.state = [clients[a].state EXCEPT ![k] = state]]
  BY <1>1, <1>3
<1>8. clients'[a].stage = clients[a].stage /\ clients'[a].state = [clients[a].state EXCEPT ![k] = state]
  BY <1>1, <1>7
<1> QED
  BY <1>1, <1>5, <1>6, <1>8 DEF StageOf, Client

LEMMA RoutedFacts ==
    ASSUME TypeOK, NEW k \in PairId, NEW route \in [client : 0 .. MaxStarts, state : RouteState],
           Routed(k, route)
    PROVE  /\ port' \in GatewayType
           /\ port'.start = port.start /\ port'.stage = port.stage /\ port'.queried = port.queried
           /\ \A j \in PairId : port'.route[j] = IF j = k THEN route ELSE port.route[j]
<1>1. port \in GatewayType /\ port' = [port EXCEPT !.route[k] = route]
  BY DEF TypeOK, Routed
<1>2. port' = [port EXCEPT !.route = [port.route EXCEPT ![k] = route]]
  BY <1>1
<1>3. [port.route EXCEPT ![k] = route] \in [PairId -> [client : 0 .. MaxStarts, state : RouteState]]
  BY <1>1 DEF GatewayType
<1> QED
  BY <1>1, <1>2, <1>3 DEF GatewayType

\* The actions of the native processes, one by one.
NativeActions ==
    \/ \E a \in Start, k \in PairId : Reach(a, k) \/ Acknowledge(a, k) \/ Query(a, k) \/ FailClient(a, k)
    \/ \E k \in PairId : Store(k) \/ Abort(k)
    \/ EndGateway \/ FailGateway

LEMMA StepCases ==
    ASSUME [Next]_vars
    PROVE  \/ UNCHANGED vars
           \/ \E r \in Role : StartScript(r) \/ KillScript(r) \/ FinishScript(r)
           \/ SpawnClients \/ CollectClients \/ FailClientStage
           \/ SpawnGateway \/ CollectGateway \/ FailServerStage
           \/ NativeActions
BY DEF Next, ClientScript, ServerScript, Native, Operator, NativeActions, Role

\* Where a script goes.
LEMMA GoesFacts ==
    ASSUME TypeOK, NEW r \in Role, NEW where \in {"down", "between", "running"}, NEW i \in 0 .. StageCount,
           Goes(r, where, i)
    PROVE  /\ script' \in [Role -> [at : {"down", "between", "running"}, stage : 0 .. StageCount]]
           /\ script'[r].at = where /\ script'[r].stage = i
           /\ \A q \in Role : q # r => script'[q] = script[q]
BY DEF TypeOK, Goes

\* A report grows by one row, or not at all.
LEMMA WriteFacts ==
    ASSUME TypeOK, NEW r \in Role, starts[r] \in Start, NEW i \in StageIndex,
           NEW arcs \in [PairId -> 0 .. MaxStarts], Write(r, i, arcs)
    PROVE  /\ reports' \in [Role -> [Start -> Seq(Sample)]]
           /\ \A q \in Role, a \in Start : \A x \in DOMAIN reports'[q][a] :
                \/ x \in DOMAIN reports[q][a] /\ reports'[q][a][x] = reports[q][a][x]
                \/ reports'[q][a][x] = [stage |-> i, arcs |-> arcs]
<1> DEFINE row == [stage |-> i, arcs |-> arcs]
           longer == Append(reports[r][starts[r]], row)
<1>1. reports \in [Role -> [Start -> Seq(Sample)]] /\ reports[r] \in [Start -> Seq(Sample)]
      /\ reports[r][starts[r]] \in Seq(Sample)
  BY DEF TypeOK
<1>2. CASE StageAt(i).warmup
  BY <1>1, <1>2 DEF Write
<1>3. CASE ~ StageAt(i).warmup
  <2>1. row \in Sample
    BY <1>3 DEF Sample, Measured
  <2>2. /\ longer \in Seq(Sample)
        /\ \A x \in DOMAIN longer : \/ x \in DOMAIN reports[r][starts[r]] /\ longer[x] = reports[r][starts[r]][x]
                                    \/ longer[x] = row
    <3> HIDE DEF row
    <3> QED
      BY <1>1, <2>1
  <2>3. reports' = [reports EXCEPT ![r] = [reports[r] EXCEPT ![starts[r]] = longer]]
    BY <1>3 DEF Write
  <2> HIDE DEF longer, row
  <2>4. reports' \in [Role -> [Start -> Seq(Sample)]]
    BY <1>1, <2>2, <2>3
  <2>5. \A q \in Role, a \in Start :
            reports'[q][a] = IF q = r /\ a = starts[r] THEN longer ELSE reports[q][a]
    BY <1>1, <2>3
  <2>6. \A q \in Role, a \in Start : \A x \in DOMAIN reports'[q][a] :
                \/ x \in DOMAIN reports[q][a] /\ reports'[q][a][x] = reports[q][a][x]
                \/ reports'[q][a][x] = row
    BY <2>2, <2>5
  <2> QED
    BY <2>4, <2>6 DEF row
<1> QED
  BY <1>2, <1>3

LEMMA StartsType ==
    ASSUME TypeOK, NEW r \in Role, StartScript(r)
    PROVE  /\ starts' \in [Role -> 0 .. MaxStarts] /\ starts'[r] = starts[r] + 1 /\ starts'[r] \in Start
           /\ \A q \in Role : q # r => starts'[q] = starts[q]
BY BoundTypes DEF TypeOK, StartScript, Start

LEMMA TypeStep == IInv /\ [Next]_vars => TypeOK'
<1> SUFFICES ASSUME IInv, [Next]_vars PROVE TypeOK'
  OBVIOUS
<1> DEFINE ScriptType == script \in [Role -> [at : {"down", "between", "running"}, stage : 0 .. StageCount]]
           Runs == \A r \in Role : script[r].at = "running" => script[r].stage \in StageIndex
           ClientsType == clients \in [Start -> [stage : StageIndex, state : [PairId -> ClientState]]]
<1>0. TypeOK /\ ClientsInv /\ "client" \in Role /\ "server" \in Role /\ 0 \in 0 .. StageCount
  BY SomeStage DEF IInv, Role
<1>1. ScriptType' /\ Runs'
  <2>1. ASSUME NEW r \in Role, NEW i \in 0 .. StageCount,
               NEW where \in {"down", "between", "running"}, Goes(r, where, i),
               where = "running" => i \in StageIndex
        PROVE  ScriptType' /\ Runs'
    <3>1. /\ ScriptType' /\ script'[r].at = where /\ script'[r].stage = i
          /\ \A q \in Role : q # r => script'[q] = script[q]
      BY <1>0, <2>1, GoesFacts
    <3>2. Runs
      BY <1>0 DEF TypeOK
    <3> QED
      BY <2>1, <3>1, <3>2
  <2>2. \A r \in Role : Stage(r) \in 0 .. StageCount /\ (At(r, "running") => Stage(r) \in StageIndex)
    BY <1>0 DEF TypeOK, Stage, At
  <2>3. \A i \in StageIndex : i \in 0 .. StageCount /\ i + 1 \in 0 .. StageCount
    BY SomeStage DEF StageIndex
  <2>4. \A i \in 0 .. StageCount : i < StageCount => i \in StageIndex
    BY SomeStage DEF StageIndex
  <2>5. CASE \E r \in Role : StartScript(r) \/ KillScript(r) \/ FinishScript(r)
    BY <1>0, <2>1, <2>5 DEF StartScript, KillScript, FinishScript
  <2>6. CASE SpawnClients \/ SpawnGateway
    BY <1>0, <2>1, <2>2, <2>4, <2>6 DEF SpawnClients, SpawnGateway
  <2>7. CASE CollectClients \/ CollectGateway \/ FailClientStage \/ FailServerStage
    BY <1>0, <2>1, <2>2, <2>3, <2>7 DEF CollectClients, CollectGateway, FailClientStage, FailServerStage
  <2>8. CASE UNCHANGED script
    BY <1>0, <2>8 DEF TypeOK
  <2> QED
    BY <2>5, <2>6, <2>7, <2>8, StepCases DEF vars, NativeActions, Reach, Acknowledge, Query, FailClient,
       Store, Abort, EndGateway, FailGateway
<1>2. starts' \in [Role -> 0 .. MaxStarts]
  <2>1. CASE \E r \in Role : StartScript(r)
    BY <1>0, <2>1, StartsType
  <2>2. CASE UNCHANGED starts
    BY <1>0, <2>2 DEF TypeOK
  <2> QED
    BY <2>1, <2>2, StepCases DEF vars, KillScript, FinishScript, SpawnClients, CollectClients, FailClientStage,
       SpawnGateway, CollectGateway, FailServerStage, NativeActions, Reach, Acknowledge, Query, FailClient,
       Store, Abort, EndGateway, FailGateway
<1>3. ClientsType'
  <2>1. clients \in [Start -> [stage : StageIndex, state : [PairId -> ClientState]]]
    BY <1>0 DEF TypeOK
  <2>2. {"none", "sending", "lost", "running", "waiting", "done", "failed"} = ClientState
    BY DEF ClientState
  <2>3. ASSUME NEW a \in Start, NEW k \in PairId, NEW state \in ClientState, Becomes(a, k, state) PROVE ClientsType'
    BY <1>0, <2>3, BecomesFacts
  <2>4. CASE UNCHANGED clients
    BY <2>1, <2>4
  <2>5. CASE SpawnClients
    <3>1. PICK state \in [PairId -> ClientState] :
             clients' = [clients EXCEPT ![starts["client"]] = [stage |-> Stage("client"), state |-> state]]
      BY <2>2, <2>5 DEF SpawnClients
    <3>2. Stage("client") \in StageIndex
      BY <1>0, <2>5, SomeStage DEF SpawnClients, TypeOK, Stage, StageIndex
    <3> QED
      BY <2>1, <3>1, <3>2
  <2>6. CASE FailClientStage
    <3>1. PICK state \in [PairId -> ClientState] : clients' = [clients EXCEPT ![starts["client"]].state = state]
      BY <2>2, <2>6 DEF FailClientStage
    <3> QED
      BY <2>1, <3>1
  <2>7. CASE NativeActions /\ clients' # clients
    <3>1. \E a \in Start, k \in PairId, state \in ClientState : Becomes(a, k, state)
      <4>1. CASE \E a \in Start, k \in PairId : Reach(a, k) \/ Acknowledge(a, k) \/ Query(a, k) \/ FailClient(a, k)
        BY <2>2, <2>7, <4>1 DEF Reach, Acknowledge, Query, FailClient
      <4>2. ASSUME NEW k \in PairId, Store(k) \/ Abort(k) PROVE \E a \in Start, state \in ClientState : Becomes(a, k, state)
        <5>1. port.route[k].state = "running" /\ port.route[k].client \in Start
          BY <4>2 DEF IInv, RoutesInv, Store, Abort
        <5> QED
          BY <2>2, <2>7, <4>2, <5>1 DEF Store, Abort
      <4> QED
        BY <2>7, <4>1, <4>2 DEF NativeActions, EndGateway, FailGateway
    <3> QED
      BY <2>3, <3>1
  <2> QED
    BY <2>4, <2>5, <2>6, <2>7, StepCases DEF vars, StartScript, KillScript, FinishScript, CollectClients,
       SpawnGateway, CollectGateway, FailServerStage
<1>4. port' \in GatewayType /\ result' \in GatewayType
  <2>1. port \in GatewayType /\ result \in GatewayType /\ Unbound \in GatewayType
    BY <1>0, UnboundType DEF TypeOK
  <2>2. SpawnGateway => Gateway(starts["server"], Stage("server")) \in GatewayType
    <3>1. FreeRoute \in [client : 0 .. MaxStarts, state : RouteState]
      BY BoundTypes DEF FreeRoute, RouteState
    <3>2. SpawnGateway => starts["server"] \in 0 .. MaxStarts /\ Stage("server") \in StageIndex
      BY <1>0, SomeStage DEF SpawnGateway, TypeOK, Stage, StageIndex
    <3> QED
      BY <3>1, <3>2 DEF Gateway, GatewayType
  <2>3. \A a \in Start, state \in RouteState : [client |-> a, state |-> state] \in [client : 0 .. MaxStarts, state : RouteState]
    BY BoundTypes DEF Start
  <2>4. {"running", "stored", "closed"} \subseteq RouteState
    BY DEF RouteState
  <2>5. ASSUME NEW k \in PairId, NEW a \in Start, NEW state \in RouteState, Routed(k, [client |-> a, state |-> state])
        PROVE  port' \in GatewayType
    BY <1>0, <2>3, <2>5, RoutedFacts
  <2>6. CASE \E a \in Start, k \in PairId : Reach(a, k)
    BY <2>1, <2>4, <2>5, <2>6 DEF Reach
  <2>7. ASSUME NEW k \in PairId, Store(k) \/ Abort(k) PROVE port' \in GatewayType /\ result' \in GatewayType
    <3>1. port.route[k].client \in Start
      BY <2>7 DEF IInv, RoutesInv, Store, Abort
    <3> QED
      BY <2>1, <2>4, <2>5, <2>7, <3>1 DEF Store, Abort
  <2>8. ASSUME NEW a \in Start, NEW k \in PairId, Query(a, k) PROVE port' \in GatewayType /\ result' \in GatewayType
    <3>1. PICK route \in [client : 0 .. MaxStarts, state : RouteState] :
             port' = [port EXCEPT !.queried = TRUE, !.route[k] = route]
      <4>1. port.route[k] \in [client : 0 .. MaxStarts, state : RouteState]
        BY <2>1 DEF GatewayType
      <4> QED
        BY <2>3, <2>4, <2>8, <4>1 DEF Query
    <3>2. [port.route EXCEPT ![k] = route] \in [PairId -> [client : 0 .. MaxStarts, state : RouteState]]
      BY <2>1 DEF GatewayType
    <3>3. port' = [port EXCEPT !.queried = TRUE, !.route = [port.route EXCEPT ![k] = route]]
      BY <2>1, <3>1 DEF GatewayType
    <3> QED
      BY <2>1, <2>8, <3>2, <3>3 DEF GatewayType, Query
  <2>9. CASE NativeActions
    BY <2>1, <2>6, <2>7, <2>8, <2>9 DEF NativeActions, Reach, Acknowledge, FailClient, EndGateway, FailGateway
  <2> QED
    BY <2>1, <2>2, <2>9, StepCases DEF vars, StartScript, KillScript, FinishScript, SpawnClients,
       CollectClients, FailClientStage, SpawnGateway, CollectGateway, FailServerStage
<1>5. journal' \in [StageIndex \X PairId -> 0 .. MaxStarts]
  <2>1. journal \in [StageIndex \X PairId -> 0 .. MaxStarts]
    BY <1>0 DEF TypeOK
  <2>2. ASSUME NEW k \in PairId, Store(k) PROVE journal' \in [StageIndex \X PairId -> 0 .. MaxStarts]
    <3>1. port.route[k].client \in 0 .. MaxStarts
      BY <1>0 DEF TypeOK, GatewayType
    <3> QED
      BY <2>1, <2>2, <3>1 DEF Store
  <2> QED
    BY <2>1, <2>2, StepCases DEF vars, StartScript, KillScript, FinishScript, SpawnClients, CollectClients,
       FailClientStage, SpawnGateway, CollectGateway, FailServerStage, Retained, NativeActions, Reach,
       Acknowledge, Query, FailClient, Abort, EndGateway, FailGateway
<1>6. reports' \in [Role -> [Start -> Seq(Sample)]]
  <2>1. CASE CollectClients
    <3>1. starts["client"] \in Start /\ Stage("client") \in StageIndex
      BY <1>0, <2>1 DEF CollectClients, ClientsInv, At, Stage, TypeOK
    <3>2. starts["client"] \in 0 .. MaxStarts /\ 0 \in 0 .. MaxStarts
      BY <3>1, BoundTypes DEF Start
    <3> QED
      BY <1>0, <2>1, <3>1, <3>2, WriteFacts DEF CollectClients
  <2>2. CASE CollectGateway
    <3>1. starts["server"] \in Start /\ Stage("server") \in StageIndex
      BY <1>0, <2>2 DEF CollectGateway, ClientsInv, At, Stage, TypeOK
    <3>2. [k \in PairId |-> result.route[k].client] \in [PairId -> 0 .. MaxStarts]
      BY <1>0 DEF TypeOK, GatewayType
    <3> QED
      BY <1>0, <2>2, <3>1, <3>2, WriteFacts DEF CollectGateway
  <2>3. CASE UNCHANGED reports
    BY <1>0, <2>3 DEF TypeOK
  <2> QED
    BY <2>1, <2>2, <2>3, StepCases DEF vars, StartScript, KillScript, FinishScript, SpawnClients, FailClientStage,
       SpawnGateway, FailServerStage, NativeActions, Reach, Acknowledge, Query, FailClient,
       Store, Abort, EndGateway, FailGateway
<1> QED
  BY <1>1, <1>2, <1>3, <1>4, <1>5, <1>6 DEF TypeOK

-----------------------------------------------------------------------------
LEMMA ScriptsFrame ==
    ASSUME NativeActions
    PROVE  UNCHANGED <<script, starts, reports>>
BY DEF NativeActions, Reach, Acknowledge, Query, FailClient, Store, Abort, EndGateway, FailGateway

\* What the native processes do to the clients: at most one of them moves on,
\* and none that was not started.
LEMMA NativeClients ==
    ASSUME IInv, NativeActions
    PROVE  /\ \A a \in Start : StageOf(a)' = StageOf(a)
           /\ \A a \in Start, k \in PairId : Client(a, k) \in {"none", "done"} => Client(a, k)' = Client(a, k)
           /\ \A a \in Start, k \in PairId : Client(a, k) # "none" => Client(a, k)' # "none"
<1>0. TypeOK /\ {"running", "lost", "waiting", "done", "failed"} \subseteq ClientState
  BY DEF IInv, ClientState
<1>1. CASE UNCHANGED clients
  BY <1>1 DEF StageOf, Client
<1>2. ASSUME NEW a \in Start, NEW k \in PairId, NEW state \in ClientState \ {"none"}, Becomes(a, k, state),
             Client(a, k) \notin {"none", "done"}
      PROVE  /\ \A b \in Start : StageOf(b)' = StageOf(b)
             /\ \A b \in Start, j \in PairId : Client(b, j) \in {"none", "done"} => Client(b, j)' = Client(b, j)
             /\ \A b \in Start, j \in PairId : Client(b, j) # "none" => Client(b, j)' # "none"
  BY <1>0, <1>2, BecomesFacts
<1>3. ASSUME NEW a \in Start, NEW k \in PairId, Reach(a, k) \/ Acknowledge(a, k) \/ Query(a, k) \/ FailClient(a, k),
             ~ UNCHANGED clients
      PROVE  Client(a, k) \notin {"none", "done"} /\ \E state \in ClientState \ {"none"} : Becomes(a, k, state)
  BY <1>0, <1>3 DEF Reach, Acknowledge, Query, FailClient
<1>4. ASSUME NEW k \in PairId, Store(k) \/ Abort(k), ~ UNCHANGED clients
      PROVE  \E a \in Start : Client(a, k) = "running" /\ \E state \in ClientState \ {"none"} : Becomes(a, k, state)
  <2>1. port.route[k].state = "running" /\ port.route[k].client \in Start
    BY <1>4 DEF IInv, RoutesInv, Store, Abort
  <2> QED
    BY <1>0, <1>4, <2>1 DEF Store, Abort
<1> QED
  BY <1>1, <1>2, <1>3, <1>4 DEF NativeActions, EndGateway, FailGateway

\* A start of a stage: its clients, and nobody else's, change.
LEMMA SpawnFacts ==
    ASSUME IInv, SpawnClients
    PROVE  LET own == starts["client"]
           IN  /\ own \in Start /\ StageOf(own)' = Stage("client") /\ Stage("client") \in StageIndex
               /\ \A k \in PairId : Client(own, k)' = IF k \in Pairs(Stage("client")) THEN "sending" ELSE "none"
               /\ \A a \in Start, k \in PairId :
                     a # own => StageOf(a)' = StageOf(a) /\ Client(a, k)' = Client(a, k)
               /\ At("client", "running")' /\ Stage("client")' = Stage("client")
<1>1. TypeOK /\ starts["client"] \in Start /\ Stage("client") \in StageIndex
  BY SomeStage DEF IInv, ClientsInv, SpawnClients, At, TypeOK, Stage, Role, StageIndex
<1>2. At("client", "running")' /\ Stage("client")' = Stage("client")
  BY <1>1 DEF SpawnClients, Goes, TypeOK, At, Stage, Role
<1>3. clients \in [Start -> [stage : StageIndex, state : [PairId -> ClientState]]]
  BY <1>1 DEF TypeOK
<1> QED
  BY <1>1, <1>2, <1>3 DEF SpawnClients, StageOf, Client

LEMMA KilledFacts ==
    ASSUME IInv, FailClientStage
    PROVE  /\ \A a \in Start : StageOf(a)' = StageOf(a)
           /\ \A a \in Start, k \in PairId :
                \/ Client(a, k)' = Client(a, k)
                \/ Client(a, k) # "none" /\ Client(a, k)' = "failed"
<1>1. /\ starts["client"] \in Start
      /\ clients \in [Start -> [stage : StageIndex, state : [PairId -> ClientState]]]
  BY DEF IInv, TypeOK, ClientsInv, FailClientStage, At, Role
<1> QED
  BY <1>1 DEF FailClientStage, StageOf, Client

\* What a script's own step does to the scripts.
LEMMA ScriptMoves ==
    ASSUME IInv
    PROVE  /\ \A r \in Role : StartScript(r) => At(r, "between")' /\ Stage(r)' = 0 /\ starts'[r] = starts[r] + 1
                                                /\ starts'[r] \in Start
           /\ \A r \in Role : KillScript(r) \/ FinishScript(r) => At(r, "down")' /\ UNCHANGED starts
           /\ \A r, q \in Role : (StartScript(r) \/ KillScript(r) \/ FinishScript(r)) /\ q # r =>
                                    script'[q] = script[q] /\ starts'[q] = starts[q]
           /\ CollectClients => At("client", "between")' /\ Stage("client")' = Stage("client") + 1
           /\ FailClientStage => At("client", "down")'
           /\ SpawnGateway => At("server", "running")' /\ Stage("server")' = Stage("server")
           /\ CollectGateway => At("server", "between")'
           /\ FailServerStage => At("server", "down")'
           /\ SpawnClients \/ CollectClients \/ FailClientStage => script'["server"] = script["server"] /\ UNCHANGED starts
           /\ SpawnGateway \/ CollectGateway \/ FailServerStage => script'["client"] = script["client"] /\ UNCHANGED starts
<1>1. TypeOK /\ "client" \in Role /\ "server" \in Role
  BY DEF IInv, Role
<1>2. script \in [Role -> [at : {"down", "between", "running"}, stage : 0 .. StageCount]]
      /\ starts \in [Role -> 0 .. MaxStarts]
  BY <1>1 DEF TypeOK
<1>3. ASSUME NEW r \in Role, StartScript(r)
      PROVE  /\ At(r, "between")' /\ Stage(r)' = 0 /\ starts'[r] = starts[r] + 1 /\ starts'[r] \in Start
             /\ \A q \in Role : q # r => script'[q] = script[q] /\ starts'[q] = starts[q]
  <2>1. /\ starts'[r] = starts[r] + 1 /\ starts'[r] \in Start
        /\ \A q \in Role : q # r => starts'[q] = starts[q]
    BY <1>1, <1>3, StartsType
  <2>2. script' = [script EXCEPT ![r] = [at |-> "between", stage |-> 0]]
    BY <1>3 DEF StartScript, Goes
  <2> QED
    BY <1>2, <2>1, <2>2 DEF At, Stage
<1>4. \A r \in Role : KillScript(r) \/ FinishScript(r) =>
          /\ At(r, "down")' /\ UNCHANGED starts
          /\ \A q \in Role : q # r => script'[q] = script[q]
  BY <1>2 DEF KillScript, FinishScript, Goes, At
<1>5. /\ CollectClients => At("client", "between")' /\ Stage("client")' = Stage("client") + 1
      /\ FailClientStage => At("client", "down")'
      /\ SpawnClients \/ CollectClients \/ FailClientStage => script'["server"] = script["server"] /\ UNCHANGED starts
  BY <1>1, <1>2 DEF CollectClients, FailClientStage, SpawnClients, Goes, At, Stage
<1>6. /\ SpawnGateway => At("server", "running")' /\ Stage("server")' = Stage("server")
      /\ CollectGateway => At("server", "between")'
      /\ FailServerStage => At("server", "down")'
      /\ SpawnGateway \/ CollectGateway \/ FailServerStage => script'["client"] = script["client"] /\ UNCHANGED starts
  BY <1>1, <1>2 DEF SpawnGateway, CollectGateway, FailServerStage, Goes, At, Stage
<1> QED
  BY <1>3, <1>4, <1>5, <1>6

LEMMA ClientsStep == IInv /\ [Next]_vars => ClientsInv'
<1> SUFFICES ASSUME IInv, [Next]_vars PROVE ClientsInv'
  OBVIOUS
<1>0. TypeOK /\ ClientsInv /\ Role = {"client", "server"} /\ starts \in [Role -> 0 .. MaxStarts]
  BY DEF IInv, TypeOK, Role
<1>1. CASE UNCHANGED vars
  BY <1>0, <1>1 DEF vars, ClientsInv, At, Stage, StageOf, Client
<1>2. ASSUME NEW r \in Role, StartScript(r) PROVE ClientsInv'
  <2>1. UNCHANGED clients
    BY <1>2 DEF StartScript
  <2>2. CASE r = "client"
    <3>1. /\ At("client", "between")' /\ starts'["client"] = starts["client"] + 1 /\ starts'["client"] \in Start
          /\ script'["server"] = script["server"] /\ starts'["server"] = starts["server"]
      BY <1>0, <1>2, <2>2, ScriptMoves
    <3>2. \A k \in PairId : Client(starts'["client"], k) = "none"
      BY <1>0, <3>1 DEF ClientsInv
    <3>3. \A a \in Start : a > starts["client"] + 1 => a > starts["client"]
      BY <1>0 DEF Start
    <3> QED
      BY <1>0, <2>1, <3>1, <3>2, <3>3 DEF ClientsInv, At, Stage, StageOf, Client
  <2>3. CASE r = "server"
    <3>1. /\ starts'["server"] \in Start
          /\ script'["client"] = script["client"] /\ starts'["client"] = starts["client"]
      BY <1>0, <1>2, <2>3, ScriptMoves
    <3> QED
      BY <1>0, <2>1, <3>1 DEF ClientsInv, At, Stage, StageOf, Client
  <2> QED
    BY <1>0, <2>2, <2>3
<1>3. ASSUME NEW r \in Role, KillScript(r) \/ FinishScript(r) PROVE ClientsInv'
  <2>1. /\ UNCHANGED <<clients, starts>> /\ At(r, "down")'
        /\ \A q \in Role : q # r => script'[q] = script[q]
    BY <1>3, ScriptMoves DEF KillScript, FinishScript
  <2> QED
    BY <1>0, <2>1 DEF ClientsInv, At, Stage, StageOf, Client
<1>4. CASE SpawnClients
  <2>1. /\ starts["client"] \in Start /\ StageOf(starts["client"])' = Stage("client")
        /\ \A k \in PairId : Client(starts["client"], k)' = IF k \in Pairs(Stage("client")) THEN "sending" ELSE "none"
        /\ \A a \in Start, k \in PairId :
              a # starts["client"] => StageOf(a)' = StageOf(a) /\ Client(a, k)' = Client(a, k)
        /\ At("client", "running")' /\ Stage("client")' = Stage("client")
    BY <1>4, SpawnFacts
  <2>2. UNCHANGED starts /\ script'["server"] = script["server"]
    BY <1>4, ScriptMoves
  <2>3. \A r \in Role : ~ At(r, "down")' => starts'[r] \in Start
    BY <1>0, <2>1, <2>2 DEF ClientsInv, At
  <2>4. \A a \in Start : a > starts'["client"] => \A k \in PairId : Client(a, k)' = "none"
    BY <1>0, <2>1, <2>2 DEF ClientsInv, Start
  <2>5. \A a \in Start, k \in PairId : Client(a, k)' # "none" => k \in Pairs(StageOf(a)')
    BY <1>0, <2>1, <2>2 DEF ClientsInv
  <2>6. StageOf(starts["client"])' = Stage("client")' /\ ~ At("client", "between")'
    BY <2>1 DEF At
  <2>7. clients'[starts'["client"]].stage = Stage("client")'
    BY <2>2, <2>6 DEF StageOf
  <2> QED
    BY <2>3, <2>4, <2>5, <2>6, <2>7 DEF ClientsInv, StageOf, Pairs
<1>5. CASE CollectClients
  <2>1. /\ UNCHANGED <<clients, starts>> /\ script'["server"] = script["server"]
        /\ At("client", "between")' /\ At("client", "running") /\ ClientsAre({"done"})
    BY <1>5, ScriptMoves DEF CollectClients
  <2>2. starts["client"] \in Start /\ StageOf(starts["client"]) = Stage("client")
    BY <1>0, <2>1 DEF ClientsInv, At
  <2>3. \A k \in PairId : Client(starts["client"], k) \in {"none", "done"}
    BY <1>0, <2>1, <2>2 DEF ClientsInv, ClientsAre, Own, Client
  <2> QED
    BY <1>0, <2>1, <2>2, <2>3 DEF ClientsInv, At, Stage, StageOf, Client
<1>6. CASE FailClientStage
  <2>1. /\ UNCHANGED starts /\ script'["server"] = script["server"] /\ At("client", "down")'
        /\ \A a \in Start : StageOf(a)' = StageOf(a)
        /\ \A a \in Start, k \in PairId : Client(a, k)' = Client(a, k) \/ Client(a, k) # "none"
    BY <1>6, ScriptMoves, KilledFacts
  <2>2. \A a \in Start : a > starts'["client"] => \A k \in PairId : Client(a, k)' = "none"
    BY <1>0, <2>1 DEF ClientsInv
  <2>3. \A a \in Start, k \in PairId : Client(a, k)' # "none" => k \in Pairs(StageOf(a))
    BY <1>0, <2>1 DEF ClientsInv
  <2>4. \A r \in Role : ~ At(r, "down")' => starts'[r] \in Start
    BY <1>0, <2>1 DEF ClientsInv, At
  <2> QED
    BY <2>1, <2>2, <2>3, <2>4 DEF ClientsInv, At, Pairs
<1>7. CASE SpawnGateway \/ CollectGateway \/ FailServerStage
  <2>1. /\ UNCHANGED <<clients, starts>> /\ script'["client"] = script["client"] /\ ~ At("server", "down")
    BY <1>7, ScriptMoves DEF SpawnGateway, CollectGateway, FailServerStage, At
  <2> QED
    BY <1>0, <2>1 DEF ClientsInv, At, Stage, StageOf, Client
<1>8. CASE NativeActions
  <2>1. /\ UNCHANGED <<script, starts>>
        /\ \A a \in Start : StageOf(a)' = StageOf(a)
        /\ \A a \in Start, k \in PairId : Client(a, k) \in {"none", "done"} => Client(a, k)' = Client(a, k)
        /\ \A a \in Start, k \in PairId : Client(a, k)' # "none" => Client(a, k) # "none"
    BY <1>8, ScriptsFrame, NativeClients
  <2>2. \A a \in Start : a > starts'["client"] => \A k \in PairId : Client(a, k)' = "none"
    BY <1>0, <2>1 DEF ClientsInv
  <2>3. \A a \in Start, k \in PairId : Client(a, k)' # "none" => k \in Pairs(StageOf(a))
    BY <1>0, <2>1 DEF ClientsInv
  <2>4. ~ At("client", "down") => starts["client"] \in Start
    BY <1>0 DEF ClientsInv
  <2>5. At("client", "between") => \A k \in PairId : clients'[starts["client"]].state[k] \in {"none", "done"}
    BY <1>0, <2>1, <2>4 DEF ClientsInv, At, Client
  <2>6. At("client", "running") => clients'[starts["client"]].stage = Stage("client")
    BY <1>0, <2>1, <2>4 DEF ClientsInv, At, StageOf
  <2> QED
    BY <1>0, <2>1, <2>2, <2>3, <2>5, <2>6 DEF ClientsInv, At, Stage, StageOf, Client, Pairs
<1> QED
  BY <1>1, <1>2, <1>3, <1>4, <1>5, <1>6, <1>7, <1>8, StepCases

\* The record of start a's session is stored, and its client told if it waits.
Stores(a, k) ==
    /\ Stored(port.stage, k) \in {0, a}
    /\ \A i \in StageIndex, j \in PairId :
          Stored(i, j)' = IF i = port.stage /\ j = k THEN a ELSE Stored(i, j)
    /\ port'.stage = port.stage
    /\ \A j \in PairId : port'.route[j] = IF j = k THEN [client |-> a, state |-> "stored"] ELSE port.route[j]
    /\ \A b \in Start, j \in PairId :
          Client(b, j)' = IF b = a /\ j = k /\ Client(a, k) = "running" THEN "waiting" ELSE Client(b, j)

\* A session's end: the gateway ends on the record of another one, and writes
\* its own otherwise.
LEMMA StoreFacts ==
    ASSUME IInv, NEW k \in PairId, NEW a, a = port.route[k].client, Store(k)
    PROVE  /\ a \in Start /\ StageOf(a) = port.stage /\ Client(a, k) \in {"running", "failed"}
           /\ port.stage \in StageIndex
           /\ \A b \in Start : StageOf(b)' = StageOf(b)
           /\ \/ port' = Unbound /\ UNCHANGED <<journal, clients>>
              \/ Stores(a, k)
<1>0. /\ TypeOK /\ port.stage \in StageIndex /\ journal \in [StageIndex \X PairId -> 0 .. MaxStarts]
      /\ "waiting" \in ClientState
  BY DEF IInv, TypeOK, GatewayType, ClientState
<1>1. a \in Start /\ StageOf(a) = port.stage /\ Client(a, k) \in {"running", "failed"}
  BY DEF IInv, RoutesInv, Store
<1>2. CASE port' = Unbound /\ UNCHANGED <<journal, clients>>
  BY <1>0, <1>1, <1>2 DEF StageOf
<1>3. CASE /\ journal[<<port.stage, k>>] \in {0, a}
           /\ journal' = [journal EXCEPT ![<<port.stage, k>>] = a]
           /\ Routed(k, [client |-> a, state |-> "stored"])
           /\ IF Client(a, k) = "running" THEN Becomes(a, k, "waiting") ELSE UNCHANGED clients
  <2>1. Stored(port.stage, k) \in {0, a}
    BY <1>3 DEF Stored
  <2>2. \A i \in StageIndex, j \in PairId : Stored(i, j)' = IF i = port.stage /\ j = k THEN a ELSE Stored(i, j)
    BY <1>0, <1>3 DEF Stored
  <2>3. [client |-> a, state |-> "stored"] \in [client : 0 .. MaxStarts, state : RouteState]
    BY <1>1, BoundTypes DEF Start, RouteState
  <2>4. /\ port'.stage = port.stage
        /\ \A j \in PairId : port'.route[j] = IF j = k THEN [client |-> a, state |-> "stored"] ELSE port.route[j]
    BY <1>0, <1>3, <2>3, RoutedFacts
  <2>5. /\ \A b \in Start : StageOf(b)' = StageOf(b)
        /\ \A b \in Start, j \in PairId :
              Client(b, j)' = IF b = a /\ j = k /\ Client(a, k) = "running" THEN "waiting" ELSE Client(b, j)
    <3>1. CASE Client(a, k) = "running"
      BY <1>0, <1>1, <1>3, <3>1, BecomesFacts
    <3>2. CASE Client(a, k) # "running"
      BY <1>3, <3>2 DEF StageOf, Client
    <3> QED
      BY <3>1, <3>2
  <2>6. Stores(a, k)
    BY <2>1, <2>2, <2>4, <2>5 DEF Stores
  <2> QED
    BY <1>0, <1>1, <2>5, <2>6
<1> QED
  BY <1>2, <1>3 DEF Store

\* A record stays.
LEMMA RecordsStay ==
    ASSUME IInv, [Next]_vars
    PROVE  /\ UNCHANGED journal \/ \E k \in PairId : Store(k)
           /\ \A i \in StageIndex, k \in PairId : Stored(i, k) # 0 => Stored(i, k)' = Stored(i, k)
<1>1. UNCHANGED journal \/ \E k \in PairId : Store(k)
  BY StepCases DEF vars, StartScript, KillScript, FinishScript, SpawnClients, CollectClients,
       FailClientStage, SpawnGateway, CollectGateway, FailServerStage, Retained, NativeActions, Reach,
       Acknowledge, Query, FailClient, Abort, EndGateway, FailGateway
<1>2. ASSUME NEW k \in PairId, Store(k), NEW i \in StageIndex, NEW j \in PairId, Stored(i, j) # 0
      PROVE  Stored(i, j)' = Stored(i, j)
  <2>1. CASE UNCHANGED journal
    BY <2>1 DEF Stored
  <2>2. CASE ~ UNCHANGED journal
    <3>1. PICK a : a = port.route[k].client
      OBVIOUS
    <3>2. Stores(a, k)
      BY <1>2, <2>2, <3>1, StoreFacts
    <3> QED
      BY <1>2, <3>2 DEF Stores
  <2> QED
    BY <2>1, <2>2
<1> QED
  BY <1>1, <1>2 DEF Stored

LEMMA JournalStep == IInv /\ [Next]_vars => JournalInv'
<1> SUFFICES ASSUME IInv, [Next]_vars PROVE JournalInv'
  OBVIOUS
<1>0. /\ TypeOK /\ ClientsInv /\ JournalInv /\ Role = {"client", "server"} /\ starts \in [Role -> 0 .. MaxStarts]
      /\ \A a \in Start : StageOf(a) \in StageIndex
  BY DEF IInv, TypeOK, Role, StageOf
<1>1. CASE UNCHANGED <<journal, clients>> /\ script'["client"] = script["client"] /\ starts'["client"] = starts["client"]
  BY <1>0, <1>1 DEF JournalInv, At, Stage, StageOf, Client, Stored
<1>2. CASE /\ UNCHANGED <<journal, starts>>
           /\ \A a \in Start : StageOf(a)' = StageOf(a)
           /\ \A a \in Start, k \in PairId :
                \/ Client(a, k)' = Client(a, k)
                \/ Client(a, k)' = "failed"
                \/ Client(a, k) \in {"sending", "lost", "running"} /\ Client(a, k)' \in {"sending", "lost", "running"}
                \/ Stored(StageOf(a), k) = a /\ Client(a, k)' \in {"waiting", "done"}
           /\ At("client", "down")' \/ script'["client"] = script["client"]
  <2>1. \A i \in StageIndex, k \in PairId : Stored(i, k)' = Stored(i, k)
    BY <1>2 DEF Stored
  <2>2. \A i \in StageIndex, k \in PairId :
         /\ Stored(i, k)' <= starts'["client"]
         /\ ~ At("client", "down")' /\ Stored(i, k)' = starts'["client"] =>
               i < Stage("client")' \/ (At("client", "running")' /\ i = Stage("client")')
    BY <1>0, <1>2, <2>1 DEF JournalInv, At, Stage
  <2>3. \A a \in Start, k \in PairId :
         /\ Client(a, k)' \in {"waiting", "done"} => Stored(StageOf(a), k) = a
         /\ Client(a, k)' \in {"sending", "lost", "running"} => Stored(StageOf(a), k) # a
    BY <1>0, <1>2 DEF JournalInv
  <2> QED
    BY <1>0, <1>2, <2>1, <2>2, <2>3 DEF JournalInv, Stored
<1>3. CASE StartScript("client")
  <2>1. /\ UNCHANGED <<journal, clients>> /\ At("client", "between")' /\ Stage("client")' = 0
        /\ starts'["client"] = starts["client"] + 1
    BY <1>0, <1>3, ScriptMoves DEF StartScript
  <2>2. \A i \in StageIndex, k \in PairId : Stored(i, k)' = Stored(i, k) /\ Stored(i, k) \in Int
    BY <1>0, <2>1 DEF Stored, TypeOK
  <2>3. \A i \in StageIndex, k \in PairId : Stored(i, k) < starts["client"] + 1
    BY <1>0, <2>2 DEF JournalInv
  <2> QED
    BY <1>0, <2>1, <2>2, <2>3 DEF JournalInv, StageOf, Client, Stored
<1>4. CASE SpawnClients
  <2>1. /\ starts["client"] \in Start /\ StageOf(starts["client"])' = Stage("client") /\ Stage("client") \in StageIndex
        /\ \A k \in PairId : Client(starts["client"], k)' = IF k \in Pairs(Stage("client")) THEN "sending" ELSE "none"
        /\ \A a \in Start, k \in PairId :
              a # starts["client"] => StageOf(a)' = StageOf(a) /\ Client(a, k)' = Client(a, k)
        /\ At("client", "running")' /\ Stage("client")' = Stage("client")
    BY <1>4, SpawnFacts
  <2>2. UNCHANGED <<journal, starts>> /\ At("client", "between")
    BY <1>4 DEF SpawnClients
  <2>3. \A k \in PairId : Stored(Stage("client"), k) # starts["client"]
    <3>1. \A k \in PairId : ~ (Stage("client") < Stage("client")) /\ ~ At("client", "running") /\ ~ At("client", "down")
      BY <1>0, <2>1, <2>2 DEF At, StageIndex
    <3> QED
      BY <1>0, <2>1, <3>1 DEF JournalInv
  <2>4. \A a \in Start, k \in PairId :
         /\ Client(a, k)' \in {"waiting", "done"} => Stored(StageOf(a)', k) = a
         /\ Client(a, k)' \in {"sending", "lost", "running"} => Stored(StageOf(a)', k) # a
    <3> TAKE a \in Start, k \in PairId
    <3>1. CASE a = starts["client"]
      BY <2>1, <2>2, <2>3, <3>1
    <3>2. CASE a # starts["client"]
      BY <1>0, <2>1, <3>2 DEF JournalInv
    <3> QED
      BY <3>1, <3>2
  <2>5. \A i \in StageIndex, k \in PairId :
         /\ Stored(i, k) <= starts["client"]
         /\ Stored(i, k) = starts["client"] => i < Stage("client")
    BY <1>0, <2>2 DEF JournalInv, At
  <2> QED
    BY <2>1, <2>2, <2>4, <2>5 DEF JournalInv, Stored
<1>5. CASE CollectClients
  <2>1. /\ UNCHANGED <<journal, clients, starts>> /\ At("client", "running")
        /\ At("client", "between")' /\ Stage("client")' = Stage("client") + 1
    BY <1>5, ScriptMoves DEF CollectClients
  <2>2. \A i \in StageIndex : i < Stage("client") \/ i = Stage("client") => i < Stage("client") + 1
    <3>1. Stage("client") \in Int
      BY <1>0 DEF TypeOK, Stage
    <3> QED
      BY <3>1 DEF StageIndex
  <2>3. \A i \in StageIndex, k \in PairId :
         /\ Stored(i, k) <= starts["client"]
         /\ Stored(i, k) = starts["client"] => i < Stage("client")'
    BY <1>0, <2>1, <2>2 DEF JournalInv, At
  <2> QED
    BY <1>0, <2>1, <2>3 DEF JournalInv, StageOf, Client, Stored
<1>6. ASSUME NEW k \in PairId, Store(k) PROVE JournalInv'
  <2>a. PICK a : a = port.route[k].client
    OBVIOUS
  <2>0. /\ UNCHANGED <<script, starts>>
        /\ a \in Start /\ StageOf(a) = port.stage /\ Client(a, k) \in {"running", "failed"}
        /\ port.stage \in StageIndex /\ \A b \in Start : StageOf(b)' = StageOf(b)
    BY <1>6, <2>a, StoreFacts DEF Store
  <2>1. CASE UNCHANGED <<journal, clients>>
    BY <1>1, <2>0, <2>1
  <2>2. CASE ~ UNCHANGED <<journal, clients>>
    <3>1. /\ Stored(port.stage, k) \in {0, a}
          /\ \A i \in StageIndex, j \in PairId : Stored(i, j)' = IF i = port.stage /\ j = k THEN a ELSE Stored(i, j)
          /\ \A b \in Start, j \in PairId :
                Client(b, j)' = IF b = a /\ j = k /\ Client(a, k) = "running" THEN "waiting" ELSE Client(b, j)
      <4>1. Stores(a, k)
        BY <1>6, <2>a, <2>2, StoreFacts
      <4> QED
        BY <4>1 DEF Stores
    <3>2. a <= starts["client"] /\ a # 0
      BY <1>0, <2>0, BoundTypes DEF ClientsInv, Start
    <3>3. a = starts["client"] /\ ~ At("client", "down") => At("client", "running") /\ port.stage = Stage("client")
      <4>1. script["client"].at \in {"down", "between", "running"}
        BY <1>0 DEF TypeOK
      <4> QED
        BY <1>0, <2>0, <4>1 DEF ClientsInv, At
    <3>4. \A i \in StageIndex, j \in PairId :
             /\ Stored(i, j)' <= starts["client"]
             /\ ~ At("client", "down") /\ Stored(i, j)' = starts["client"] =>
                   i < Stage("client") \/ (At("client", "running") /\ i = Stage("client"))
      BY <1>0, <3>1, <3>2, <3>3 DEF JournalInv
    <3>5. \A b \in Start, j \in PairId :
             /\ Client(b, j)' \in {"waiting", "done"} => Stored(StageOf(b), j)' = b
             /\ Client(b, j)' \in {"sending", "lost", "running"} => Stored(StageOf(b), j)' # b
      <4> TAKE b \in Start, j \in PairId
      <4>1. StageOf(b) \in StageIndex /\ StageOf(b)' = StageOf(b)
        BY <1>0, <2>0
      <4>2. Stored(StageOf(b), j)' = IF StageOf(b) = port.stage /\ j = k THEN a ELSE Stored(StageOf(b), j)
        <5>1. \A i \in StageIndex : Stored(i, j)' = IF i = port.stage /\ j = k THEN a ELSE Stored(i, j)
          BY <3>1
        <5> QED
          BY <4>1, <5>1 DEF Stored
      <4>3. CASE b = a /\ j = k
        BY <1>0, <2>0, <3>1, <4>2, <4>3
      <4>4. CASE ~ (b = a /\ j = k)
        <5>1. Client(b, j)' = Client(b, j)
          BY <3>1, <4>4
        <5>2. /\ Client(b, j) \in {"waiting", "done"} => Stored(StageOf(b), j) = b
              /\ Client(b, j) \in {"sending", "lost", "running"} => Stored(StageOf(b), j) # b
          BY <1>0 DEF JournalInv
        <5>3. b # 0
          BY DEF Start
        <5> QED
          BY <3>1, <4>2, <4>4, <5>1, <5>2, <5>3
      <4> QED
        BY <4>3, <4>4
    <3> QED
      BY <2>0, <3>4, <3>5 DEF JournalInv, At, Stage
  <2> QED
    BY <2>1, <2>2
\* One client moves on, its record left alone.
<1>7. ASSUME NEW a \in Start, NEW k \in PairId, NEW state \in ClientState, Becomes(a, k, state),
             UNCHANGED <<journal, starts, script>>,
             \/ state = "failed"
             \/ Client(a, k) = "sending" /\ state \in {"lost", "running"}
             \/ Stored(StageOf(a), k) = a /\ state = "done"
      PROVE  JournalInv'
  <2>1. /\ \A b \in Start : StageOf(b)' = StageOf(b)
        /\ \A b \in Start, j \in PairId : Client(b, j)' = IF b = a /\ j = k THEN state ELSE Client(b, j)
    BY <1>0, <1>7, BecomesFacts
  <2> QED
    BY <1>2, <1>7, <2>1
<1>8. ASSUME NEW r \in Role, StartScript(r) \/ KillScript(r) \/ FinishScript(r) PROVE JournalInv'
  <2>1. UNCHANGED <<journal, clients>>
    BY <1>8 DEF StartScript, KillScript, FinishScript
  <2>2. CASE r = "server"
    BY <1>0, <1>1, <1>8, <2>1, <2>2, ScriptMoves
  <2>3. CASE r = "client" /\ ~ StartScript("client")
    <3>1. At("client", "down")' /\ UNCHANGED starts
      BY <1>8, <2>3, ScriptMoves
    <3> QED
      BY <1>2, <2>1, <3>1 DEF StageOf, Client
  <2> QED
    BY <1>0, <1>3, <2>2, <2>3
<1>9. CASE FailClientStage
  <2>1. UNCHANGED <<journal, starts>> /\ At("client", "down")'
    BY <1>9, ScriptMoves DEF FailClientStage
  <2> QED
    BY <1>2, <1>9, <2>1, KilledFacts
<1>10. CASE SpawnGateway \/ CollectGateway \/ FailServerStage
  BY <1>1, <1>10, ScriptMoves DEF SpawnGateway, CollectGateway, FailServerStage, Retained
<1>11. ASSUME NEW a \in Start, NEW k \in PairId, Reach(a, k) \/ Acknowledge(a, k) \/ Query(a, k) \/ FailClient(a, k)
       PROVE  JournalInv'
  <2>1. {"running", "lost", "done", "failed"} \subseteq ClientState
    BY DEF ClientState
  <2>2. UNCHANGED <<journal, starts, script>>
    BY <1>11 DEF Reach, Acknowledge, Query, FailClient
  <2>3. Client(a, k) = "waiting" => Stored(StageOf(a), k) = a
    BY <1>0 DEF JournalInv
  <2>4. CASE UNCHANGED clients
    BY <1>1, <2>2, <2>4
  <2>5. CASE ~ UNCHANGED clients
    BY <1>7, <1>11, <2>1, <2>2, <2>3, <2>5 DEF Reach, Acknowledge, Query, FailClient, Stored, StageOf
  <2> QED
    BY <2>4, <2>5
<1>12. ASSUME NEW k \in PairId, Abort(k) PROVE JournalInv'
  <2>1. port.route[k].client \in Start /\ "failed" \in ClientState
    BY <1>12 DEF IInv, RoutesInv, Abort, ClientState
  <2> QED
    BY <1>1, <1>7, <1>12, <2>1 DEF Abort
<1>13. CASE EndGateway \/ FailGateway
  BY <1>1, <1>13 DEF EndGateway, FailGateway
<1> QED
  BY <1>1, <1>4, <1>5, <1>6, <1>8, <1>9, <1>10, <1>11, <1>12, <1>13, StepCases DEF vars, NativeActions

\* The client of a running route runs until the route ends, or fails.
RunningIs(g) ==
    \A k \in PairId : g.route[k].state = "running" =>
        LET a == g.route[k].client
        IN  a \in Start /\ StageOf(a) = g.stage /\ Client(a, k) \in {"running", "failed"}

LEMMA RoutesStep == IInv /\ [Next]_vars => RoutesInv'
<1> SUFFICES ASSUME IInv, [Next]_vars PROVE RoutesAre(port)' /\ RoutesAre(result)' /\ RunningIs(port)'
  BY DEF RoutesInv, RunningIs
<1>0. /\ TypeOK /\ ClientsInv /\ JournalInv /\ RoutesAre(port) /\ RoutesAre(result) /\ RunningIs(port)
      /\ port.stage \in StageIndex /\ result.stage \in StageIndex
      /\ \A i \in StageIndex, k \in PairId : Stored(i, k) # 0 => Stored(i, k)' = Stored(i, k)
      /\ 0 \notin Start
  BY RecordsStay DEF IInv, RoutesInv, RunningIs, TypeOK, GatewayType, Start
\* What the gateways' routes are, journal apart.
<1>1. ASSUME port' = Unbound PROVE RoutesAre(port)' /\ RunningIs(port)'
  BY <1>1 DEF RoutesAre, RunningIs, Unbound, Gateway, FreeRoute
<1>2. ASSUME result' = Unbound PROVE RoutesAre(result)'
  BY <1>2 DEF RoutesAre, Unbound, Gateway, FreeRoute
<1>3. \A i \in StageIndex, k \in PairId : journal[<<i, k>>] # 0 => journal'[<<i, k>>] = journal[<<i, k>>]
  BY <1>0 DEF Stored
<1>4. ASSUME UNCHANGED port PROVE RoutesAre(port)'
  BY <1>0, <1>3, <1>4 DEF RoutesAre, Stored
<1>5. ASSUME UNCHANGED result PROVE RoutesAre(result)'
  BY <1>0, <1>3, <1>5 DEF RoutesAre, Stored
\* The route of one pair changes.
<1>7. ASSUME port'.stage = port.stage, NEW k \in PairId, NEW a \in Start, NEW state \in {"running", "stored", "closed"},
             \A j \in PairId : port'.route[j] = IF j = k THEN [client |-> a, state |-> state] ELSE port.route[j],
             k \in Pairs(port.stage), state = "stored" => journal'[<<port.stage, k>>] = a
      PROVE  RoutesAre(port)'
  <2> DEFINE RouteIs(j) ==
        /\ port'.route[j].state = "free" => port'.route[j].client = 0
        /\ port'.route[j].state # "free" => j \in Pairs(port.stage)
        /\ port'.route[j].state = "stored" =>
             port'.route[j].client \in Start /\ journal'[<<port.stage, j>>] = port'.route[j].client
  <2>1. RouteIs(k)
    BY <1>7
  <2>2. ASSUME NEW j \in PairId, j # k PROVE RouteIs(j)
    <3>1. port'.route[j] = port.route[j]
      BY <1>7, <2>2
    <3>2. port.route[j].state = "stored" => port.route[j].client \in Start /\ journal[<<port.stage, j>>] = port.route[j].client
      BY <1>0 DEF RoutesAre, Stored
    <3>3. port.route[j].state = "stored" => journal'[<<port.stage, j>>] = port.route[j].client
      BY <1>0, <1>3, <3>2
    <3> QED
      BY <1>0, <3>1, <3>2, <3>3 DEF RoutesAre
  <2>3. \A j \in PairId : RouteIs(j)
    BY <2>1, <2>2
  <2> QED
    BY <1>7, <2>3 DEF RoutesAre, Stored
<1>8. ASSUME port'.stage = port.stage, NEW k \in PairId, NEW a \in Start, NEW state \in {"running", "stored", "closed"},
             \A j \in PairId : port'.route[j] = IF j = k THEN [client |-> a, state |-> state] ELSE port.route[j],
             state = "running" => StageOf(a) = port.stage /\ clients'[a].state[k] \in {"running", "failed"},
             \A b \in Start : StageOf(b)' = StageOf(b),
             \A b \in Start, j \in PairId : j # k => Client(b, j)' = Client(b, j) \/ Client(b, j)' = "failed"
      PROVE  RunningIs(port)'
  BY <1>0, <1>8 DEF RunningIs, StageOf, Client
<1>9. CASE UNCHANGED <<port, clients>>
  <2>1. RunningIs(port)'
    BY <1>0, <1>9 DEF RunningIs, StageOf, Client
  <2>2. CASE UNCHANGED result
    BY <1>4, <1>5, <1>9, <2>1, <2>2
  <2>3. CASE result' = Unbound
    BY <1>2, <1>4, <1>9, <2>1, <2>3
  <2>4. CASE result' # result /\ result' # Unbound
    BY <1>9, <2>4, StepCases DEF vars, StartScript, KillScript, FinishScript, SpawnClients,
       CollectClients, FailClientStage, SpawnGateway, CollectGateway, FailServerStage, NativeActions, Reach,
       Acknowledge, Query, FailClient, Store, Abort, EndGateway, FailGateway
  <2> QED
    BY <2>2, <2>3, <2>4
<1>10. CASE SpawnGateway \/ FailServerStage \/ EndGateway \/ FailGateway
  <2>1. RoutesAre(result)'
    <3>1. CASE result' = port
      <4>1. UNCHANGED journal
        BY <1>10 DEF SpawnGateway, FailServerStage, EndGateway, FailGateway, Retained
      <4> QED
        BY <1>0, <3>1, <4>1 DEF RoutesAre, Stored
    <3> QED
      BY <1>2, <1>5, <1>10, <3>1 DEF SpawnGateway, FailServerStage, EndGateway, FailGateway
  <2>2. CASE port' = Unbound
    BY <1>1, <2>1, <2>2
  <2>3. CASE UNCHANGED port
    <3>1. UNCHANGED clients
      BY <1>10 DEF SpawnGateway, FailServerStage, EndGateway, FailGateway
    <3> QED
      BY <1>9, <2>3, <3>1
  <2>4. CASE SpawnGateway /\ port' = Gateway(starts["server"], Stage("server"))
    BY <2>1, <2>4 DEF Gateway, FreeRoute, RoutesAre, RunningIs
  <2> QED
    BY <1>10, <2>2, <2>3, <2>4 DEF SpawnGateway, FailServerStage, EndGateway, FailGateway
<1>11. CASE SpawnClients
  <2>1. UNCHANGED <<port, result, starts>> /\ At("client", "between")
    BY <1>11 DEF SpawnClients
  <2>2. /\ starts["client"] \in Start
        /\ \A a \in Start, k \in PairId :
              a # starts["client"] => StageOf(a)' = StageOf(a) /\ Client(a, k)' = Client(a, k)
    BY <1>11, SpawnFacts
  <2>3. \A k \in PairId : Client(starts["client"], k) \in {"none", "done"}
    BY <1>0, <2>1 DEF ClientsInv
  <2>4. \A k \in PairId : port.route[k].state = "running" => port.route[k].client # starts["client"]
    BY <1>0, <2>3 DEF RunningIs
  <2>5. RunningIs(port)'
    BY <1>0, <2>1, <2>2, <2>4 DEF RunningIs, StageOf, Client
  <2> QED
    BY <1>4, <1>5, <2>1, <2>5
<1>12. CASE FailClientStage
  <2>1. UNCHANGED <<port, result>>
    BY <1>12 DEF FailClientStage
  <2>2. RunningIs(port)'
    BY <1>0, <1>12, <2>1, KilledFacts DEF RunningIs, StageOf, Client
  <2> QED
    BY <1>4, <1>5, <2>1, <2>2
\* One client moves on, the routes left alone.
<1>13. ASSUME UNCHANGED <<port, result>>, NEW a \in Start, NEW k \in PairId, NEW state \in ClientState, Becomes(a, k, state),
              state = "failed" \/ ~ (port.route[k].state = "running" /\ port.route[k].client = a)
       PROVE  RoutesAre(port)' /\ RoutesAre(result)' /\ RunningIs(port)'
  <2>1. /\ \A b \in Start : StageOf(b)' = StageOf(b)
        /\ \A b \in Start, j \in PairId : Client(b, j)' = IF b = a /\ j = k THEN state ELSE Client(b, j)
    BY <1>0, <1>13, BecomesFacts
  <2>2. RunningIs(port)'
    BY <1>0, <1>13, <2>1 DEF RunningIs, StageOf, Client
  <2> QED
    BY <1>4, <1>5, <1>13, <2>2
<1>14. ASSUME NEW a \in Start, NEW k \in PairId, Acknowledge(a, k) \/ FailClient(a, k)
       PROVE  RoutesAre(port)' /\ RoutesAre(result)' /\ RunningIs(port)'
  <2>1. {"done", "failed"} \subseteq ClientState
    BY DEF ClientState
  <2>2. Client(a, k) = "waiting" => ~ (port.route[k].state = "running" /\ port.route[k].client = a)
    BY <1>0 DEF RunningIs
  <2> QED
    BY <1>13, <1>14, <2>1, <2>2 DEF Acknowledge, FailClient
<1>15. ASSUME NEW a \in Start, NEW k \in PairId, Reach(a, k)
       PROVE  RoutesAre(port)' /\ RoutesAre(result)' /\ RunningIs(port)'
  <2>1. {"running", "lost"} \subseteq ClientState /\ [client |-> a, state |-> "running"] \in [client : 0 .. MaxStarts, state : RouteState]
    BY BoundTypes DEF ClientState, RouteState, Start
  <2>2. Client(a, k) = "sending" /\ UNCHANGED result
    BY <1>15 DEF Reach
  <2>3. CASE Becomes(a, k, "lost") /\ UNCHANGED port
    BY <1>0, <1>13, <2>1, <2>2, <2>3 DEF RunningIs
  <2>4. CASE /\ port.stage = clients[a].stage /\ Becomes(a, k, "running")
             /\ Routed(k, [client |-> a, state |-> "running"])
    <3>1. /\ \A b \in Start : StageOf(b)' = StageOf(b)
          /\ \A b \in Start, j \in PairId : Client(b, j)' = IF b = a /\ j = k THEN "running" ELSE Client(b, j)
      BY <1>0, <2>1, <2>4, BecomesFacts
    <3>2. /\ port'.stage = port.stage
          /\ \A j \in PairId : port'.route[j] = IF j = k THEN [client |-> a, state |-> "running"] ELSE port.route[j]
      BY <1>0, <2>1, <2>4, RoutedFacts
    <3>3. k \in Pairs(port.stage) /\ StageOf(a) = port.stage /\ clients'[a].state[k] = "running"
      BY <1>0, <2>2, <2>4, <3>1 DEF ClientsInv, StageOf, Client
    <3>4. RoutesAre(port)'
      BY <1>7, <3>2, <3>3
    <3>5. RunningIs(port)'
      BY <1>8, <3>1, <3>2, <3>3
    <3> QED
      BY <1>5, <2>2, <3>4, <3>5
  <2> QED
    BY <1>15, <2>3, <2>4 DEF Reach
<1>16. ASSUME NEW k \in PairId, Store(k)
       PROVE  RoutesAre(port)' /\ RoutesAre(result)' /\ RunningIs(port)'
  <2>1. PICK a : a = port.route[k].client
    OBVIOUS
  <2>2. /\ a \in Start /\ UNCHANGED result /\ k \in Pairs(port.stage)
        /\ \A b \in Start : StageOf(b)' = StageOf(b)
    BY <1>0, <1>16, <2>1, StoreFacts DEF Store, RoutesAre
  <2>3. CASE port' = Unbound
    BY <1>1, <1>5, <2>2, <2>3
  <2>4. CASE Stores(a, k)
    <3>1. /\ port'.stage = port.stage /\ journal'[<<port.stage, k>>] = a
          /\ \A j \in PairId : port'.route[j] = IF j = k THEN [client |-> a, state |-> "stored"] ELSE port.route[j]
      BY <1>0, <2>4 DEF Stores, Stored
    <3>2. \A b \in Start, j \in PairId : j # k => Client(b, j)' = Client(b, j)
      BY <2>4 DEF Stores
    <3>3. RoutesAre(port)'
      BY <1>7, <2>2, <3>1
    <3>4. RunningIs(port)'
      BY <1>8, <2>2, <3>1, <3>2
    <3> QED
      BY <1>5, <2>2, <3>3, <3>4
  <2> QED
    BY <1>16, <2>1, <2>3, <2>4, StoreFacts
<1>17. ASSUME NEW k \in PairId, Abort(k)
       PROVE  RoutesAre(port)' /\ RoutesAre(result)' /\ RunningIs(port)'
  <2>1. PICK a : a = port.route[k].client
    OBVIOUS
  <2>2. /\ a \in Start /\ UNCHANGED result /\ k \in Pairs(port.stage) /\ Routed(k, [client |-> a, state |-> "closed"])
    BY <1>0, <1>17, <2>1 DEF Abort, RoutesAre, RunningIs
  <2>3. [client |-> a, state |-> "closed"] \in [client : 0 .. MaxStarts, state : RouteState] /\ "failed" \in ClientState
    BY <2>2, BoundTypes DEF ClientState, RouteState, Start
  <2>4. /\ port'.stage = port.stage
        /\ \A j \in PairId : port'.route[j] = IF j = k THEN [client |-> a, state |-> "closed"] ELSE port.route[j]
    BY <1>0, <2>2, <2>3, RoutedFacts
  <2>5. /\ \A b \in Start : StageOf(b)' = StageOf(b)
        /\ \A b \in Start, j \in PairId : j # k => Client(b, j)' = Client(b, j)
    <3>1. CASE Becomes(a, k, "failed")
      BY <1>0, <2>2, <2>3, <3>1, BecomesFacts
    <3>2. CASE UNCHANGED clients
      BY <3>2 DEF StageOf, Client
    <3> QED
      BY <1>17, <2>1, <3>1, <3>2 DEF Abort
  <2>6. RoutesAre(port)'
    BY <1>7, <2>2, <2>4
  <2>7. RunningIs(port)'
    BY <1>8, <2>2, <2>4, <2>5
  <2> QED
    BY <1>5, <2>2, <2>6, <2>7
<1>18. ASSUME NEW a \in Start, NEW k \in PairId, Query(a, k)
       PROVE  RoutesAre(port)' /\ RoutesAre(result)' /\ RunningIs(port)'
  <2>1. /\ UNCHANGED <<result, journal>> /\ port.stage = StageOf(a) /\ Client(a, k) \in {"running", "waiting"}
        /\ k \in Pairs(port.stage)
    BY <1>0, <1>18 DEF Query, StageOf, ClientsInv
  <2>2. Client(a, k) = "running" => Stored(StageOf(a), k) # a
    BY <1>0 DEF JournalInv
  <2>3. /\ \A b \in Start : StageOf(b)' = StageOf(b)
        /\ \A b \in Start, j \in PairId :
              Client(b, j)' = Client(b, j) \/ (b = a /\ j = k /\ Client(a, k) = "waiting")
    <3>1. CASE UNCHANGED clients
      BY <3>1 DEF StageOf, Client
    <3>2. CASE Becomes(a, k, "done") /\ journal[<<clients[a].stage, k>>] = a
      <4>1. "done" \in ClientState
        BY DEF ClientState
      <4>2. /\ \A b \in Start : StageOf(b)' = StageOf(b)
            /\ \A b \in Start, j \in PairId : Client(b, j)' = IF b = a /\ j = k THEN "done" ELSE Client(b, j)
        BY <1>0, <3>2, <4>1, BecomesFacts
      <4> QED
        BY <2>1, <2>2, <3>2, <4>2 DEF Stored, StageOf
    <3> QED
      BY <1>18, <3>1, <3>2 DEF Query
  <2>4. Client(a, k) = "waiting" => ~ (port.route[k].state = "running" /\ port.route[k].client = a)
    BY <1>0 DEF RunningIs
  <2>5. PICK route :
           /\ port' = [port EXCEPT !.queried = TRUE, !.route[k] = route]
           /\ route = port.route[k] \/ (port.route[k].state = "free" /\ route = [client |-> a, state |-> "closed"])
    BY <1>18 DEF Query
  <2>6. port'.stage = port.stage /\ \A j \in PairId : port'.route[j] = IF j = k THEN route ELSE port.route[j]
    <3>1. port \in GatewayType
      BY <1>0 DEF TypeOK
    <3>2. port' = [port EXCEPT !.queried = TRUE, !.route = [port.route EXCEPT ![k] = route]]
      BY <2>5, <3>1 DEF GatewayType
    <3> QED
      BY <3>1, <3>2 DEF GatewayType
  <2>7. RoutesAre(port)'
    <3>1. CASE route = port.route[k]
      <4>1. \A j \in PairId : port'.route[j] = port.route[j]
        BY <2>6, <3>1
      <4> QED
        BY <1>0, <2>1, <2>6, <4>1 DEF RoutesAre, Stored
    <3>2. CASE route = [client |-> a, state |-> "closed"]
      BY <1>7, <2>1, <2>6, <3>2
    <3> QED
      BY <2>5, <3>1, <3>2
  <2>8. RunningIs(port)'
    <3>1. \A j \in PairId : port'.route[j].state = "running" => port'.route[j] = port.route[j]
      BY <2>5, <2>6
    <3> QED
      BY <1>0, <2>3, <2>4, <2>6, <3>1 DEF RunningIs, StageOf, Client
  <2> QED
    BY <1>5, <2>1, <2>7, <2>8
<1>19. CASE \E r \in Role : StartScript(r) \/ KillScript(r) \/ FinishScript(r)
  BY <1>9, <1>19 DEF StartScript, KillScript, FinishScript
<1>20. CASE UNCHANGED vars \/ CollectClients \/ CollectGateway
  BY <1>9, <1>20 DEF vars, CollectClients, CollectGateway
<1> QED
  BY <1>10, <1>11, <1>12, <1>14, <1>15, <1>16, <1>17, <1>18, <1>19, <1>20, StepCases DEF NativeActions

LEMMA GatewayStep == IInv /\ [Next]_vars => GatewayInv'
<1> SUFFICES ASSUME IInv, [Next]_vars PROVE GatewayInv'
  OBVIOUS
<1>0. /\ TypeOK /\ ClientsInv /\ GatewayInv /\ Role = {"client", "server"} /\ starts \in [Role -> 0 .. MaxStarts]
      /\ port.start \in Int /\ Unbound.start = 0 /\ starts["server"] \in Int
      /\ script["server"].at \in {"down", "between", "running"}
      /\ ~ At("server", "down") => starts["server"] # 0
  BY DEF IInv, TypeOK, Role, GatewayType, Unbound, Gateway, ClientsInv, Start
<1>1. CASE script'["server"] = script["server"] /\ starts'["server"] = starts["server"]
  <2>1. CASE /\ port'.start = port.start /\ port'.stage = port.stage /\ UNCHANGED result
    BY <1>0, <1>1, <2>1 DEF GatewayInv, At, Stage
  <2>2. CASE port' = Unbound /\ UNCHANGED result
    BY <1>0, <1>1, <2>2 DEF GatewayInv, At, Stage
  <2>3. CASE EndGateway
    BY <1>0, <1>1, <2>3 DEF EndGateway, GatewayInv, At, Stage
  <2>4. CASE SpawnGateway \/ CollectGateway \/ FailServerStage
    BY <1>0, <1>1, <2>4, ScriptMoves DEF SpawnGateway, CollectGateway, FailServerStage, At
  <2>5. CASE \E r \in Role : StartScript(r) \/ KillScript(r) \/ FinishScript(r)
    <3>1. UNCHANGED port /\ (UNCHANGED result \/ KillScript("server"))
      BY <1>0, <2>5 DEF StartScript, KillScript, FinishScript
    <3>2. ~ KillScript("server")
      BY <1>0, <1>1, ScriptMoves DEF KillScript, At
    <3> QED
      BY <2>1, <3>1, <3>2
  <2>6. CASE NativeActions /\ ~ EndGateway /\ ~ FailGateway
    <3>1. UNCHANGED result
      BY <2>6 DEF NativeActions, Reach, Acknowledge, Query, FailClient, Store, Abort
    <3>2. \/ UNCHANGED port \/ port' = Unbound
          \/ \E k \in PairId : \E route : Routed(k, route)
          \/ \E k \in PairId : \E route : port' = [port EXCEPT !.queried = TRUE, !.route[k] = route]
      BY <2>6 DEF NativeActions, Reach, Acknowledge, Query, FailClient, Store, Abort
    <3>3. (port'.start = port.start /\ port'.stage = port.stage) \/ port' = Unbound
      BY <1>0, <3>2 DEF Routed, TypeOK, GatewayType
    <3> QED
      BY <2>1, <2>2, <3>1, <3>3
  <2> QED
    BY <2>1, <2>2, <2>3, <2>4, <2>5, <2>6, StepCases DEF vars, SpawnClients, CollectClients, FailClientStage,
       FailGateway
<1>2. CASE StartScript("server")
  <2>1. UNCHANGED <<port, result>> /\ At("server", "between")' /\ starts'["server"] = starts["server"] + 1 /\ At("server", "down")
    BY <1>0, <1>2, ScriptMoves DEF StartScript
  <2> QED
    BY <1>0, <2>1 DEF GatewayInv, At
<1>3. CASE KillScript("server") \/ FinishScript("server")
  <2>1. UNCHANGED <<port, starts>> /\ At("server", "down")' /\ result' = Unbound
    BY <1>0, <1>3, ScriptMoves DEF KillScript, FinishScript, GatewayInv, At
  <2> QED
    BY <1>0, <2>1 DEF GatewayInv, At
<1>4. CASE SpawnGateway
  <2>1. UNCHANGED <<result, starts>> /\ At("server", "running")' /\ Stage("server")' = Stage("server")
        /\ At("server", "between")
    BY <1>4, ScriptMoves DEF SpawnGateway
  <2>2. result = Unbound /\ port.start # starts["server"] /\ starts["server"] # 0
    BY <1>0, <2>1 DEF GatewayInv, At
  <2>3. port' = port \/ (port'.start = starts["server"] /\ port'.stage = Stage("server"))
    BY <1>4 DEF SpawnGateway, Gateway
  <2> QED
    BY <1>0, <2>1, <2>2, <2>3 DEF GatewayInv, At
<1>5. CASE CollectGateway
  <2>1. UNCHANGED <<port, starts>> /\ At("server", "between")' /\ result' = Unbound
        /\ At("server", "running") /\ result.start = starts["server"]
    BY <1>5, ScriptMoves DEF CollectGateway
  <2> QED
    BY <1>0, <2>1 DEF GatewayInv, At
<1>6. CASE FailServerStage
  <2>1. UNCHANGED starts /\ At("server", "down")' /\ result' = Unbound /\ (port' = port \/ port' = Unbound)
    BY <1>6, ScriptMoves DEF FailServerStage
  <2> QED
    BY <1>0, <2>1 DEF GatewayInv, At
<1>7. CASE NativeActions
  BY <1>1, <1>7, ScriptsFrame
<1>8. CASE UNCHANGED vars \/ SpawnClients \/ CollectClients \/ FailClientStage
  BY <1>1, <1>8, ScriptMoves DEF vars
<1>9. CASE \E r \in Role : StartScript(r) \/ KillScript(r) \/ FinishScript(r)
  BY <1>0, <1>1, <1>2, <1>3, <1>9, ScriptMoves
<1> QED
  BY <1>4, <1>5, <1>6, <1>7, <1>8, <1>9, StepCases

LEMMA ReportsStep == IInv /\ [Next]_vars => ReportsInv'
<1> SUFFICES ASSUME IInv, [Next]_vars PROVE ReportsInv'
  OBVIOUS
<1>0. TypeOK /\ ClientsInv /\ ReportsInv /\ "client" \in Role /\ "server" \in Role
  BY DEF IInv, Role
\* A row that is true stays true.
<1>1. ASSUME NEW row, row.stage \in StageIndex, RowTrue(row) PROVE RowTrue(row)'
  <2>1. \A k \in PairId : Stored(row.stage, k) # 0 => Stored(row.stage, k)' = Stored(row.stage, k)
    BY <1>1, RecordsStay
  <2> QED
    BY <1>1, <2>1 DEF RowTrue
<1>2. ASSUME NEW r \in Role, NEW a \in Start, NEW x \in DOMAIN reports[r][a]
      PROVE  reports[r][a][x].stage \in StageIndex /\ RowTrue(reports[r][a][x])
  <2>1. reports[r][a] \in Seq(Sample)
    BY <1>0 DEF TypeOK
  <2>2. reports[r][a][x] \in Sample
    BY <2>1
  <2> QED
    BY <1>0, <2>2 DEF ReportsInv, Sample, Measured
<1>3. ASSUME NEW row, row.stage \in StageIndex, RowTrue(row),
             \A r \in Role, a \in Start : \A x \in DOMAIN reports'[r][a] :
                \/ x \in DOMAIN reports[r][a] /\ reports'[r][a][x] = reports[r][a][x]
                \/ reports'[r][a][x] = row
      PROVE  ReportsInv'
  <2> SUFFICES ASSUME NEW r \in Role, NEW a \in Start, NEW x \in DOMAIN reports'[r][a]
               PROVE  RowTrue(reports[r][a][x])'
    BY DEF ReportsInv
  <2>1. PICK new : new = reports'[r][a][x]
    OBVIOUS
  <2>2. new.stage \in StageIndex /\ RowTrue(new)
    BY <1>2, <1>3, <2>1
  <2>3. RowTrue(new)'
    BY <1>1, <2>2
  <2> QED
    BY <2>1, <2>3 DEF RowTrue, Stored
<1>4. CASE CollectClients
  <2>1. /\ starts["client"] \in Start /\ Stage("client") \in StageIndex
        /\ StageOf(starts["client"]) = Stage("client") /\ ClientsAre({"done"})
    BY <1>0, <1>4 DEF CollectClients, ClientsInv, At, Stage, TypeOK
  <2>2. PICK row : row = [stage |-> Stage("client"),
                          arcs |-> [k \in PairId |-> IF k \in Pairs(Stage("client")) THEN starts["client"] ELSE 0]]
    OBVIOUS
  <2>3. starts["client"] \in 0 .. MaxStarts /\ 0 \in 0 .. MaxStarts /\ starts["client"] # 0
    BY <2>1, BoundTypes DEF Start
  <2>4. \A r \in Role, a \in Start : \A x \in DOMAIN reports'[r][a] :
           \/ x \in DOMAIN reports[r][a] /\ reports'[r][a][x] = reports[r][a][x]
           \/ reports'[r][a][x] = row
    <3>1. row.arcs \in [PairId -> 0 .. MaxStarts]
      BY <2>2, <2>3
    <3>2. Write("client", Stage("client"), row.arcs) /\ row = [stage |-> Stage("client"), arcs |-> row.arcs]
      BY <1>4, <2>2 DEF CollectClients
    <3> QED
      BY <1>0, <2>1, <3>1, <3>2, WriteFacts
  <2>5. RowTrue(row)
    <3>1. ASSUME NEW k \in Pairs(Stage("client")) PROVE k \in PairId /\ Stored(Stage("client"), k) = starts["client"]
      <4>1. Client(starts["client"], k) = "done" /\ k \in PairId
        BY <2>1, BoundTypes DEF ClientsAre, Own, Client
      <4> QED
        BY <2>1, <4>1 DEF IInv, JournalInv
    <3> QED
      BY <2>2, <2>3, <3>1 DEF RowTrue
  <2> QED
    BY <1>3, <2>1, <2>2, <2>4, <2>5
<1>5. CASE CollectGateway
  <2>1. /\ starts["server"] \in Start /\ Stage("server") \in StageIndex
        /\ result.stage = Stage("server") /\ PoolComplete(result, Stage("server"))
        /\ RoutesAre(result)
    BY <1>0, <1>5 DEF CollectGateway, IInv, ClientsInv, GatewayInv, RoutesInv, At, Stage, TypeOK
  <2>2. PICK row : row = [stage |-> Stage("server"), arcs |-> [k \in PairId |-> result.route[k].client]]
    OBVIOUS
  <2>3. \A r \in Role, a \in Start : \A x \in DOMAIN reports'[r][a] :
           \/ x \in DOMAIN reports[r][a] /\ reports'[r][a][x] = reports[r][a][x]
           \/ reports'[r][a][x] = row
    <3>1. row.arcs \in [PairId -> 0 .. MaxStarts]
      BY <1>0, <2>2 DEF TypeOK, GatewayType
    <3>2. Write("server", Stage("server"), row.arcs) /\ row = [stage |-> Stage("server"), arcs |-> row.arcs]
      BY <1>5, <2>2 DEF CollectGateway
    <3> QED
      BY <1>0, <2>1, <3>1, <3>2, WriteFacts
  <2>4. RowTrue(row)
    <3>1. ASSUME NEW k \in PairId
          PROVE  IF k \in Pairs(Stage("server"))
                   THEN Stored(Stage("server"), k) # 0 /\ result.route[k].client = Stored(Stage("server"), k)
                   ELSE result.route[k].client = 0
      BY <2>1 DEF RoutesAre, PoolComplete, Start
    <3> QED
      BY <2>2, <3>1 DEF RowTrue
  <2> QED
    BY <1>3, <2>1, <2>2, <2>3, <2>4
<1>6. CASE UNCHANGED reports
  <2>1. ASSUME NEW r \in Role, NEW a \in Start, NEW x \in DOMAIN reports'[r][a]
        PROVE  RowTrue(reports[r][a][x])'
    <3>1. PICK row : row = reports[r][a][x] /\ row = reports'[r][a][x]
      BY <1>6
    <3>2. row.stage \in StageIndex /\ RowTrue(row)
      BY <1>2, <1>6, <3>1
    <3>3. RowTrue(row)'
      BY <1>1, <3>2
    <3> QED
      BY <3>1, <3>3 DEF RowTrue, Stored
  <2> QED
    BY <2>1 DEF ReportsInv
<1> QED
  BY <1>4, <1>5, <1>6, StepCases DEF vars, StartScript, KillScript, FinishScript, SpawnClients, FailClientStage,
       SpawnGateway, FailServerStage, NativeActions, Reach, Acknowledge, Query, FailClient,
       Store, Abort, EndGateway, FailGateway

(* The inductive invariant of a campaign. *)
THEOREM CampaignInvariant == Spec => []IInv
<1>1. IInv /\ [Next]_vars => IInv'
  BY TypeStep, ClientsStep, JournalStep, RoutesStep, GatewayStep, ReportsStep DEF IInv
<1> QED
  BY <1>1, InitInv, PTL DEF Spec

(* Every variable of a campaign keeps its type: in particular a report holds
   measured stages alone (CloudCampaign.TypeOK). *)
THEOREM CampaignTypeCorrect == Spec => []TypeOK
<1>1. IInv => TypeOK
  BY DEF IInv
<1> QED
  BY <1>1, CampaignInvariant, PTL

\* Rows that agree with the journal agree with each other.
LEMMA InvOneExecution == IInv => OneExecution
<1> SUFFICES ASSUME IInv, NEW a \in Start, NEW b \in Start,
                    NEW x \in DOMAIN reports["client"][a], NEW y \in DOMAIN reports["server"][b],
                    reports["client"][a][x].stage = reports["server"][b][y].stage
             PROVE  reports["client"][a][x].arcs = reports["server"][b][y].arcs
  BY DEF OneExecution
<1>1. PICK c, s : c = reports["client"][a][x] /\ s = reports["server"][b][y]
  OBVIOUS
<1>2. c \in Sample /\ s \in Sample /\ RowTrue(c) /\ RowTrue(s)
  <2>1. "client" \in Role /\ "server" \in Role
    BY DEF Role
  <2>2. reports["client"][a] \in Seq(Sample) /\ reports["server"][b] \in Seq(Sample)
    BY <2>1 DEF IInv, TypeOK
  <2> QED
    BY <1>1, <2>1, <2>2 DEF IInv, ReportsInv
<1>3. \A k \in PairId : c.arcs[k] = s.arcs[k]
  BY <1>1, <1>2 DEF RowTrue
<1> QED
  BY <1>1, <1>2, <1>3 DEF Sample

(* What both endpoints report of a stage is one execution, for every schedule
   and however often either script was killed and started again. *)
THEOREM CampaignOneExecution == Spec => []OneExecution
BY InvOneExecution, CampaignInvariant, PTL

-----------------------------------------------------------------------------
(* The schedule *)

\* Division with remainder.
LEMMA DivModFacts ==
    ASSUME NEW a \in Nat, NEW d \in Nat \ {0}
    PROVE  /\ a \div d \in Nat /\ a % d \in 0 .. d - 1
           /\ a = (a \div d) * d + (a % d)
OBVIOUS

\* Rows of a table do not overlap.
LEMMA Times ==
    ASSUME NEW a \in Nat, NEW b \in Nat, NEW d \in Nat, a < b
    PROVE  a * d \in Nat /\ b * d \in Nat /\ a * d + d <= b * d
OBVIOUS

\* Quotient and remainder are determined.
LEMMA DivModUnique ==
    ASSUME NEW d \in Nat \ {0}, NEW q \in Nat, NEW r \in 0 .. d - 1,
           NEW s \in Nat, NEW t \in 0 .. d - 1, q * d + r = s * d + t
    PROVE  q = s /\ r = t
<1>1. q * d \in Nat /\ s * d \in Nat
  OBVIOUS
<1>2. ~ q < s
  <2> SUFFICES ASSUME q < s PROVE FALSE
    OBVIOUS
  <2>1. q * d + d <= s * d
    BY Times
  <2> QED
    BY <1>1, <2>1
<1>3. ~ s < q
  <2> SUFFICES ASSUME s < q PROVE FALSE
    OBVIOUS
  <2>1. s * d + d <= q * d
    BY Times
  <2> QED
    BY <1>1, <2>1
<1>4. q = s
  BY <1>2, <1>3
<1> QED
  BY <1>1, <1>4

\* The lengths of the nested loops of make_stages.
Rounds == Warmup + Trials
Sizes == Len(Participants)

\* None of the loops is empty.
LEMMA LoopLengths ==
    /\ Sizes \in Nat \ {0} /\ PairCount \in Nat \ {0} /\ Rounds \in Nat \ {0} /\ M \in Nat \ {0}
    /\ RoundLength = Rounds * M /\ RoundLength \in Nat \ {0}
    /\ StageCount = (Sizes * PairCount) * RoundLength /\ StageCount \in Nat
    /\ Sizes * PairCount \in Nat
<1>1. /\ Sizes \in Nat \ {0} /\ Rounds \in Nat \ {0} /\ M \in Nat \ {0}
  BY ArgumentsAssumption DEF ValidArguments, Rounds, Sizes
<1>2. PairCount \in Nat \ {0}
  BY ArgumentsAssumption DEF ValidArguments, PairCount
<1>3. RoundLength = Rounds * M
  BY DEF RoundLength, Rounds
<1> HIDE DEF M
<1>4. Rounds * M \in Nat \ {0} /\ Sizes * PairCount \in Nat
  BY <1>1, <1>2
<1>5. StageCount = (Sizes * PairCount) * RoundLength
  BY DEF StageCount, Sizes
<1>6. (Sizes * PairCount) * RoundLength \in Nat
  BY <1>3, <1>4
<1> QED
  BY <1>1, <1>2, <1>3, <1>4, <1>5, <1>6

\* Where the loops are in their x-th size, y-th number of pairs, u-th round and
\* mode number pos, and the stage they make there.
Place(x, y, u, pos) == ((x - 1) * PairCount + (y - 1)) * RoundLength + (u * M + pos)
Cell(x, y, u, pos) ==
    LET n     == Participants[x]
        p     == PairValues(n)[y]
        warm  == u < Warmup
        trial == IF warm THEN u ELSE u - Warmup
    IN  [participants |-> n, pairs |-> p, warmup |-> warm, trial |-> trial,
         mode |-> OrderedModes(<<n, p>>, warm, trial)[1 + pos], position |-> pos]

\* An element of a table, as division and remainder find it again.
LEMMA DivModOf ==
    ASSUME NEW d \in Nat \ {0}, NEW q \in Nat, NEW r \in 0 .. d - 1
    PROVE  (q * d + r) \div d = q /\ (q * d + r) % d = r
<1>1. q * d \in Nat
  OBVIOUS
<1> DEFINE a == q * d + r
<1>2. a \in Nat
  BY <1>1
<1> HIDE DEF a
<1>3. /\ a \div d \in Nat /\ a % d \in 0 .. d - 1
      /\ a = (a \div d) * d + (a % d)
  BY <1>2, DivModFacts
<1>4. q * d + r = (a \div d) * d + (a % d)
  BY <1>3 DEF a
<1>5. q = a \div d /\ r = a % d
  BY <1>3, <1>4, DivModUnique
<1> QED
  BY <1>5 DEF a

\* And it lies in the table.
LEMMA TableBound ==
    ASSUME NEW d \in Nat \ {0}, NEW n \in Nat, NEW q \in 0 .. n - 1, NEW r \in 0 .. d - 1
    PROVE  q * d \in Nat /\ n * d \in Nat /\ q * d + r \in 0 .. n * d - 1
<1>1. q * d \in Nat /\ n * d \in Nat /\ q * d + d <= n * d
  BY Times
<1> QED
  BY <1>1

(* The loops visit every place, and what they make there. *)
LEMMA StageOfPlace ==
    ASSUME NEW x \in 1 .. Sizes, NEW y \in 1 .. PairCount, NEW u \in 0 .. Rounds - 1, NEW pos \in 0 .. M - 1
    PROVE  /\ Place(x, y, u, pos) \in StageIndex
           /\ StageAt(Place(x, y, u, pos)) = Cell(x, y, u, pos)
<1> DEFINE b == (x - 1) * PairCount + (y - 1)
           r == u * M + pos
           i == b * RoundLength + r
<1>1. /\ Sizes \in Nat \ {0} /\ PairCount \in Nat \ {0} /\ Rounds \in Nat \ {0} /\ M \in Nat \ {0}
      /\ RoundLength = Rounds * M /\ RoundLength \in Nat \ {0}
      /\ StageCount = (Sizes * PairCount) * RoundLength /\ StageCount \in Nat
      /\ Sizes * PairCount \in Nat
  BY LoopLengths
<1> HIDE DEF M
<1>2. x - 1 \in 0 .. Sizes - 1 /\ y - 1 \in 0 .. PairCount - 1 /\ x - 1 \in Nat
  BY <1>1
<1>3. b \in 0 .. Sizes * PairCount - 1 /\ b \div PairCount = x - 1 /\ b % PairCount = y - 1
  <2> DEFINE v == x - 1
             w == y - 1
  <2>1. v \in 0 .. Sizes - 1 /\ w \in 0 .. PairCount - 1 /\ v \in Nat
    BY <1>2
  <2>2. b = v * PairCount + w
    OBVIOUS
  <2>3. Sizes \in Nat
    BY <1>1
  <2> HIDE DEF v, w, b
  <2>4. b \in 0 .. Sizes * PairCount - 1
    BY <1>1, <2>1, <2>2, <2>3, TableBound
  <2>5. b \div PairCount = v /\ b % PairCount = w
    BY <1>1, <2>1, <2>2, DivModOf
  <2> QED
    BY <2>4, <2>5 DEF v, w
<1>4. u \in Nat
  BY <1>1
<1>5. r \in 0 .. RoundLength - 1 /\ r \div M = u /\ r % M = pos
  BY <1>1, <1>4, TableBound, DivModOf
<1> HIDE DEF b, r
<1>6. b \in Nat
  BY <1>1, <1>3
<1>7. i \in 0 .. StageCount - 1 /\ i \div RoundLength = b /\ i % RoundLength = r
  BY <1>1, <1>3, <1>5, <1>6, TableBound, DivModOf
<1>8. i % M = pos
  <2> DEFINE c == b * Rounds + u
  <2>1. c \in Nat
    BY <1>1, <1>4, <1>6
  <2>2. i = c * M + pos
    BY <1>1, <1>4, <1>6 DEF r
  <2> HIDE DEF c, i
  <2> QED
    BY <1>1, <2>1, <2>2, DivModOf
<1>9. Place(x, y, u, pos) = i
  BY DEF Place, b, r
<1> HIDE DEF i
<1>10. 1 + (x - 1) = x /\ 1 + (y - 1) = y
  BY <1>1
<1>11. StageAt(i) = Cell(x, y, u, pos)
  BY <1>3, <1>5, <1>7, <1>8, <1>10 DEF StageAt, Cell
<1> QED
  BY <1>7, <1>9, <1>11 DEF StageIndex

(* And every stage is made at one place. *)
LEMMA PlaceOfStage ==
    ASSUME NEW i \in StageIndex
    PROVE  \E x \in 1 .. Sizes, y \in 1 .. PairCount, u \in 0 .. Rounds - 1, pos \in 0 .. M - 1 :
              i = Place(x, y, u, pos)
<1>1. /\ Sizes \in Nat \ {0} /\ PairCount \in Nat \ {0} /\ Rounds \in Nat \ {0} /\ M \in Nat \ {0}
      /\ RoundLength = Rounds * M /\ RoundLength \in Nat \ {0}
      /\ StageCount = (Sizes * PairCount) * RoundLength /\ StageCount \in Nat
      /\ Sizes * PairCount \in Nat
  BY LoopLengths
<1> HIDE DEF M
<1>2. i \in Nat /\ i < StageCount
  BY <1>1 DEF StageIndex
<1> DEFINE b == i \div RoundLength
           r == i % RoundLength
<1>3. b \in Nat /\ r \in 0 .. RoundLength - 1 /\ i = b * RoundLength + r
  BY <1>1, <1>2, DivModFacts
<1> HIDE DEF b, r
<1>4. b < Sizes * PairCount
  <2> SUFFICES ASSUME Sizes * PairCount <= b PROVE FALSE
    BY <1>1, <1>3
  <2>1. (Sizes * PairCount) * RoundLength <= b * RoundLength
    <3> DEFINE c == Sizes * PairCount
    <3>1. c \in Nat /\ c <= b /\ RoundLength \in Nat /\ b \in Nat
      BY <1>1, <1>3
    <3> HIDE DEF c
    <3>2. c * RoundLength <= b * RoundLength
      BY <3>1
    <3> QED
      BY <3>2 DEF c
  <2>2. b * RoundLength \in Nat
    BY <1>1, <1>3
  <2> QED
    BY <1>1, <1>2, <1>3, <2>1, <2>2
<1> DEFINE x == b \div PairCount
           y == b % PairCount
           u == r \div M
           pos == r % M
<1>5. x \in Nat /\ y \in 0 .. PairCount - 1 /\ b = x * PairCount + y
  BY <1>1, <1>3, DivModFacts
<1>6. u \in Nat /\ pos \in 0 .. M - 1 /\ r = u * M + pos
  <2>1. r \in Nat
    BY <1>1, <1>3
  <2> QED
    BY <1>1, <2>1, DivModFacts
<1> HIDE DEF x, y, u, pos
<1>7. x < Sizes
  <2> SUFFICES ASSUME Sizes <= x PROVE FALSE
    BY <1>1, <1>5
  <2>1. Sizes * PairCount <= x * PairCount
    BY <1>1, <1>5
  <2>2. x * PairCount \in Nat
    BY <1>1, <1>5
  <2> QED
    BY <1>1, <1>3, <1>4, <1>5, <2>1, <2>2
<1>8. u < Rounds
  <2> SUFFICES ASSUME Rounds <= u PROVE FALSE
    BY <1>1, <1>6
  <2>1. Rounds * M <= u * M
    BY <1>1, <1>6
  <2>2. u * M \in Nat
    BY <1>1, <1>6
  <2> QED
    BY <1>1, <1>3, <1>6, <2>1, <2>2
<1>9. x + 1 \in 1 .. Sizes /\ y + 1 \in 1 .. PairCount /\ u \in 0 .. Rounds - 1
  BY <1>1, <1>5, <1>6, <1>7, <1>8
<1>10. (x + 1) - 1 = x /\ (y + 1) - 1 = y
  BY <1>5, <1>1
<1>11. i = Place(x + 1, y + 1, u, pos)
  BY <1>3, <1>5, <1>6, <1>10 DEF Place
<1> QED
  BY <1>6, <1>9, <1>11

\* The workloads are the sizes and numbers of pairs of the loops, once each.
LEMMA WorkloadPlaces ==
    /\ \A x \in 1 .. Sizes, y \in 1 .. PairCount :
          /\ <<Participants[x], PairValues(Participants[x])[y]>> \in Workload
          /\ Participants[x] \in Nat /\ PairValues(Participants[x])[y] \in Nat \ {0}
    /\ \A w \in Workload : \E x \in 1 .. Sizes, y \in 1 .. PairCount :
          w = <<Participants[x], PairValues(Participants[x])[y]>>
    /\ \A x, a \in 1 .. Sizes, y, b \in 1 .. PairCount :
          /\ Participants[x] = Participants[a]
          /\ PairValues(Participants[x])[y] = PairValues(Participants[a])[b]
          => x = a /\ y = b
<1>1. /\ Participants \in Seq(Nat) /\ DOMAIN Participants = 1 .. Sizes
      /\ \A x \in 1 .. Sizes : Participants[x] \in Nat /\ Participants[x] >= 3
      /\ \A x, a \in 1 .. Sizes : Participants[x] = Participants[a] => x = a
  BY ArgumentsAssumption DEF ValidArguments, Distinct, Sizes
<1>2. ASSUME NEW n \in Nat, n >= 3
      PROVE  /\ \A y \in 1 .. PairCount : PairValues(n)[y] \in Nat \ {0}
             /\ \A y, b \in 1 .. PairCount : PairValues(n)[y] = PairValues(n)[b] => y = b
  <2>1. CASE ConcurrentPairs = << >>
    <3>1. PairCount = 1 /\ PairValues(n) = <<n>>
      BY <2>1 DEF PairCount, PairValues
    <3> QED
      BY <1>2, <3>1
  <2>2. CASE ConcurrentPairs # << >>
    <3>1. PairCount = Len(ConcurrentPairs) /\ PairValues(n) = ConcurrentPairs
      BY <2>2 DEF PairCount, PairValues
    <3> DEFINE Allowed == 1 .. 4096
    <3>2. ConcurrentPairs \in Seq(Allowed) /\ Distinct(ConcurrentPairs)
      BY ArgumentsAssumption DEF ValidArguments
    <3>0. Allowed \subseteq Nat \ {0}
      OBVIOUS
    <3> HIDE DEF Allowed
    <3>3. DOMAIN ConcurrentPairs = 1 .. PairCount /\ \A y \in 1 .. PairCount : ConcurrentPairs[y] \in Allowed
      BY <3>1, <3>2
    <3>4. \A y \in 1 .. PairCount : PairValues(n)[y] \in Nat \ {0}
      BY <3>1, <3>3, <3>0
    <3>5. \A y, b \in 1 .. PairCount : ConcurrentPairs[y] = ConcurrentPairs[b] => y = b
      BY <3>2, <3>3 DEF Distinct
    <3>6. \A y, b \in 1 .. PairCount : PairValues(n)[y] = PairValues(n)[b] => y = b
      BY <3>1, <3>5
    <3> QED
      BY <3>4, <3>6
  <2> QED
    BY <2>1, <2>2
<1>3. \A x \in 1 .. Sizes, y \in 1 .. PairCount :
         <<Participants[x], PairValues(Participants[x])[y]>> \in Workload
  BY <1>1 DEF Workload
<1>4. \A w \in Workload : \E x \in 1 .. Sizes, y \in 1 .. PairCount :
         w = <<Participants[x], PairValues(Participants[x])[y]>>
  BY <1>1 DEF Workload
<1>5. \A x \in 1 .. Sizes, y \in 1 .. PairCount : PairValues(Participants[x])[y] \in Nat \ {0}
  BY <1>1, <1>2
<1>6. ASSUME NEW x \in 1 .. Sizes, NEW a \in 1 .. Sizes, NEW y \in 1 .. PairCount, NEW b \in 1 .. PairCount,
             Participants[x] = Participants[a],
             PairValues(Participants[x])[y] = PairValues(Participants[a])[b]
      PROVE  x = a /\ y = b
  <2>1. x = a /\ Participants[x] \in Nat /\ Participants[x] >= 3
    BY <1>1, <1>6
  <2>2. PairValues(Participants[x])[y] = PairValues(Participants[x])[b]
    BY <1>6, <2>1
  <2> QED
    BY <1>2, <2>1, <2>2
<1> QED
  BY <1>1, <1>3, <1>4, <1>5, <1>6

\* A rotation of a fixed order runs every mode once.
LEMMA ModesOnce ==
    ASSUME NEW w \in Workload, NEW warm \in BOOLEAN, NEW t \in Nat
    PROVE  /\ OrderedModes(w, warm, t) \in [1 .. M -> Modes]
           /\ \A i, j \in 1 .. M : OrderedModes(w, warm, t)[i] = OrderedModes(w, warm, t)[j] => i = j
           /\ \A mode \in Modes : \E i \in 1 .. M : OrderedModes(w, warm, t)[i] = mode
<1> DEFINE order == OrderedModes(w, warm, t)
           base  == HashOrder[<<warm, w>>]
<1>1. /\ M \in Nat \ {0} /\ IsFiniteSet(Modes)
      /\ IsFiniteSet(1 .. M) /\ Cardinality(1 .. M) = M /\ Cardinality(Modes) = M
  <2>1. M \in Nat \ {0} /\ IsFiniteSet(Modes) /\ Cardinality(Modes) = M
    BY ArgumentsAssumption DEF ValidArguments, M
  <2> HIDE DEF M
  <2>2. IsFiniteSet(1 .. M) /\ Cardinality(1 .. M) = M
    BY <2>1, FS_Interval
  <2> QED
    BY <2>1, <2>2
<1>2. /\ base \in [1 .. M -> Modes]
      /\ \A i, j \in 1 .. M : base[i] = base[j] => i = j
  BY HashOrderAssumption
<1>3. order = [i \in 1 .. M |-> base[1 + ((i - 1 + t) % M)]]
  BY DEF OrderedModes
<1> HIDE DEF M, base, order
<1>4. ASSUME NEW i \in 1 .. M
      PROVE  /\ i - 1 + t \in Nat
             /\ (i - 1 + t) \div M \in Nat /\ (i - 1 + t) % M \in 0 .. M - 1
             /\ i - 1 + t = ((i - 1 + t) \div M) * M + ((i - 1 + t) % M)
             /\ order[i] = base[1 + ((i - 1 + t) % M)]
             /\ 1 + ((i - 1 + t) % M) \in 1 .. M
  <2>1. i - 1 + t \in Nat
    BY <1>1
  <2>2. /\ (i - 1 + t) \div M \in Nat /\ (i - 1 + t) % M \in 0 .. M - 1
        /\ i - 1 + t = ((i - 1 + t) \div M) * M + ((i - 1 + t) % M)
    BY <1>1, <2>1, DivModFacts
  <2>3. 1 + ((i - 1 + t) % M) \in 1 .. M
    BY <1>1, <2>2
  <2> QED
    BY <1>3, <2>1, <2>2, <2>3
<1>5. order \in [1 .. M -> Modes]
  BY <1>2, <1>3, <1>4
<1>6. ASSUME NEW i \in 1 .. M, NEW j \in 1 .. M, order[i] = order[j]
      PROVE  ~ i < j
  <2> DEFINE q == (i - 1 + t) \div M
             s == (j - 1 + t) \div M
             r == (i - 1 + t) % M
  <2>1. (i - 1 + t) % M = (j - 1 + t) % M
    <3> DEFINE a == (i - 1 + t) % M
               c == (j - 1 + t) % M
    <3>1. a \in 0 .. M - 1 /\ c \in 0 .. M - 1 /\ order[i] = base[1 + a] /\ order[j] = base[1 + c]
          /\ 1 + a \in 1 .. M /\ 1 + c \in 1 .. M
      BY <1>4
    <3> HIDE DEF a, c
    <3>2. 1 + a = 1 + c
      BY <1>2, <1>6, <3>1
    <3>3. a = c
      BY <1>1, <3>1, <3>2
    <3> QED
      BY <3>3 DEF a, c
  <2>2. q \in Nat /\ s \in Nat /\ r \in 0 .. M - 1 /\ i - 1 + t = q * M + r /\ j - 1 + t = s * M + r
    BY <1>4, <2>1
  <2> HIDE DEF q, s, r
  <2> SUFFICES ASSUME i < j
               PROVE  FALSE
    OBVIOUS
  <2>3. q * M \in Nat /\ s * M \in Nat
    BY <1>1, <2>2
  <2>4. CASE q < s
    <3>1. q * M + M <= s * M
      BY <1>1, <2>2, <2>4, Times
    <3> QED
      BY <1>1, <2>2, <2>3, <3>1
  <2>5. CASE s <= q
    <3>1. s * M <= q * M
      BY <1>1, <2>2, <2>5
    <3> QED
      BY <1>1, <2>2, <2>3, <3>1
  <2> QED
    BY <2>2, <2>4, <2>5
<1>7. \A i, j \in 1 .. M : order[i] = order[j] => i = j
  BY <1>1, <1>6
<1>8. order \in Injection(1 .. M, Modes)
  BY <1>5, <1>7 DEF Injection, IsInjective
<1>9. order \in Surjection(1 .. M, Modes)
  BY <1>1, <1>8, FS_Injection
<1>10. \A mode \in Modes : \E i \in 1 .. M : order[i] = mode
  BY <1>9 DEF Surjection
<1> QED
  BY <1>5, <1>7, <1>10 DEF order

\* The cell and trial a stage measures, as indexed_samples tells samples apart.
KeyOf(i) == <<StageAt(i).participants, StageAt(i).pairs, StageAt(i).mode, StageAt(i).trial>>

\* What a place makes, by the sizes and numbers of pairs.
Makes(c, x, y, u, pos) ==
    /\ c.participants = Participants[x] /\ c.pairs = PairValues(Participants[x])[y]
    /\ <<c.participants, c.pairs>> \in Workload /\ c.pairs \in Nat \ {0}
    /\ c.warmup \in BOOLEAN /\ c.trial \in Nat
    /\ u < Warmup => c.warmup = TRUE /\ c.trial = u
    /\ ~ u < Warmup => c.warmup = FALSE /\ c.trial = u - Warmup /\ c.trial \in 0 .. Trials - 1
    /\ c.mode = OrderedModes(<<c.participants, c.pairs>>, c.warmup, c.trial)[1 + pos]
    /\ c.position = pos /\ 1 + pos \in 1 .. M /\ c.mode \in Modes

\* Every place makes such a stage.
LEMMA CellFacts ==
    ASSUME NEW x \in 1 .. Sizes, NEW y \in 1 .. PairCount, NEW u \in 0 .. Rounds - 1, NEW pos \in 0 .. M - 1
    PROVE  Makes(Cell(x, y, u, pos), x, y, u, pos)
<1> DEFINE c == Cell(x, y, u, pos)
<1>1. Trials \in Nat \ {0} /\ Warmup \in Nat /\ M \in Nat \ {0}
  BY ArgumentsAssumption DEF ValidArguments
<1> HIDE DEF M
<1>2. /\ c.participants = Participants[x] /\ c.pairs = PairValues(Participants[x])[y]
      /\ u < Warmup => c.warmup = TRUE /\ c.trial = u
      /\ ~ u < Warmup => c.warmup = FALSE /\ c.trial = u - Warmup
      /\ c.mode = OrderedModes(<<c.participants, c.pairs>>, c.warmup, c.trial)[1 + pos]
      /\ c.position = pos
  <2>1. c.participants = Participants[x] /\ c.pairs = PairValues(Participants[x])[y] /\ c.position = pos
    BY DEF Cell
  <2>2. c.mode = OrderedModes(<<c.participants, c.pairs>>, c.warmup, c.trial)[1 + pos]
    BY DEF Cell
  <2>3. c.warmup = (u < Warmup) /\ c.trial = IF u < Warmup THEN u ELSE u - Warmup
    BY DEF Cell
  <2>4. CASE u < Warmup
    BY <2>1, <2>2, <2>3, <2>4
  <2>5. CASE ~ u < Warmup
    <3>1. c.warmup = FALSE /\ c.trial = u - Warmup
      <4>1. (u < Warmup) = FALSE
        BY <2>5
      <4>2. c.warmup = FALSE
        BY <2>3, <4>1, Zenon
      <4> HIDE DEF c
      <4> QED
        BY <2>3, <2>5, <4>2
    <3> QED
      BY <2>1, <2>2, <2>5, <3>1
  <2> QED
    BY <2>4, <2>5
<1> HIDE DEF c
<1>3. <<c.participants, c.pairs>> \in Workload /\ c.pairs \in Nat \ {0}
  BY <1>2, WorkloadPlaces
<1>4. u \in Nat /\ u < Warmup + Trials /\ 1 + pos \in 1 .. M
  BY <1>1 DEF Rounds
<1>5. c.warmup \in BOOLEAN
  BY <1>2
<1>6. c.trial \in Nat /\ (~ u < Warmup => c.trial \in 0 .. Trials - 1)
  BY <1>1, <1>2, <1>4
<1>7. c.mode \in Modes
  <2> DEFINE w     == <<c.participants, c.pairs>>
             warm  == c.warmup
             trial == c.trial
  <2>1. w \in Workload /\ warm \in BOOLEAN /\ trial \in Nat
    BY <1>3, <1>5, <1>6
  <2>2. c.mode = OrderedModes(w, warm, trial)[1 + pos]
    BY <1>2
  <2> HIDE DEF w, warm, trial
  <2>3. OrderedModes(w, warm, trial) \in [1 .. M -> Modes]
    BY <2>1, ModesOnce
  <2> QED
    BY <1>4, <2>2, <2>3
<1> QED
  BY <1>2, <1>3, <1>4, <1>5, <1>6, <1>7 DEF Makes, c

\* The parts of a stage.
LEMMA StageFacts ==
    ASSUME NEW i \in StageIndex
    PROVE  /\ <<StageAt(i).participants, StageAt(i).pairs>> \in Workload
           /\ StageAt(i).pairs \in Nat \ {0}
           /\ StageAt(i).warmup \in BOOLEAN
           /\ StageAt(i).trial \in Nat
           /\ StageAt(i).warmup = FALSE => StageAt(i).trial \in 0 .. Trials - 1
           /\ StageAt(i).position \in 0 .. M - 1
           /\ StageAt(i).mode \in Modes
           /\ StageAt(i).mode =
                OrderedModes(<<StageAt(i).participants, StageAt(i).pairs>>, StageAt(i).warmup,
                             StageAt(i).trial)[1 + StageAt(i).position]
<1>1. PICK x \in 1 .. Sizes, y \in 1 .. PairCount, u \in 0 .. Rounds - 1, pos \in 0 .. M - 1 :
         i = Place(x, y, u, pos)
  BY PlaceOfStage
<1>2. StageAt(i) = Cell(x, y, u, pos)
  BY <1>1, StageOfPlace
<1>3. Makes(StageAt(i), x, y, u, pos)
  BY <1>2, CellFacts
<1> QED
  BY <1>3 DEF Makes

\* A stage is measured when it is no warm-up.
LEMMA MeasuredStage == \A i : i \in Measured <=> i \in StageIndex /\ StageAt(i).warmup = FALSE
<1>1. \A i \in StageIndex : StageAt(i).warmup \in BOOLEAN
  BY StageFacts
<1>2. \A i \in StageIndex : StageAt(i).warmup = FALSE <=> ~ StageAt(i).warmup
  BY <1>1
<1> QED
  BY <1>2 DEF Measured

\* What tells stages apart.
SameStage(s, t) ==
    /\ s.participants = t.participants /\ s.pairs = t.pairs /\ s.mode = t.mode
    /\ s.trial = t.trial /\ s.warmup = t.warmup

\* No two stages of a schedule are the same.
LEMMA StagesDistinct ==
    ASSUME NEW i \in StageIndex, NEW j \in StageIndex, SameStage(StageAt(i), StageAt(j))
    PROVE  i = j
<1>0. Trials \in Nat \ {0} /\ Warmup \in Nat /\ M \in Nat \ {0}
  BY ArgumentsAssumption DEF ValidArguments
<1> HIDE DEF M
<1>2. PICK x \in 1 .. Sizes, y \in 1 .. PairCount, u \in 0 .. Rounds - 1, pos \in 0 .. M - 1 :
         i = Place(x, y, u, pos)
  BY PlaceOfStage
<1>3. PICK a \in 1 .. Sizes, b \in 1 .. PairCount, v \in 0 .. Rounds - 1, q \in 0 .. M - 1 :
         j = Place(a, b, v, q)
  BY PlaceOfStage
<1>4. StageAt(i) = Cell(x, y, u, pos) /\ StageAt(j) = Cell(a, b, v, q)
  BY <1>2, <1>3, StageOfPlace
<1> DEFINE s == StageAt(i)
           t == StageAt(j)
<1>5. /\ s.participants = t.participants /\ s.pairs = t.pairs /\ s.mode = t.mode
      /\ s.trial = t.trial /\ s.warmup = t.warmup
  BY DEF SameStage
<1> HIDE DEF s, t
<1>6. /\ s.participants = Participants[x] /\ s.pairs = PairValues(Participants[x])[y]
      /\ <<s.participants, s.pairs>> \in Workload
      /\ s.warmup \in BOOLEAN /\ s.trial \in Nat
      /\ u < Warmup => s.warmup = TRUE /\ s.trial = u
      /\ ~ u < Warmup => s.warmup = FALSE /\ s.trial = u - Warmup
      /\ s.mode = OrderedModes(<<s.participants, s.pairs>>, s.warmup, s.trial)[1 + pos]
      /\ 1 + pos \in 1 .. M
  <2>1. Makes(s, x, y, u, pos)
    BY <1>4, CellFacts DEF s
  <2> QED
    BY <2>1 DEF Makes
<1>7. /\ t.participants = Participants[a] /\ t.pairs = PairValues(Participants[a])[b]
      /\ v < Warmup => t.warmup = TRUE /\ t.trial = v
      /\ ~ v < Warmup => t.warmup = FALSE /\ t.trial = v - Warmup
      /\ t.mode = OrderedModes(<<t.participants, t.pairs>>, t.warmup, t.trial)[1 + q]
      /\ 1 + q \in 1 .. M
  <2>1. Makes(t, a, b, v, q)
    BY <1>4, CellFacts DEF t
  <2> QED
    BY <2>1 DEF Makes
<1>8. x = a /\ y = b
  <2>1. Participants[x] = Participants[a] /\ PairValues(Participants[x])[y] = PairValues(Participants[a])[b]
    BY <1>5, <1>6, <1>7
  <2> QED
    BY <2>1, WorkloadPlaces
<1>9. u \in Int /\ v \in Int
  OBVIOUS
<1>10. u < Warmup <=> v < Warmup
  <2>1. u < Warmup => ~ ~ v < Warmup
    BY <1>5, <1>6, <1>7
  <2>2. v < Warmup => ~ ~ u < Warmup
    BY <1>5, <1>6, <1>7
  <2> QED
    BY <2>1, <2>2
<1>11. u = v
  BY <1>0, <1>5, <1>6, <1>7, <1>9, <1>10
<1> DEFINE w    == <<s.participants, s.pairs>>
           warm == s.warmup
           n    == s.trial
<1>12. /\ s.mode = OrderedModes(w, warm, n)[1 + pos]
       /\ s.mode = OrderedModes(w, warm, n)[1 + q]
       /\ w \in Workload /\ warm \in BOOLEAN /\ n \in Nat
  BY <1>5, <1>6, <1>7
<1> HIDE DEF w, warm, n
<1>13. 1 + pos = 1 + q
  <2> DEFINE k == 1 + pos
             l == 1 + q
  <2>1. k \in 1 .. M /\ l \in 1 .. M /\ OrderedModes(w, warm, n)[k] = OrderedModes(w, warm, n)[l]
    BY <1>6, <1>7, <1>12
  <2> HIDE DEF k, l
  <2>2. k = l
    BY <1>12, <2>1, ModesOnce
  <2> QED
    BY <2>2 DEF k, l
<1>14. pos = q
  BY <1>0, <1>13
<1> QED
  BY <1>2, <1>3, <1>8, <1>11, <1>14

(* No two sessions of a campaign, warm-up or measured, have one execution
   identifier: the identifier the completion journal files a session under
   names its stage and pair. *)
THEOREM ExecutionsDistinct ==
    \A i, j \in StageIndex : \A k \in Pairs(i), l \in Pairs(j) :
        ExecutionId(StageAt(i), k) = ExecutionId(StageAt(j), l) => i = j /\ k = l
<1> SUFFICES ASSUME NEW i \in StageIndex, NEW j \in StageIndex, NEW k \in Pairs(i), NEW l \in Pairs(j),
                    ExecutionId(StageAt(i), k) = ExecutionId(StageAt(j), l)
             PROVE  i = j /\ k = l
  OBVIOUS
<1>1. SameStage(StageAt(i), StageAt(j)) /\ k = l
  <2> DEFINE s == StageAt(i)
             t == StageAt(j)
  <2>1. ExecutionId(s, k) = ExecutionId(t, l)
    OBVIOUS
  <2> HIDE DEF s, t
  <2>2. SameStage(s, t) /\ k = l
    BY <2>1 DEF ExecutionId, SameStage
  <2> QED
    BY <2>2 DEF s, t
<1> QED
  BY <1>1, StagesDistinct

(* Every planned cell and trial is measured by exactly one stage of the
   schedule, whatever the arguments of the campaign. *)
THEOREM MeasuredOnce ==
    /\ \A i \in Measured : KeyOf(i) \in ExpectedKeys
    /\ \A key \in ExpectedKeys : \E i \in Measured : KeyOf(i) = key
    /\ \A i, j \in Measured : KeyOf(i) = KeyOf(j) => i = j
<1>0. Trials \in Nat \ {0} /\ Warmup \in Nat /\ M \in Nat \ {0}
  BY ArgumentsAssumption DEF ValidArguments
<1> HIDE DEF M
<1>1. ASSUME NEW i \in Measured
      PROVE  KeyOf(i) \in ExpectedKeys
  <2>1. i \in StageIndex /\ StageAt(i).warmup = FALSE
    BY MeasuredStage
  <2> DEFINE s == StageAt(i)
  <2>2. <<s.participants, s.pairs>> \in Workload /\ s.mode \in Modes /\ s.trial \in 0 .. Trials - 1
    BY <2>1, StageFacts
  <2> DEFINE w == <<s.participants, s.pairs>>
  <2>3. KeyOf(i) = <<w[1], w[2], s.mode, s.trial>>
    BY DEF KeyOf
  <2> HIDE DEF s, w
  <2>4. w \in Workload
    BY <2>2 DEF w
  <2> QED
    BY <2>2, <2>3, <2>4 DEF ExpectedKeys
<1>2. ASSUME NEW key \in ExpectedKeys
      PROVE  \E i \in Measured : KeyOf(i) = key
  <2>1. PICK w \in Workload, mode \in Modes, trial \in 0 .. Trials - 1 : key = <<w[1], w[2], mode, trial>>
    BY DEF ExpectedKeys
  <2>2. PICK x \in 1 .. Sizes, y \in 1 .. PairCount : w = <<Participants[x], PairValues(Participants[x])[y]>>
    BY WorkloadPlaces
  <2> DEFINE measured == FALSE
  <2>3. trial \in Nat /\ measured \in BOOLEAN
    BY <1>0
  <2> HIDE DEF measured
  <2>4. PICK k \in 1 .. M : OrderedModes(w, measured, trial)[k] = mode
    BY <2>3, ModesOnce
  <2> DEFINE pos == k - 1
             u == Warmup + trial
             c == Cell(x, y, u, pos)
             i == Place(x, y, u, pos)
  <2>5. pos \in 0 .. M - 1 /\ 1 + pos = k /\ u \in 0 .. Rounds - 1 /\ ~ u < Warmup /\ u - Warmup = trial
    BY <1>0 DEF Rounds
  <2> HIDE DEF u, pos, c
  <2>6. i \in StageIndex /\ StageAt(i) = c
    BY <2>5, StageOfPlace DEF c
  <2>7. /\ c.participants = Participants[x] /\ c.pairs = PairValues(Participants[x])[y]
        /\ c.warmup = FALSE /\ c.trial = trial
        /\ c.mode = OrderedModes(<<c.participants, c.pairs>>, c.warmup, c.trial)[1 + pos]
    <3>1. Makes(c, x, y, u, pos)
      BY <2>5, CellFacts DEF c
    <3> QED
      BY <2>5, <3>1 DEF Makes
  <2>8. <<c.participants, c.pairs>> = w /\ c.participants = w[1] /\ c.pairs = w[2]
    BY <2>2, <2>7
  <2>9. c.warmup = measured
    BY <2>7 DEF measured
  <2>10. c.mode = mode
    BY <2>4, <2>5, <2>7, <2>8, <2>9
  <2>11. i \in Measured
    BY <2>6, <2>7, MeasuredStage
  <2>12. KeyOf(i) = key
    BY <2>1, <2>6, <2>7, <2>8, <2>10 DEF KeyOf
  <2> QED
    BY <2>11, <2>12
<1>3. ASSUME NEW i \in Measured, NEW j \in Measured, KeyOf(i) = KeyOf(j)
      PROVE  i = j
  <2>1. i \in StageIndex /\ StageAt(i).warmup = FALSE /\ j \in StageIndex /\ StageAt(j).warmup = FALSE
    BY MeasuredStage
  <2>2. SameStage(StageAt(i), StageAt(j))
    BY <1>3, <2>1 DEF KeyOf, SameStage
  <2> QED
    BY <2>1, <2>2, StagesDistinct
<1> QED
  BY <1>1, <1>2, <1>3

-----------------------------------------------------------------------------
(* The reports of a completed campaign *)

\* A list of samples with every measured stage in it once.
Whole(list) ==
    /\ list \in Seq(Sample)
    /\ \A x, y \in DOMAIN list : list[x].stage = list[y].stage => x = y
    /\ \A i \in Measured : \E x \in DOMAIN list : list[x].stage = i

\* What a sample of a stage looks like in a report.
IsRow(row, i, arcs) ==
    LET s == StageAt(i)
    IN  /\ SampleKey(row) = KeyOf(i)
        /\ row.participants = s.participants /\ row.pairs = s.pairs /\ row.mode = s.mode
        /\ row.trial = s.trial /\ row.mode_position = s.position
        /\ row.block = <<"block", Campaign, Route, FALSE, s.participants, s.pairs>>
        /\ row.trial_id = <<"trial", Campaign, Route, FALSE, s.participants, s.pairs, s.trial>>
        /\ DOMAIN row.arcs = 0 .. s.pairs - 1
        /\ \A k \in 0 .. s.pairs - 1 :
             /\ row.arcs[k].execution = <<Campaign, FALSE, s.participants, s.trial, s.pairs, s.mode, k>>
             /\ row.arcs[k].seed =
                  <<"OASIS-CLOUD-CONTEXT-v1", Campaign, FALSE, s.participants, s.trial, s.pairs, k>>

\* main appends such rows.
LEMMA RowFacts ==
    ASSUME NEW sample \in Sample
    PROVE  /\ sample.stage \in Measured
           /\ IsRow(Row(sample), sample.stage, sample.arcs)
<1> DEFINE i   == sample.stage
           s   == StageAt(i)
           row == Row(sample)
<1>1. i \in Measured
  BY DEF Sample
<1>2. s.warmup = FALSE
  BY <1>1, MeasuredStage
<1>3. /\ row.participants = s.participants /\ row.pairs = s.pairs /\ row.mode = s.mode
      /\ row.trial = s.trial /\ row.mode_position = s.position
      /\ row.block = BlockId(s) /\ row.trial_id = TrialId(s)
  BY DEF Row
<1>4. row.arcs = [k \in Pairs(i) |->
                     [execution |-> ExecutionId(s, k), seed |-> ContextSeed(s, k),
                      digest |-> IF Aggregates(s.mode) THEN <<i, k, sample.arcs[k]>> ELSE << >>]]
  BY DEF Row
<1>5. Pairs(i) = 0 .. s.pairs - 1
  BY DEF Pairs
<1>6. DOMAIN row.arcs = 0 .. s.pairs - 1
  BY <1>4, <1>5
<1>7. \A k \in 0 .. s.pairs - 1 :
         row.arcs[k].execution = ExecutionId(s, k) /\ row.arcs[k].seed = ContextSeed(s, k)
  BY <1>4, <1>5
<1> HIDE DEF row, s, i
<1>8. /\ BlockId(s) = <<"block", Campaign, Route, FALSE, s.participants, s.pairs>>
      /\ TrialId(s) = <<"trial", Campaign, Route, FALSE, s.participants, s.pairs, s.trial>>
      /\ \A k : /\ ExecutionId(s, k) = <<Campaign, FALSE, s.participants, s.trial, s.pairs, s.mode, k>>
                /\ ContextSeed(s, k) =
                     <<"OASIS-CLOUD-CONTEXT-v1", Campaign, FALSE, s.participants, s.trial, s.pairs, k>>
  BY <1>2 DEF BlockId, TrialId, ExecutionId, ContextSeed
<1>9. SampleKey(row) = KeyOf(i)
  BY <1>3 DEF SampleKey, KeyOf, s
<1>10. IsRow(row, i, sample.arcs)
  <2>1. s = StageAt(i)
    BY DEF s
  <2> QED
    BY <1>3, <1>6, <1>7, <1>8, <1>9, <2>1 DEF IsRow
<1> QED
  BY <1>1, <1>10 DEF row, i

\* indexed_samples finds every cell and trial once.
LEMMA WholeComplete ==
    ASSUME NEW list, Whole(list), NEW payload, payload.samples = [x \in DOMAIN list |-> Row(list[x])]
    PROVE  Complete(payload)
<1> DEFINE n == Len(list)
           f == [x \in 1 .. n |-> KeyOf(list[x].stage)]
<1>1. n \in Nat /\ DOMAIN list = 1 .. n /\ \A x \in 1 .. n : list[x] \in Sample
  BY DEF Whole
<1>2. \A x \in 1 .. n : list[x].stage \in Measured /\ SampleKey(Row(list[x])) = KeyOf(list[x].stage)
  BY <1>1, RowFacts DEF IsRow
<1>3. DOMAIN payload.samples = 1 .. n /\ \A x \in 1 .. n : payload.samples[x] = Row(list[x])
  BY <1>1
<1>4. Len(payload.samples) = n
  BY <1>1, <1>3
<1>5. f \in [1 .. n -> ExpectedKeys]
  BY <1>2, MeasuredOnce
<1>6. \A x, y \in 1 .. n : f[x] = f[y] => x = y
  <2> SUFFICES ASSUME NEW x \in 1 .. n, NEW y \in 1 .. n, f[x] = f[y]
               PROVE  x = y
    OBVIOUS
  <2>1. list[x].stage = list[y].stage
    BY <1>2, MeasuredOnce
  <2> QED
    BY <1>1, <2>1 DEF Whole
<1>7. \A key \in ExpectedKeys : \E x \in 1 .. n : f[x] = key
  <2> SUFFICES ASSUME NEW key \in ExpectedKeys
               PROVE  \E x \in 1 .. n : f[x] = key
    OBVIOUS
  <2>1. PICK i \in Measured : KeyOf(i) = key
    BY MeasuredOnce
  <2>2. PICK x \in 1 .. n : list[x].stage = i
    BY <1>1 DEF Whole
  <2> QED
    BY <2>1, <2>2
<1>8. \A x \in 1 .. n : SampleKey(payload.samples[x]) = f[x]
  BY <1>2, <1>3
<1> HIDE DEF f, n
<1>9. Cardinality(ExpectedKeys) = n
  <2>1. IsFiniteSet(1 .. n) /\ Cardinality(1 .. n) = n
    BY <1>1, FS_Interval
  <2>2. f \in Bijection(1 .. n, ExpectedKeys)
    BY <1>5, <1>6, <1>7 DEF Bijection, Injection, Surjection, IsInjective, f
  <2> QED
    BY <2>1, <2>2, FS_Bijection DEF ExistsBijection
<1>10. {SampleKey(row) : row \in Rows(payload)} = ExpectedKeys
  <2>1. \A row \in Rows(payload) : \E x \in 1 .. n : row = payload.samples[x]
    BY <1>3 DEF Rows
  <2>2. \A x \in 1 .. n : payload.samples[x] \in Rows(payload)
    BY <1>3 DEF Rows
  <2>3. \A row \in Rows(payload) : SampleKey(row) \in ExpectedKeys
    BY <1>5, <1>8, <2>1
  <2>4. \A key \in ExpectedKeys : \E row \in Rows(payload) : SampleKey(row) = key
    BY <1>7, <1>8, <2>2
  <2> QED
    BY <2>3, <2>4
<1> QED
  BY <1>4, <1>9, <1>10 DEF Complete

\* Two reports of the same sessions show one row for each cell and trial.
LEMMA WholeAudit ==
    ASSUME NEW c \in Sample, NEW s \in Sample, SampleKey(Row(c)) = SampleKey(Row(s)),
           c.stage = s.stage => c.arcs = s.arcs
    PROVE  ValidAudit(Row(c), Row(s))
<1>1. /\ c.stage \in Measured /\ IsRow(Row(c), c.stage, c.arcs)
      /\ s.stage \in Measured /\ IsRow(Row(s), s.stage, s.arcs)
  BY RowFacts
<1>2. c.stage = s.stage
  <2>1. KeyOf(c.stage) = KeyOf(s.stage)
    BY <1>1 DEF IsRow
  <2> QED
    BY <1>1, <2>1, MeasuredOnce
<1>3. Row(s) = Row(c)
  BY <1>2 DEF Row
<1>4. DOMAIN Row(c).arcs = 0 .. Row(c).pairs - 1
  BY <1>1 DEF IsRow
<1>5. ValidArcs(Row(c), Row(c))
  BY <1>4 DEF ValidArcs
<1> QED
  BY <1>3, <1>5 DEF ValidAudit

\* The rows of one trial of one workload: every mode once, in the planned order,
\* each an execution of its own, all under one context.
LEMMA WholeTrial ==
    ASSUME NEW list, Whole(list), NEW payload, payload.samples = [x \in DOMAIN list |-> Row(list[x])],
           NEW row \in Rows(payload)
    PROVE  ValidTrial({other \in Rows(payload) : other.participants = row.participants
                          /\ other.pairs = row.pairs /\ other.trial = row.trial})
<1> DEFINE n == row.participants
           p == row.pairs
           t == row.trial
           rows == {other \in Rows(payload) : other.participants = n /\ other.pairs = p /\ other.trial = t}
           w == <<n, p>>
           measured == FALSE
           order == OrderedModes(w, measured, t)
<1>1. \A other \in Rows(payload) : \E i \in Measured : \E x \in DOMAIN list :
         other = Row(list[x]) /\ i = list[x].stage /\ IsRow(other, i, list[x].arcs)
  <2> SUFFICES ASSUME NEW x \in DOMAIN list
               PROVE  list[x].stage \in Measured /\ IsRow(Row(list[x]), list[x].stage, list[x].arcs)
    BY DEF Rows
  <2>1. list[x] \in Sample
    BY DEF Whole
  <2> QED
    BY <2>1, RowFacts
<1>2. ASSUME NEW i \in Measured
      PROVE  \E other \in Rows(payload) : \E arcs : IsRow(other, i, arcs)
  <2>1. PICK x \in DOMAIN list : list[x].stage = i
    BY DEF Whole
  <2>2. list[x] \in Sample
    BY DEF Whole
  <2>3. IsRow(Row(list[x]), i, list[x].arcs)
    BY <2>1, <2>2, RowFacts
  <2>4. Row(list[x]) \in Rows(payload)
    BY DEF Rows
  <2> QED
    BY <2>3, <2>4
<1>3. PICK i0 \in Measured : \E arcs : IsRow(row, i0, arcs)
  BY <1>1
<1>4. /\ i0 \in StageIndex /\ n = StageAt(i0).participants /\ p = StageAt(i0).pairs /\ t = StageAt(i0).trial
      /\ StageAt(i0).warmup = FALSE
  BY <1>3, MeasuredStage DEF IsRow
<1>5. w \in Workload /\ t \in 0 .. Trials - 1 /\ t \in Nat /\ measured \in BOOLEAN
  BY <1>4, StageFacts
<1>6. M \in Nat \ {0} /\ IsFiniteSet(Modes) /\ Cardinality(Modes) = M
  BY ArgumentsAssumption DEF ValidArguments, M
<1> HIDE DEF M
<1>7. /\ order \in [1 .. M -> Modes]
      /\ \A i, j \in 1 .. M : order[i] = order[j] => i = j
      /\ \A mode \in Modes : \E i \in 1 .. M : order[i] = mode
  <2> HIDE DEF w, t, measured
  <2> QED
    BY <1>5, ModesOnce
<1>8. ASSUME NEW other \in rows
      PROVE  /\ other.mode \in Modes /\ other.mode_position \in 0 .. M - 1
             /\ order[1 + other.mode_position] = other.mode
             /\ other.block = <<"block", Campaign, Route, FALSE, n, p>>
             /\ other.trial_id = <<"trial", Campaign, Route, FALSE, n, p, t>>
             /\ DOMAIN other.arcs = 0 .. p - 1
             /\ \A k \in 0 .. p - 1 :
                  /\ other.arcs[k].execution = <<Campaign, FALSE, n, t, p, other.mode, k>>
                  /\ other.arcs[k].seed = <<"OASIS-CLOUD-CONTEXT-v1", Campaign, FALSE, n, t, p, k>>
  <2>1. other \in Rows(payload) /\ other.participants = n /\ other.pairs = p /\ other.trial = t
    OBVIOUS
  <2>2. PICK i \in Measured : \E arcs : IsRow(other, i, arcs)
    BY <1>1, <2>1
  <2> DEFINE s == StageAt(i)
  <2>3. i \in StageIndex /\ s.warmup = FALSE
    BY MeasuredStage
  <2>4. /\ s.position \in 0 .. M - 1 /\ s.mode \in Modes
        /\ s.mode = OrderedModes(<<s.participants, s.pairs>>, s.warmup, s.trial)[1 + s.position]
    BY <2>3, StageFacts
  <2>5. /\ other.participants = s.participants /\ other.pairs = s.pairs /\ other.mode = s.mode
        /\ other.trial = s.trial /\ other.mode_position = s.position
        /\ other.block = <<"block", Campaign, Route, FALSE, s.participants, s.pairs>>
        /\ other.trial_id = <<"trial", Campaign, Route, FALSE, s.participants, s.pairs, s.trial>>
        /\ DOMAIN other.arcs = 0 .. s.pairs - 1
        /\ \A k \in 0 .. s.pairs - 1 :
             /\ other.arcs[k].execution = <<Campaign, FALSE, s.participants, s.trial, s.pairs, s.mode, k>>
             /\ other.arcs[k].seed =
                  <<"OASIS-CLOUD-CONTEXT-v1", Campaign, FALSE, s.participants, s.trial, s.pairs, k>>
    BY <2>2 DEF IsRow
  <2> HIDE DEF s, rows, n, p, t
  <2>6. s.participants = n /\ s.pairs = p /\ s.trial = t
    BY <2>1, <2>5
  <2>7. s.mode = OrderedModes(<<n, p>>, s.warmup, t)[1 + s.position]
    BY <2>4, <2>6
  <2>8. order[1 + other.mode_position] = other.mode
    BY <2>3, <2>5, <2>7
  <2> QED
    BY <2>4, <2>5, <2>6, <2>8
<1>9. ASSUME NEW mode \in Modes
      PROVE  \E other \in rows : other.mode = mode
  <2> DEFINE key == <<n, p, mode, t>>
  <2>1. key \in ExpectedKeys
    <3>1. key = <<w[1], w[2], mode, t>>
      OBVIOUS
    <3> HIDE DEF w, t
    <3> QED
      BY <1>5, <3>1 DEF ExpectedKeys
  <2>2. PICK i \in Measured : KeyOf(i) = key
    BY <2>1, MeasuredOnce
  <2>3. PICK other \in Rows(payload) : \E arcs : IsRow(other, i, arcs)
    BY <1>2
  <2>4. SampleKey(other) = key
    BY <2>2, <2>3 DEF IsRow
  <2>5. other.participants = n /\ other.pairs = p /\ other.mode = mode /\ other.trial = t
    BY <2>4 DEF SampleKey
  <2> QED
    BY <2>5
<1>10. row \in rows
  OBVIOUS
<1> HIDE DEF rows, n, p, t, w, order
<1>11. \A other \in rows :
         /\ other.participants = n /\ other.pairs = p /\ other.trial = t
  BY DEF rows
<1>12. {other.mode_position : other \in rows} = 0 .. M - 1
  <2>1. ASSUME NEW pos \in 0 .. M - 1
        PROVE  \E other \in rows : other.mode_position = pos
    <3>1. 1 + pos \in 1 .. M
      BY <1>6
    <3>2. order[1 + pos] \in Modes
      BY <1>7, <3>1
    <3>3. PICK other \in rows : other.mode = order[1 + pos]
      BY <1>9, <3>2
    <3> DEFINE q == other.mode_position
               k == 1 + q
               l == 1 + pos
    <3>4. q \in 0 .. M - 1 /\ order[k] = other.mode
      BY <1>8
    <3>5. k \in 1 .. M
      BY <1>6, <3>4
    <3>6. k = l
      <4>1. order[k] = order[l] /\ l \in 1 .. M
        BY <3>1, <3>3, <3>4
      <4> HIDE DEF k, l
      <4> QED
        BY <1>7, <3>5, <4>1
    <3>7. q = pos
      <4> HIDE DEF q
      <4> QED
        BY <1>6, <3>4, <3>6
    <3> QED
      BY <3>7
  <2> DEFINE positions == {other.mode_position : other \in rows}
  <2>2. positions \subseteq 0 .. M - 1
    BY <1>8
  <2>3. 0 .. M - 1 \subseteq positions
    BY <2>1
  <2> HIDE DEF positions
  <2>4. positions = 0 .. M - 1
    BY <2>2, <2>3
  <2> QED
    BY <2>4 DEF positions
<1>13. ASSUME NEW k \in 0 .. p - 1
       PROVE  /\ Cardinality({other.arcs[k].execution : other \in rows}) = M
              /\ Cardinality({other.arcs[k].seed : other \in rows}) = 1
  <2> DEFINE E == {other.arcs[k].execution : other \in rows}
             S == {other.arcs[k].seed : other \in rows}
             f == [mode \in Modes |-> <<Campaign, FALSE, n, t, p, mode, k>>]
             seed == <<"OASIS-CLOUD-CONTEXT-v1", Campaign, FALSE, n, t, p, k>>
  <2>1. f \in [Modes -> E]
    <3> SUFFICES ASSUME NEW mode \in Modes
                 PROVE  f[mode] \in E
      OBVIOUS
    <3>1. PICK other \in rows : other.mode = mode
      BY <1>9
    <3>2. other.arcs[k].execution = f[mode]
      BY <1>8, <3>1
    <3> QED
      BY <3>2
  <2>2. \A x, y \in Modes : f[x] = f[y] => x = y
    OBVIOUS
  <2>3. \A e \in E : \E mode \in Modes : f[mode] = e
    <3> SUFFICES ASSUME NEW other \in rows
                 PROVE  \E mode \in Modes : f[mode] = other.arcs[k].execution
      OBVIOUS
    <3>1. other.mode \in Modes /\ other.arcs[k].execution = <<Campaign, FALSE, n, t, p, other.mode, k>>
      BY <1>8
    <3> QED
      BY <3>1
  <2>4. S = {seed}
    BY <1>8, <1>10
  <2> HIDE DEF E, S, f, seed
  <2>5. f \in Bijection(Modes, E)
    BY <2>1, <2>2, <2>3 DEF Bijection, Injection, Surjection, IsInjective
  <2>6. Cardinality(E) = M
    BY <1>6, <2>5, FS_Bijection DEF ExistsBijection
  <2>7. Cardinality(S) = 1
    BY <2>4, FS_Singleton
  <2> QED
    BY <2>6, <2>7 DEF E, S
<1>14. \A other \in rows :
          /\ other.block = <<"block", Campaign, Route, FALSE, other.participants, other.pairs>>
          /\ other.trial_id =
               <<"trial", Campaign, Route, FALSE, other.participants, other.pairs, other.trial>>
          /\ OrderedModes(<<other.participants, other.pairs>>, FALSE, other.trial)[1 + other.mode_position]
               = other.mode
  BY <1>8, <1>11 DEF order, w
<1>15. \A other \in rows : \A k \in DOMAIN other.arcs :
          /\ Cardinality({o.arcs[k].execution : o \in rows}) = M
          /\ Cardinality({o.arcs[k].seed : o \in rows}) = 1
  BY <1>8, <1>13
<1>16. ValidTrial(rows)
  BY <1>12, <1>14, <1>15 DEF ValidTrial
<1> QED
  BY <1>16 DEF rows, n, p, t

(* The reports of two starts that ran all sessions of a schedule together are
   evidence the analysis accepts. *)
LEMMA WholeAccepted ==
    ASSUME NEW a \in Start, NEW b \in Start, Whole(reports["client"][a]), Whole(reports["server"][b]),
           \A x \in DOMAIN reports["client"][a], y \in DOMAIN reports["server"][b] :
              reports["client"][a][x].stage = reports["server"][b][y].stage =>
                 reports["client"][a][x].arcs = reports["server"][b][y].arcs
    PROVE  Accepted(Payload("client", a), Payload("server", b))
<1> DEFINE c  == reports["client"][a]
           s  == reports["server"][b]
           pc == Payload("client", a)
           ps == Payload("server", b)
<1>1. /\ pc.role = "client" /\ ps.role = "server"
      /\ \A field \in {"campaign", "route", "schedule", "trials", "warmup"} : pc[field] = ps[field]
  BY DEF Payload
<1>2. pc.samples = [x \in DOMAIN c |-> Row(c[x])] /\ ps.samples = [x \in DOMAIN s |-> Row(s[x])]
  BY DEF Payload
<1>3. /\ Whole(c) /\ Whole(s)
      /\ \A x \in DOMAIN c, y \in DOMAIN s : c[x].stage = s[y].stage => c[x].arcs = s[y].arcs
  OBVIOUS
<1> HIDE DEF pc, ps, c, s
<1>4. Complete(pc) /\ Complete(ps)
  BY <1>2, <1>3, WholeComplete
<1>5. ValidPairing(pc)
  BY <1>2, <1>3, WholeTrial DEF ValidPairing
<1>6. ASSUME NEW r \in Rows(pc), NEW q \in Rows(ps), SampleKey(r) = SampleKey(q)
      PROVE  ValidAudit(r, q)
  <2>1. PICK x \in DOMAIN c : r = Row(c[x])
    BY <1>2 DEF Rows
  <2>2. PICK y \in DOMAIN s : q = Row(s[y])
    BY <1>2 DEF Rows
  <2>3. c[x] \in Sample /\ s[y] \in Sample
    BY <1>3 DEF Whole
  <2> QED
    BY <1>3, <1>6, <2>1, <2>2, <2>3, WholeAudit
<1> QED
  BY <1>1, <1>4, <1>5, <1>6 DEF Accepted, ValidRole, pc, ps

\* Nothing measured before stage i is missing from a list.
Upto(list, i) == \A j \in Measured : j < i => \E x \in DOMAIN list : list[x].stage = j
Below(list, i) == \A x \in DOMAIN list : list[x].stage < i

\* The stages of a list ascend, with none left out.
InOrder(list) ==
    /\ \A x, y \in DOMAIN list : x < y => list[x].stage < list[y].stage
    /\ \A x \in DOMAIN list : Upto(list, list[x].stage)

\* A start's report holds what was measured of the stages its script has ended.
OrderInv ==
    \A r \in Role :
      /\ \A a \in Start : InOrder(reports[r][a])
      /\ \A a \in Start : a > starts[r] => reports[r][a] = << >>
      /\ ~ At(r, "down") => Upto(reports[r][starts[r]], Stage(r)) /\ Below(reports[r][starts[r]], Stage(r))

\* The next stage's sample at the end of an ordered list.
LEMMA AppendOrder ==
    ASSUME NEW list \in Seq(Sample), NEW row \in Sample, NEW i \in StageIndex, row.stage = i,
           InOrder(list), Upto(list, i), Below(list, i)
    PROVE  /\ InOrder(Append(list, row))
           /\ Upto(Append(list, row), i + 1) /\ Below(Append(list, row), i + 1)
<1> DEFINE n == Len(list)
           longer == Append(list, row)
<1>1. n \in Nat /\ DOMAIN list = 1 .. n /\ DOMAIN longer = 1 .. n + 1
  OBVIOUS
<1>2. longer[n + 1] = row /\ \A x \in 1 .. n : longer[x] = list[x] /\ list[x] \in Sample
  OBVIOUS
<1>3. \A j \in Measured : j \in StageIndex
  BY DEF Measured
<1>4. StageCount \in Nat /\ i \in Int /\ \A j \in StageIndex : j \in Int
  BY SomeStage DEF StageIndex
<1>5. \A x \in 1 .. n : list[x].stage \in Int /\ list[x].stage < i
  BY <1>1, <1>2, <1>3, <1>4 DEF Sample, Below
<1> HIDE DEF longer, n
<1>6. \A x \in 1 .. n + 1 : x \in 1 .. n \/ x = n + 1
  BY <1>1
<1>7. Below(longer, i + 1)
  BY <1>1, <1>2, <1>4, <1>5, <1>6 DEF Below
<1>8. \A j : Upto(list, j) => Upto(longer, j)
  <2>1. \A x \in 1 .. n : x \in 1 .. n + 1 /\ longer[x] = list[x]
    BY <1>1, <1>2
  <2> QED
    BY <1>1, <2>1 DEF Upto
<1>9. Upto(longer, i + 1)
  <2> SUFFICES ASSUME NEW j \in Measured, j < i + 1
               PROVE  \E x \in DOMAIN longer : longer[x].stage = j
    BY DEF Upto
  <2>1. j < i \/ j = i
    <3>1. j \in Int /\ i \in Int
      BY <1>3, <1>4
    <3> QED
      BY <3>1
  <2>2. CASE j < i
    <3>1. Upto(longer, i)
      BY <1>8
    <3> QED
      BY <2>2, <3>1 DEF Upto
  <2>3. CASE j = i
    BY <1>1, <1>2, <2>3
  <2> QED
    BY <2>1, <2>2, <2>3
<1>10. \A x \in DOMAIN longer : Upto(longer, longer[x].stage)
  <2>1. \A x \in 1 .. n : Upto(list, list[x].stage)
    BY <1>1 DEF InOrder
  <2>2. Upto(longer, i)
    BY <1>8
  <2> QED
    BY <1>1, <1>2, <1>6, <1>8, <2>1, <2>2
<1>11. ASSUME NEW x \in DOMAIN longer, NEW y \in DOMAIN longer, x < y
       PROVE  longer[x].stage < longer[y].stage
  <2>1. x \in 1 .. n
    BY <1>1, <1>11
  <2>2. CASE y \in 1 .. n
    BY <1>1, <1>2, <1>11, <2>1, <2>2 DEF InOrder
  <2>3. CASE y = n + 1
    BY <1>2, <1>5, <2>1, <2>3
  <2> QED
    BY <1>1, <1>6, <2>2, <2>3
<1> QED
  BY <1>7, <1>9, <1>10, <1>11 DEF InOrder, longer

\* What a stage that ended well leaves in its start's report.
LEMMA WriteOrder ==
    ASSUME TypeOK, NEW r \in Role, starts[r] \in Start, NEW i \in StageIndex,
           NEW arcs \in [PairId -> 0 .. MaxStarts], Write(r, i, arcs),
           InOrder(reports[r][starts[r]]), Upto(reports[r][starts[r]], i), Below(reports[r][starts[r]], i)
    PROVE  /\ InOrder(reports'[r][starts[r]])
           /\ Upto(reports'[r][starts[r]], i + 1) /\ Below(reports'[r][starts[r]], i + 1)
           /\ \A q \in Role, a \in Start : q # r \/ a # starts[r] => reports'[q][a] = reports[q][a]
<1> DEFINE list == reports[r][starts[r]]
           row  == [stage |-> i, arcs |-> arcs]
<1>1. reports \in [Role -> [Start -> Seq(Sample)]] /\ reports[r] \in [Start -> Seq(Sample)]
      /\ list \in Seq(Sample)
  BY DEF TypeOK
<1>2. CASE StageAt(i).warmup
  <2>1. reports' = reports
    BY <1>2 DEF Write
  <2>2. i \notin Measured /\ i \in Int /\ \A j \in Measured : j \in Int
    BY <1>2, SomeStage DEF Measured, StageIndex
  <2>3. Upto(list, i + 1)
    <3> HIDE DEF list
    <3>1. Upto(list, i)
      BY DEF list
    <3> QED
      BY <2>2, <3>1 DEF Upto
  <2>4. Below(list, i + 1)
    <3>1. \A x \in DOMAIN list : list[x] \in Sample
      BY <1>1
    <3>2. \A x \in DOMAIN list : list[x].stage \in Int /\ list[x].stage < i
      BY <2>2, <3>1 DEF Sample, Below
    <3> QED
      BY <2>2, <3>2 DEF Below
  <2> QED
    BY <2>1, <2>3, <2>4
<1>3. CASE ~ StageAt(i).warmup
  <2>1. row \in Sample
    BY <1>3 DEF Sample, Measured
  <2>2. reports' = [reports EXCEPT ![r] = [reports[r] EXCEPT ![starts[r]] = Append(list, row)]]
    BY <1>3 DEF Write
  <2>3. row.stage = i
    OBVIOUS
  <2>4. InOrder(list) /\ Upto(list, i) /\ Below(list, i)
    OBVIOUS
  <2> HIDE DEF list, row
  <2>5. /\ InOrder(Append(list, row))
        /\ Upto(Append(list, row), i + 1) /\ Below(Append(list, row), i + 1)
    BY <1>1, <2>1, <2>3, <2>4, AppendOrder
  <2>6. \A q \in Role, a \in Start :
            reports'[q][a] = IF q = r /\ a = starts[r] THEN Append(list, row) ELSE reports[q][a]
    BY <1>1, <2>2
  <2> QED
    BY <2>5, <2>6
<1> QED
  BY <1>2, <1>3

\* No script has reported anything at first.
LEMMA OrderInit == Init => OrderInv
<1> SUFFICES ASSUME Init
             PROVE  OrderInv
  OBVIOUS
<1>1. \A r \in Role : script[r].at = "down" /\ \A a \in Start : reports[r][a] = << >>
  BY DEF Init
<1>2. InOrder(<< >>)
  BY DEF InOrder
<1> QED
  BY <1>1, <1>2 DEF OrderInv, At

\* Only a stage that ended well adds to a report, and then its script goes on.
LEMMA OrderStep == IInv /\ OrderInv /\ [Next]_vars => OrderInv'
<1> SUFFICES ASSUME IInv, OrderInv, [Next]_vars
             PROVE  OrderInv'
  OBVIOUS
<1>0. TypeOK /\ ClientsInv /\ "client" \in Role /\ "server" \in Role /\ Role = {"client", "server"}
  BY DEF IInv, Role
<1>1. /\ script \in [Role -> [at : {"down", "between", "running"}, stage : 0 .. StageCount]]
      /\ starts \in [Role -> 0 .. MaxStarts]
      /\ \A r \in Role : At(r, "running") => Stage(r) \in StageIndex
      /\ \A r \in Role : ~ At(r, "down") => starts[r] \in Start
  BY <1>0 DEF TypeOK, ClientsInv, At, Stage
\* A script that goes on where it is, or ends, with the reports as they are.
<1>2. ASSUME UNCHANGED <<reports, starts>>,
             \A r \in Role : At(r, "down")' \/ (Stage(r)' = Stage(r) /\ ~ At(r, "down"))
      PROVE  OrderInv'
  BY <1>2 DEF OrderInv
<1>3. CASE UNCHANGED <<script, starts, reports>>
  BY <1>3 DEF OrderInv, At, Stage
<1>4. ASSUME NEW r \in Role, StartScript(r)
      PROVE  OrderInv'
  <2>1. /\ At(r, "between")' /\ Stage(r)' = 0 /\ starts'[r] = starts[r] + 1 /\ starts'[r] \in Start
        /\ \A q \in Role : q # r => script'[q] = script[q] /\ starts'[q] = starts[q]
        /\ reports' = reports
    BY <1>4, ScriptMoves DEF StartScript
  <2>2. starts[r] \in Nat /\ \A a \in Start : a \in Int
    BY <1>1 DEF Start
  <2>3. reports[r][starts'[r]] = << >>
    BY <2>1, <2>2 DEF OrderInv
  <2>4. Upto(<< >>, 0) /\ Below(<< >>, 0)
    BY SomeStage DEF Upto, Below, Measured, StageIndex
  <2>5. \A a \in Start : a > starts'[r] => a > starts[r]
    BY <2>1, <2>2
  <2>6. \A q \in Role : q # r => At(q, "down")' = At(q, "down") /\ Stage(q)' = Stage(q)
    BY <2>1 DEF At, Stage
  <2> QED
    BY <2>1, <2>3, <2>4, <2>5, <2>6 DEF OrderInv
<1>5. ASSUME NEW r \in Role, KillScript(r) \/ FinishScript(r)
      PROVE  OrderInv'
  <2>1. /\ UNCHANGED <<reports, starts>> /\ At(r, "down")'
        /\ \A q \in Role : q # r => script'[q] = script[q]
    BY <1>5, ScriptMoves DEF KillScript, FinishScript
  <2>2. \A q \in Role : q # r => At(q, "down")' = At(q, "down") /\ Stage(q)' = Stage(q)
    BY <2>1 DEF At, Stage
  <2> QED
    BY <2>1, <2>2 DEF OrderInv
<1>6. CASE SpawnClients \/ FailClientStage \/ SpawnGateway \/ FailServerStage
  <2>1. UNCHANGED <<reports, starts>>
    BY <1>6 DEF SpawnClients, FailClientStage, SpawnGateway, FailServerStage
  <2>2. ASSUME NEW r \in Role, \A q \in Role : q # r => script'[q] = script[q],
               At(r, "down")' \/ (~ At(r, "down") /\ Stage(r)' = Stage(r))
        PROVE  OrderInv'
    <3>1. \A q \in Role : q # r => At(q, "down")' = At(q, "down") /\ Stage(q)' = Stage(q)
      BY <2>2 DEF At, Stage
    <3> QED
      BY <2>1, <2>2, <3>1 DEF OrderInv
  <2>3. CASE SpawnClients
    <3>1. script'["server"] = script["server"] /\ ~ At("client", "down")
      BY <2>3, ScriptMoves DEF SpawnClients, At
    <3>2. Stage("client")' = Stage("client")
      BY <1>0, <1>1, <2>3 DEF SpawnClients, Goes, Stage
    <3> QED
      BY <1>0, <2>2, <3>1, <3>2
  <2>4. CASE FailClientStage
    BY <1>0, <2>2, <2>4, ScriptMoves
  <2>5. CASE SpawnGateway
    <3>1. script'["client"] = script["client"] /\ Stage("server")' = Stage("server") /\ ~ At("server", "down")
      BY <2>5, ScriptMoves DEF SpawnGateway, At
    <3> QED
      BY <1>0, <2>2, <3>1
  <2>6. CASE FailServerStage
    BY <1>0, <2>2, <2>6, ScriptMoves
  <2> QED
    BY <1>6, <2>3, <2>4, <2>5, <2>6
\* A stage that ended well.
<1>7. ASSUME NEW r \in Role, At(r, "running"), NEW arcs \in [PairId -> 0 .. MaxStarts],
             Write(r, Stage(r), arcs), Stage(r)' = Stage(r) + 1, UNCHANGED starts,
             \A q \in Role : q # r => script'[q] = script[q]
      PROVE  OrderInv'
  <2>1. starts[r] \in Start /\ Stage(r) \in StageIndex /\ ~ At(r, "down")
    BY <1>1, <1>7 DEF At
  <2>2. InOrder(reports[r][starts[r]]) /\ Upto(reports[r][starts[r]], Stage(r)) /\ Below(reports[r][starts[r]], Stage(r))
    BY <2>1 DEF OrderInv
  <2>3. /\ InOrder(reports'[r][starts[r]])
        /\ Upto(reports'[r][starts[r]], Stage(r) + 1) /\ Below(reports'[r][starts[r]], Stage(r) + 1)
        /\ \A q \in Role, a \in Start : q # r \/ a # starts[r] => reports'[q][a] = reports[q][a]
    <3> DEFINE i == Stage(r)
    <3>1. i \in StageIndex /\ Write(r, i, arcs) /\ Upto(reports[r][starts[r]], i) /\ Below(reports[r][starts[r]], i)
      BY <1>7, <2>1, <2>2
    <3> HIDE DEF i
    <3>2. /\ InOrder(reports'[r][starts[r]])
          /\ Upto(reports'[r][starts[r]], i + 1) /\ Below(reports'[r][starts[r]], i + 1)
          /\ \A q \in Role, a \in Start : q # r \/ a # starts[r] => reports'[q][a] = reports[q][a]
      BY <1>0, <1>7, <2>1, <2>2, <3>1, WriteOrder
    <3> QED
      BY <3>2 DEF i
  <2>4. \A q \in Role : q # r => At(q, "down")' = At(q, "down") /\ Stage(q)' = Stage(q)
    BY <1>7 DEF At, Stage
  <2>5. ~ starts[r] > starts[r]
    BY <2>1 DEF Start
  <2>6. ASSUME NEW q \in Role
        PROVE  /\ \A a \in Start : InOrder(reports'[q][a])
               /\ \A a \in Start : a > starts'[q] => reports'[q][a] = << >>
               /\ ~ At(q, "down")' => Upto(reports'[q][starts'[q]], Stage(q)') /\ Below(reports'[q][starts'[q]], Stage(q)')
    <3>1. CASE q = r
      BY <1>7, <2>1, <2>3, <2>5, <3>1 DEF OrderInv
    <3>2. CASE q # r
      <4>1. \A a \in Start : reports'[q][a] = reports[q][a]
        BY <2>3, <3>2
      <4>2. ~ At(q, "down") => starts[q] \in Start
        BY <1>1
      <4> QED
        BY <1>7, <2>4, <3>2, <4>1, <4>2 DEF OrderInv
    <3> QED
      BY <3>1, <3>2
  <2> QED
    BY <2>6 DEF OrderInv
<1>8. CASE CollectClients
  <2>1. /\ At("client", "running") /\ Stage("client")' = Stage("client") + 1 /\ UNCHANGED starts
        /\ script'["server"] = script["server"]
    BY <1>8, ScriptMoves DEF CollectClients
  <2>2. starts["client"] \in 0 .. MaxStarts /\ 0 \in 0 .. MaxStarts
    BY <1>0, <1>1, BoundTypes
  <2>3. PICK arcs \in [PairId -> 0 .. MaxStarts] : Write("client", Stage("client"), arcs)
    BY <1>8, <2>2 DEF CollectClients
  <2> QED
    BY <1>0, <1>7, <2>1, <2>3
<1>9. CASE CollectGateway
  <2>1. /\ At("server", "running") /\ UNCHANGED starts /\ script'["client"] = script["client"]
    BY <1>9, ScriptMoves DEF CollectGateway
  <2>2. Stage("server")' = Stage("server") + 1
    <3>1. script' = [script EXCEPT !["server"] = [at |-> "between", stage |-> Stage("server") + 1]]
      BY <1>9 DEF CollectGateway, Goes
    <3> QED
      BY <1>0, <1>1, <3>1 DEF Stage
  <2>3. PICK arcs \in [PairId -> 0 .. MaxStarts] : Write("server", Stage("server"), arcs)
    <3>1. [k \in PairId |-> result.route[k].client] \in [PairId -> 0 .. MaxStarts]
      BY <1>0 DEF TypeOK, GatewayType
    <3> QED
      BY <1>9, <3>1 DEF CollectGateway
  <2> QED
    BY <1>0, <1>7, <2>1, <2>2, <2>3
<1> QED
  BY <1>3, <1>4, <1>5, <1>6, <1>8, <1>9, StepCases, ScriptsFrame DEF vars

\* A completed report is whole.
LEMMA CompletedWhole ==
    ASSUME TypeOK, OrderInv, NEW r \in Role, NEW a \in Start, Completed(r, a)
    PROVE  Whole(reports[r][a])
<1> DEFINE list == reports[r][a]
           n    == Len(list)
<1>1. list \in Seq(Sample) /\ InOrder(list)
  BY DEF TypeOK, OrderInv
<1>2. list # << >> /\ list[n].stage = StageCount - 1
  BY DEF Completed, Last
<1> HIDE DEF list
<1>3. n \in Nat /\ DOMAIN list = 1 .. n /\ n \in 1 .. n
  BY <1>1, <1>2
<1>4. StageCount \in Nat /\ \A i \in Measured : i \in Int /\ (i < StageCount - 1 \/ i = StageCount - 1)
  BY SomeStage DEF Measured, StageIndex
<1>5. \A i \in Measured : \E x \in DOMAIN list : list[x].stage = i
  BY <1>1, <1>2, <1>3, <1>4 DEF InOrder, Upto
<1>6. ASSUME NEW x \in DOMAIN list, NEW y \in DOMAIN list, list[x].stage = list[y].stage
      PROVE  x = y
  <2>1. list[x] \in Sample /\ list[y] \in Sample
    BY <1>1
  <2>2. list[x].stage \in Int /\ list[y].stage \in Int
    BY <1>4, <2>1 DEF Sample
  <2>3. ~ x < y /\ ~ y < x
    BY <1>1, <1>6, <2>2 DEF InOrder
  <2> QED
    BY <1>3, <2>3
<1>7. Whole(list)
  BY <1>1, <1>5, <1>6 DEF Whole
<1> QED
  BY <1>7 DEF list

\* Reports of the same sessions, complete on both sides.
LEMMA InvAccepted == IInv /\ OrderInv => CompletedAccepted
<1> SUFFICES ASSUME IInv, OrderInv, NEW a \in Start, NEW b \in Start, Completed("client", a), Completed("server", b)
             PROVE  Accepted(Payload("client", a), Payload("server", b))
  BY DEF CompletedAccepted
<1>1. TypeOK /\ "client" \in Role /\ "server" \in Role
  BY DEF IInv, Role
<1>2. Whole(reports["client"][a]) /\ Whole(reports["server"][b])
  BY <1>1, CompletedWhole
<1>3. \A x \in DOMAIN reports["client"][a], y \in DOMAIN reports["server"][b] :
         reports["client"][a][x].stage = reports["server"][b][y].stage =>
            reports["client"][a][x].arcs = reports["server"][b][y].arcs
  BY InvOneExecution DEF OneExecution
<1> QED
  BY <1>2, <1>3, WholeAccepted

-----------------------------------------------------------------------------
(* A finite set of integers has a greatest element: among its upper parts, a
   family of finite sets, one has no other inside it. *)
LEMMA GreatestExists ==
    ASSUME NEW S, S \subseteq Int, S # {}, IsFiniteSet(S)
    PROVE  \E m \in S : \A y \in S : y <= m
<1> DEFINE Up(x) == {y \in S : y >= x}
           T == {Up(x) : x \in S}
<1>1. T \subseteq FiniteSubsetsOf(S) /\ T # {}
  <2>1. ASSUME NEW x \in S
        PROVE  Up(x) \in FiniteSubsetsOf(S)
    <3>1. Up(x) \in SUBSET S
      OBVIOUS
    <3> HIDE DEF Up
    <3> QED
      BY <3>1, FS_Subset DEF FiniteSubsetsOf
  <2> HIDE DEF Up
  <2> QED
    BY <2>1
<1>2. IsWellFoundedOn(StrictSubsetOrdering(S), FiniteSubsetsOf(S))
  BY FS_StrictSubsetOrderingWellFounded
<1> HIDE DEF T
<1>3. PICK U \in T : \A V \in T : <<V, U>> \notin StrictSubsetOrdering(S)
  BY <1>1, <1>2, WFMin
<1>4. PICK m \in S : U = Up(m)
  BY <1>3 DEF T
<1>5. ASSUME NEW y \in S, y > m
      PROVE  FALSE
  <2>1. Up(y) \subseteq Up(m) /\ m \in Up(m) /\ m \notin Up(y)
    <3>1. y \in Int /\ m \in Int /\ y > m /\ \A x \in S : x \in Int
      BY <1>5
    <3>2. \A x \in S : x >= y => x >= m
      BY <3>1
    <3>3. m >= m /\ ~ (m >= y)
      BY <3>1
    <3> QED
      BY <3>2, <3>3
  <2>0. Up(y) \in SUBSET S /\ Up(m) \in SUBSET S
    OBVIOUS
  <2> HIDE DEF Up
  <2>2. Up(y) \in T /\ Up(y) \in SUBSET S /\ Up(m) \in SUBSET S
    BY <2>0 DEF T
  <2>3. <<Up(y), Up(m)>> \in StrictSubsetOrdering(S)
    BY <2>1, <2>2 DEF StrictSubsetOrdering
  <2> QED
    BY <1>3, <1>4, <2>2, <2>3
<1> QED
  BY <1>5

(* What Max returns of a nonempty set of p-values. *)
LEMMA MaxFacts ==
    ASSUME NEW S, S \subseteq 0 .. Unit, S # {}
    PROVE  Max(S) \in S /\ \A y \in S : y <= Max(S)
<1>1. IsFiniteSet(0 .. Unit)
  BY UnitAssumption, FS_Interval
<1>0. S \in SUBSET (0 .. Unit)
  OBVIOUS
<1>2. IsFiniteSet(S) /\ S \subseteq Int
  <2>1. IsFiniteSet(S)
    BY <1>0, <1>1, FS_Subset
  <2>2. S \subseteq Int
    BY UnitAssumption
  <2> QED
    BY <2>1, <2>2
<1>3. \E m \in S : \A y \in S : m >= y
  BY <1>2, GreatestExists
<1>4. Max(S) = CHOOSE x \in S : \A y \in S : x >= y
  BY DEF Max
<1>5. Max(S) \in S /\ \A y \in S : Max(S) >= y
  BY <1>3, <1>4
<1> QED
  BY <1>2, <1>5

(* What Min returns of two natural numbers. *)
LEMMA MinFacts ==
    ASSUME NEW a \in Nat, NEW b \in Nat
    PROVE  Min({a, b}) = IF a <= b THEN a ELSE b
<1>1. Min({a, b}) = CHOOSE x \in {a, b} : \A y \in {a, b} : x <= y
  BY DEF Min
<1> QED
  BY <1>1

(* Two sets of p-values each of which is bounded by the other have one maximum. *)
LEMMA MaxBounded ==
    ASSUME NEW A, NEW B, A \subseteq 0 .. Unit, B \subseteq 0 .. Unit, A # {}, B # {},
           \A a \in A : \E b \in B : a <= b
    PROVE  Max(A) <= Max(B)
<1>0. Max(A) \in A
  BY MaxFacts
<1>1. Max(A) \in A /\ Max(B) \in B /\ \A b \in B : b <= Max(B)
  BY <1>0, MaxFacts
<1>2. PICK b \in B : Max(A) <= b
  BY <1>1
<1>3. Max(A) \in 0 .. Unit /\ b \in 0 .. Unit /\ Max(B) \in 0 .. Unit /\ b <= Max(B)
  BY <1>1
<1> QED
  BY <1>2, <1>3, UnitAssumption

-----------------------------------------------------------------------------
(* The sort *)

(* The rows that the stable sort puts before row i, and i itself. *)
Before(p, i) == {j \in DOMAIN p : p[j] < p[i] \/ (p[j] = p[i] /\ j <= i)}

(* A row and the rows behind it. *)
Behind(p, i) == (DOMAIN p \ Before(p, i)) \cup {i}

(* A rank is a position, and counts the rows behind it as well. *)
LEMMA RankType ==
    ASSUME NEW n \in Nat, NEW p \in [1 .. n -> 0 .. Unit], NEW i \in 1 .. n
    PROVE  /\ IsFiniteSet(1 .. n) /\ Cardinality(1 .. n) = n
           /\ Before(p, i) \in SUBSET (1 .. n) /\ i \in Before(p, i)
           /\ RankOf(p, i) \in 1 .. n
           /\ Cardinality(Behind(p, i)) = n - RankOf(p, i) + 1
<1>1. IsFiniteSet(1 .. n) /\ Cardinality(1 .. n) = n
  BY FS_Interval
<1>2. Before(p, i) \in SUBSET (1 .. n) /\ i \in Before(p, i)
  BY UnitAssumption DEF Before
<1>3. RankOf(p, i) = Cardinality(Before(p, i))
  BY DEF RankOf, Before
<1>4. IsFiniteSet(Before(p, i)) /\ Cardinality(Before(p, i)) \in Nat /\ Cardinality(Before(p, i)) <= n
  BY <1>1, <1>2, FS_Subset, FS_CardinalityType
<1>5. Cardinality(Before(p, i)) # 0
  BY <1>2, <1>4, FS_EmptySet
<1>6. /\ IsFiniteSet((1 .. n) \ Before(p, i))
      /\ Cardinality((1 .. n) \ Before(p, i)) = n - RankOf(p, i)
  <2>1. (1 .. n) \cap Before(p, i) = Before(p, i)
    BY <1>2
  <2>2. Cardinality((1 .. n) \ Before(p, i)) = n - Cardinality(Before(p, i))
    BY <1>1, <2>1, FS_Difference
  <2>3. IsFiniteSet((1 .. n) \ Before(p, i))
    BY <1>1, FS_Difference
  <2> QED
    BY <1>3, <2>2, <2>3
<1>7. Cardinality(((1 .. n) \ Before(p, i)) \cup {i}) = n - RankOf(p, i) + 1
  BY <1>2, <1>6, FS_AddElement
<1>8. DOMAIN p = 1 .. n
  OBVIOUS
<1> QED
  BY <1>1, <1>2, <1>3, <1>4, <1>5, <1>7, <1>8 DEF Behind

(* A row that is before another has the smaller rank. *)
LEMMA RankOrder ==
    ASSUME NEW n \in Nat, NEW p \in [1 .. n -> 0 .. Unit],
           NEW i \in 1 .. n, NEW k \in 1 .. n, i \in Before(p, k), i # k
    PROVE  RankOf(p, i) < RankOf(p, k)
<1>1. p[i] \in Int /\ p[k] \in Int /\ \A j \in 1 .. n : p[j] \in Int
  BY UnitAssumption
<1>2. p[i] < p[k] \/ (p[i] = p[k] /\ i <= k)
  BY DEF Before
<1>3. Before(p, i) \subseteq Before(p, k)
  <2> SUFFICES ASSUME NEW j \in Before(p, i)
               PROVE  j \in Before(p, k)
    OBVIOUS
  <2>1. j \in 1 .. n /\ (p[j] < p[i] \/ (p[j] = p[i] /\ j <= i))
    BY DEF Before
  <2>2. p[j] < p[k] \/ (p[j] = p[k] /\ j <= k)
    BY <1>1, <1>2, <2>1
  <2> QED
    BY <2>1, <2>2 DEF Before
<1>4. k \notin Before(p, i)
  BY <1>1, <1>2 DEF Before
<1>5. k \in Before(p, k) /\ IsFiniteSet(Before(p, k))
  BY RankType, FS_Subset
<1>6. /\ Cardinality(Before(p, i)) <= Cardinality(Before(p, k))
      /\ Cardinality(Before(p, i)) # Cardinality(Before(p, k))
  BY <1>3, <1>4, <1>5, FS_Subset
<1>7. RankOf(p, i) = Cardinality(Before(p, i)) /\ RankOf(p, k) = Cardinality(Before(p, k))
  BY DEF RankOf, Before
<1>8. RankOf(p, i) \in 1 .. n /\ RankOf(p, k) \in 1 .. n
  BY RankType
<1> QED
  BY <1>6, <1>7, <1>8

(* Every rank is taken by exactly one row. *)
LEMMA RankedInverse ==
    ASSUME NEW n \in Nat, NEW p \in [1 .. n -> 0 .. Unit]
    PROVE  /\ \A i \in 1 .. n : Ranked(p)[RankOf(p, i)] = i
           /\ \A rank \in 1 .. n : Ranked(p)[rank] \in 1 .. n /\ RankOf(p, Ranked(p)[rank]) = rank
<1> DEFINE f == [i \in 1 .. n |-> RankOf(p, i)]
<1>1. f \in [1 .. n -> 1 .. n]
  BY RankType
<1>2. ASSUME NEW i \in 1 .. n, NEW k \in 1 .. n, RankOf(p, i) = RankOf(p, k)
      PROVE  i = k
  <2>1. p[i] \in Int /\ p[k] \in Int
    BY UnitAssumption
  <2>2. i \in Before(p, k) \/ k \in Before(p, i)
    BY <2>1 DEF Before
  <2>3. RankOf(p, i) \in 1 .. n /\ RankOf(p, k) \in 1 .. n
    BY RankType
  <2>4. ~ RankOf(p, i) < RankOf(p, k) /\ ~ RankOf(p, k) < RankOf(p, i)
    BY <1>2, <2>3
  <2> QED
    BY <2>2, <2>4, RankOrder
<1>3. f \in Injection(1 .. n, 1 .. n)
  BY <1>1, <1>2 DEF Injection, IsInjective
<1>4. f \in Surjection(1 .. n, 1 .. n)
  BY <1>3, FS_Interval, FS_Injection
<1>5. \A rank \in 1 .. n : \E i \in 1 .. n : RankOf(p, i) = rank
  BY <1>4 DEF Surjection
<1>6. \A rank \in 1 .. n : Ranked(p)[rank] = CHOOSE i \in 1 .. n : RankOf(p, i) = rank
  BY DEF Ranked
<1>7. ASSUME NEW rank \in 1 .. n
      PROVE  Ranked(p)[rank] \in 1 .. n /\ RankOf(p, Ranked(p)[rank]) = rank
  BY <1>5, <1>6
<1>8. ASSUME NEW i \in 1 .. n
      PROVE  Ranked(p)[RankOf(p, i)] = i
  BY <1>2, <1>7, RankType
<1> QED
  BY <1>7, <1>8

-----------------------------------------------------------------------------
(* Holm's procedure *)

\* What row q contributes to the adjustment of the rows F.
AtLeast(p, F, q) == {s \in F : p[s] >= p[q]}
StepBound(p, F, q) == Min({Unit, Cardinality(AtLeast(p, F, q)) * p[q]})

\* Holm's adjustment of row r among the rows F, without an order of the rows.
Steps(p, F, r) == {StepBound(p, F, q) : q \in {q \in F : p[q] <= p[r]}}
StepDown(p, F, r) == Max(Steps(p, F, r))

LEMMA ProductMonotone ==
    ASSUME NEW a \in Nat, NEW b \in Nat, NEW c \in Nat, a <= b
    PROVE  a * c \in Nat /\ a * c <= b * c
OBVIOUS

\* A larger family never lowers a bound, and every bound is a p-value.
LEMMA BoundMonotone ==
    ASSUME NEW a \in Nat, NEW b \in Nat, NEW c \in 0 .. Unit, a <= b
    PROVE  /\ Min({Unit, a * c}) \in 0 .. Unit
           /\ Min({Unit, a * c}) <= Min({Unit, b * c})
<1>1. c \in Nat /\ Unit \in Nat
  BY UnitAssumption
<1>2. a * c \in Nat /\ b * c \in Nat /\ a * c <= b * c
  BY <1>1, ProductMonotone
<1>3. /\ Min({Unit, a * c}) = IF Unit <= a * c THEN Unit ELSE a * c
      /\ Min({Unit, b * c}) = IF Unit <= b * c THEN Unit ELSE b * c
  BY <1>1, <1>2, MinFacts
<1> HIDE DEF Min
<1> QED
  BY <1>1, <1>2, <1>3

\* The bounds of a finite family of p-values are p-values.
LEMMA StepsType ==
    ASSUME NEW F, IsFiniteSet(F), NEW p, \A s \in F : p[s] \in 0 .. Unit, NEW r \in F
    PROVE  /\ \A q \in F : /\ AtLeast(p, F, q) \in SUBSET F
                           /\ IsFiniteSet(AtLeast(p, F, q))
                           /\ Cardinality(AtLeast(p, F, q)) \in Nat
                           /\ StepBound(p, F, q) \in 0 .. Unit
           /\ Steps(p, F, r) \subseteq 0 .. Unit
           /\ Steps(p, F, r) # {}
           /\ StepBound(p, F, r) \in Steps(p, F, r)
<1>1. ASSUME NEW q \in F
      PROVE  /\ AtLeast(p, F, q) \in SUBSET F
             /\ IsFiniteSet(AtLeast(p, F, q))
             /\ Cardinality(AtLeast(p, F, q)) \in Nat
             /\ StepBound(p, F, q) \in 0 .. Unit
  <2>1. AtLeast(p, F, q) \in SUBSET F
    BY DEF AtLeast
  <2>2. IsFiniteSet(AtLeast(p, F, q)) /\ Cardinality(AtLeast(p, F, q)) \in Nat
    BY <2>1, FS_Subset, FS_CardinalityType
  <2>3. StepBound(p, F, q) \in 0 .. Unit
    <3>1. Cardinality(AtLeast(p, F, q)) <= Cardinality(AtLeast(p, F, q)) /\ p[q] \in 0 .. Unit
      BY <2>2
    <3>2. Min({Unit, Cardinality(AtLeast(p, F, q)) * p[q]}) \in 0 .. Unit
      BY <2>2, <3>1, BoundMonotone
    <3> QED
      BY <3>2 DEF StepBound
  <2> QED
    BY <2>1, <2>2, <2>3
<1>2. p[r] <= p[r]
  BY UnitAssumption
<1>3. StepBound(p, F, r) \in Steps(p, F, r)
  BY <1>2 DEF Steps
<1>4. Steps(p, F, r) \subseteq 0 .. Unit
  BY <1>1 DEF Steps
<1> QED
  BY <1>1, <1>3, <1>4

\* The candidate of a rank, in terms of the row that has it.
LEMMA CandidateOf ==
    ASSUME NEW n \in Nat, NEW p \in [1 .. n -> 0 .. Unit], NEW i \in 1 .. n
    PROVE  /\ Candidates(p)[RankOf(p, i)] = Min({Unit, Cardinality(Behind(p, i)) * p[i]})
           /\ Behind(p, i) \subseteq AtLeast(p, 1 .. n, i)
<1>1. Len(p) = n /\ DOMAIN p = 1 .. n
  OBVIOUS
<1>2. RankOf(p, i) \in 1 .. n /\ Cardinality(Behind(p, i)) = n - RankOf(p, i) + 1
  BY RankType
<1>3. Ranked(p)[RankOf(p, i)] = i
  BY RankedInverse
<1>4. Candidates(p)[RankOf(p, i)] =
        Min({Unit, (Len(p) - RankOf(p, i) + 1) * p[Ranked(p)[RankOf(p, i)]]})
  BY <1>1, <1>2 DEF Candidates
<1>5. Behind(p, i) \subseteq AtLeast(p, 1 .. n, i)
  <2>1. \A j \in 1 .. n : p[j] \in Int
    BY UnitAssumption
  <2> QED
    BY <1>1, <2>1 DEF Behind, Before, AtLeast
<1> QED
  BY <1>1, <1>2, <1>3, <1>4, <1>5

\* Among the rows of one p-value there is a first.
LEMMA FirstTie ==
    ASSUME NEW n \in Nat, NEW p \in [1 .. n -> 0 .. Unit], NEW q \in 1 .. n
    PROVE  \E f \in 1 .. n : p[f] = p[q] /\ \A j \in 1 .. n : p[j] = p[q] => f <= j
<1> DEFINE S == {n - j : j \in {j \in 1 .. n : p[j] = p[q]}}
<1>1. S \in SUBSET (0 .. n) /\ n - q \in S
  OBVIOUS
<1>2. IsFiniteSet(0 .. n)
  BY FS_Interval
<1>3. IsFiniteSet(S) /\ S \subseteq Int /\ S # {}
  <2>1. IsFiniteSet(S)
    <3> HIDE DEF S
    <3> QED
      BY <1>1, <1>2, FS_Subset
  <2>2. S \subseteq Int
    <3>1. 0 .. n \subseteq Int
      OBVIOUS
    <3> HIDE DEF S
    <3> QED
      BY <1>1, <3>1
  <2> QED
    BY <1>1, <2>1, <2>2
<1>4. PICK m \in S : \A y \in S : y <= m
  <2> HIDE DEF S
  <2> QED
    BY <1>3, GreatestExists
<1>5. PICK f \in 1 .. n : p[f] = p[q] /\ m = n - f
  BY <1>4
<1>6. ASSUME NEW j \in 1 .. n, p[j] = p[q]
      PROVE  f <= j
  <2>1. n - j \in S
    BY <1>6
  <2>2. n - j <= n - f
    BY <1>4, <1>5, <2>1
  <2> QED
    BY <2>2
<1> QED
  BY <1>5, <1>6

(* The procedure on a sequence of p-values comes to the step-down adjustment,
   ties included. *)
THEOREM HolmIsStepDown ==
    ASSUME NEW n \in Nat, NEW p \in [1 .. n -> 0 .. Unit], NEW i \in 1 .. n
    PROVE  HolmAdjust(p)[i] = StepDown(p, 1 .. n, i)
<1> DEFINE A == {Candidates(p)[rank] : rank \in 1 .. RankOf(p, i)}
           B == Steps(p, 1 .. n, i)
<1>0. IsFiniteSet(1 .. n) /\ \A s \in 1 .. n : p[s] \in 0 .. Unit
  BY FS_Interval
<1>1. B \subseteq 0 .. Unit /\ B # {}
  BY <1>0, StepsType
<1>2. RankOf(p, i) \in 1 .. n /\ \A j \in 1 .. n : RankOf(p, j) \in 1 .. n
  BY RankType
<1>3. ASSUME NEW j \in 1 .. n
      PROVE  /\ Candidates(p)[RankOf(p, j)] \in 0 .. Unit
             /\ Candidates(p)[RankOf(p, j)] <= StepBound(p, 1 .. n, j)
  <2>1. Behind(p, j) \in SUBSET AtLeast(p, 1 .. n, j)
    BY CandidateOf
  <2>2. IsFiniteSet(AtLeast(p, 1 .. n, j)) /\ Cardinality(AtLeast(p, 1 .. n, j)) \in Nat
    BY <1>0, StepsType
  <2>3. /\ Cardinality(Behind(p, j)) \in Nat
        /\ Cardinality(Behind(p, j)) <= Cardinality(AtLeast(p, 1 .. n, j))
    BY <2>1, <2>2, FS_Subset, FS_CardinalityType
  <2>4. Candidates(p)[RankOf(p, j)] = Min({Unit, Cardinality(Behind(p, j)) * p[j]})
    BY CandidateOf
  <2>5. p[j] \in 0 .. Unit
    OBVIOUS
  <2> QED
    BY <2>2, <2>3, <2>4, <2>5, BoundMonotone DEF StepBound
<1>4. ASSUME NEW rank \in 1 .. RankOf(p, i)
      PROVE  \E j \in 1 .. n : RankOf(p, j) = rank /\ p[j] <= p[i]
  <2>1. rank \in 1 .. n
    BY <1>2
  <2>2. PICK j \in 1 .. n : RankOf(p, j) = rank
    BY <2>1, RankedInverse
  <2>3. ~ RankOf(p, i) < RankOf(p, j)
    BY <1>2, <2>2
  <2>4. i \in Before(p, j) => i = j
    BY <2>3, RankOrder
  <2>5. p[i] \in Int /\ p[j] \in Int
    BY UnitAssumption
  <2>6. p[j] <= p[i]
    BY <2>4, <2>5 DEF Before
  <2> QED
    BY <2>2, <2>6
<1>5. A \subseteq 0 .. Unit /\ A # {}
  <2>1. A \subseteq 0 .. Unit
    BY <1>3, <1>4
  <2>2. RankOf(p, i) \in 1 .. RankOf(p, i)
    BY <1>2
  <2>3. Candidates(p)[RankOf(p, i)] \in A
    BY <2>2
  <2> QED
    BY <2>1, <2>3
<1>6. \A a \in A : \E b \in B : a <= b
  BY <1>3, <1>4 DEF Steps
<1>7. ASSUME NEW q \in 1 .. n, p[q] <= p[i]
      PROVE  \E rank \in 1 .. RankOf(p, i) : StepBound(p, 1 .. n, q) <= Candidates(p)[rank]
  <2>1. PICK f \in 1 .. n : p[f] = p[q] /\ \A j \in 1 .. n : p[j] = p[q] => f <= j
    BY FirstTie
  <2>2. \A j \in 1 .. n : p[j] \in Int
    BY UnitAssumption
  <2>3. f \in Before(p, i)
    BY <1>7, <2>1, <2>2 DEF Before
  <2>4. RankOf(p, f) \in 1 .. RankOf(p, i)
    <3>1. f = i \/ RankOf(p, f) < RankOf(p, i)
      BY <2>3, RankOrder
    <3>2. RankOf(p, f) \in 1 .. n /\ RankOf(p, i) \in 1 .. n
      BY <1>2
    <3>3. RankOf(p, f) <= RankOf(p, i)
      <4>1. CASE f = i
        BY <3>2, <4>1
      <4>2. CASE RankOf(p, f) < RankOf(p, i)
        BY <3>2, <4>2
      <4> QED
        BY <3>1, <4>1, <4>2
    <3> QED
      BY <3>2, <3>3
  <2>5. AtLeast(p, 1 .. n, q) = AtLeast(p, 1 .. n, f)
    BY <2>1 DEF AtLeast
  <2>6. AtLeast(p, 1 .. n, f) \subseteq Behind(p, f)
    <3> SUFFICES ASSUME NEW s \in 1 .. n, p[s] >= p[f], s # f
                 PROVE  s \notin Before(p, f)
      BY DEF AtLeast, Behind
    <3>1. p[s] = p[f] => f <= s
      BY <2>1
    <3> QED
      BY <2>2, <3>1 DEF Before
  <2>7. Behind(p, f) = AtLeast(p, 1 .. n, q)
    BY <2>5, <2>6, CandidateOf
  <2>8. Candidates(p)[RankOf(p, f)] = StepBound(p, 1 .. n, q)
    BY <2>1, <2>7, CandidateOf DEF StepBound
  <2>9. StepBound(p, 1 .. n, q) \in Int
    BY <1>0, StepsType, UnitAssumption
  <2> QED
    BY <2>4, <2>8, <2>9
<1>8. \A b \in B : \E a \in A : b <= a
  BY <1>7 DEF Steps
<1>9. HolmAdjust(p)[i] = Max(A)
  BY DEF HolmAdjust
<1> HIDE DEF A, B
<1>10. Max(A) <= Max(B) /\ Max(B) <= Max(A)
  BY <1>1, <1>5, <1>6, <1>8, MaxBounded
<1>11. Max(A) \in 0 .. Unit /\ Max(B) \in 0 .. Unit
  BY <1>1, <1>5, MaxFacts
<1>12. Max(A) = Max(B)
  BY <1>10, <1>11, UnitAssumption
<1> QED
  BY <1>9, <1>12 DEF B, StepDown

\* A finite set is laid out as a sequence once each.
LEMMA SetToSeqFacts ==
    ASSUME NEW F, IsFiniteSet(F)
    PROVE  /\ Cardinality(F) \in Nat
           /\ SetToSeq(F) \in Bijection(1 .. Cardinality(F), F)
<1>1. Cardinality(F) \in Nat /\ ExistsBijection(1 .. Cardinality(F), F)
  BY FS_CardinalityType
<1>2. \E f \in [1 .. Cardinality(F) -> F] : IsInjective(f)
  BY <1>1 DEF ExistsBijection, Bijection, Injection
<1>3. SetToSeq(F) \in [1 .. Cardinality(F) -> F] /\ IsInjective(SetToSeq(F))
  BY <1>2 DEF SetToSeq
<1>4. SetToSeq(F) \in Injection(1 .. Cardinality(F), F)
  BY <1>3 DEF Injection
<1>5. IsFiniteSet(1 .. Cardinality(F)) /\ Cardinality(1 .. Cardinality(F)) = Cardinality(F)
  BY <1>1, FS_Interval
<1>6. SetToSeq(F) \in Surjection(1 .. Cardinality(F), F)
  BY <1>4, <1>5, FS_Injection
<1> QED
  BY <1>1, <1>4, <1>6 DEF Bijection

\* Sets in one-to-one correspondence have one cardinality.
LEMMA SameCardinality ==
    ASSUME NEW S, NEW T, NEW f \in [S -> T], IsFiniteSet(S),
           \A x, y \in S : f[x] = f[y] => x = y,
           \A t \in T : \E x \in S : f[x] = t
    PROVE  IsFiniteSet(T) /\ Cardinality(T) = Cardinality(S)
<1>1. f \in Bijection(S, T)
  BY DEF Bijection, Injection, Surjection, IsInjective
<1> QED
  BY <1>1, FS_Bijection DEF ExistsBijection

\* The step-down adjustment does not depend on how the rows are named.
LEMMA StepDownRenamed ==
    ASSUME NEW F, NEW n \in Nat, NEW rows \in Bijection(1 .. n, F),
           NEW p, \A s \in F : p[s] \in 0 .. Unit, NEW i \in 1 .. n
    PROVE  StepDown([k \in 1 .. n |-> p[rows[k]]], 1 .. n, i) = StepDown(p, F, rows[i])
<1> DEFINE g == [k \in 1 .. n |-> p[rows[k]]]
<1>1. /\ rows \in [1 .. n -> F]
      /\ \A j, k \in 1 .. n : rows[j] = rows[k] => j = k
      /\ \A s \in F : \E k \in 1 .. n : rows[k] = s
  BY DEF Bijection, Injection, Surjection, IsInjective
<1>2. \A k \in 1 .. n : g[k] = p[rows[k]] /\ rows[k] \in F
  BY <1>1
<1>3. ASSUME NEW q \in 1 .. n
      PROVE  StepBound(g, 1 .. n, q) = StepBound(p, F, rows[q])
  <2> DEFINE S == AtLeast(g, 1 .. n, q)
             T == AtLeast(p, F, rows[q])
             f == [s \in S |-> rows[s]]
  <2>1. S \in SUBSET (1 .. n) /\ IsFiniteSet(1 .. n)
    BY FS_Interval DEF AtLeast
  <2>2. IsFiniteSet(S)
    BY <2>1, FS_Subset
  <2>3. f \in [S -> T]
    BY <1>2 DEF AtLeast
  <2>4. \A x, y \in S : f[x] = f[y] => x = y
    BY <1>1, <2>1
  <2>5. \A t \in T : \E x \in S : f[x] = t
    <3> SUFFICES ASSUME NEW t \in F, p[t] >= p[rows[q]]
                 PROVE  \E x \in S : f[x] = t
      BY DEF AtLeast
    <3>1. PICK x \in 1 .. n : rows[x] = t
      BY <1>1
    <3>2. x \in S
      BY <1>2, <3>1 DEF AtLeast
    <3> QED
      BY <3>1, <3>2
  <2> HIDE DEF S, T, f
  <2>6. Cardinality(T) = Cardinality(S)
    BY <2>2, <2>3, <2>4, <2>5, SameCardinality
  <2> QED
    BY <1>2, <2>6 DEF StepBound, S, T
<1>4. Steps(g, 1 .. n, i) \subseteq Steps(p, F, rows[i])
  <2> SUFFICES ASSUME NEW q \in 1 .. n, g[q] <= g[i]
               PROVE  StepBound(g, 1 .. n, q) \in Steps(p, F, rows[i])
    BY DEF Steps
  <2> QED
    BY <1>2, <1>3 DEF Steps
<1>5. Steps(p, F, rows[i]) \subseteq Steps(g, 1 .. n, i)
  <2> SUFFICES ASSUME NEW t \in F, p[t] <= p[rows[i]]
               PROVE  StepBound(p, F, t) \in Steps(g, 1 .. n, i)
    BY DEF Steps
  <2>1. PICK q \in 1 .. n : rows[q] = t
    BY <1>1
  <2> QED
    BY <1>2, <1>3, <2>1 DEF Steps
<1>6. Steps(g, 1 .. n, i) = Steps(p, F, rows[i])
  BY <1>4, <1>5
<1> QED
  BY <1>6 DEF StepDown

(* What adjusting a set of rows family by family comes to for each row. *)
LEMMA AdjustIsStepDown ==
    ASSUME NEW R, IsFiniteSet(R), NEW p \in [R -> 0 .. Unit], NEW family, DOMAIN family = R,
           NEW r \in R
    PROVE  AdjustFamilies(p, family)[r] = StepDown(p, {q \in R : family[q] = family[r]}, r)
<1> DEFINE F     == {q \in R : family[q] = family[r]}
           rows  == SetToSeq(F)
           n     == Cardinality(F)
           index == CHOOSE i \in DOMAIN rows : rows[i] = r
           g     == [i \in 1 .. n |-> p[rows[i]]]
<1>1. F \in SUBSET R /\ r \in F
  OBVIOUS
<1>2. IsFiniteSet(F)
  BY <1>1, FS_Subset
<1>3. n \in Nat /\ rows \in Bijection(1 .. n, F)
  BY <1>2, SetToSeqFacts
<1>4. DOMAIN rows = 1 .. n /\ \A i \in 1 .. n : rows[i] \in F
  BY <1>3 DEF Bijection, Injection
<1>5. \E i \in 1 .. n : rows[i] = r
  BY <1>1, <1>3 DEF Bijection, Surjection
<1>6. index \in 1 .. n /\ rows[index] = r
  BY <1>4, <1>5
<1>7. AdjustFamilies(p, family)[r] = HolmAdjust(g)[index]
  BY <1>4 DEF AdjustFamilies
<1>8. \A s \in F : p[s] \in 0 .. Unit
  BY <1>1
<1> HIDE DEF F, rows, n, index
<1>9. g \in [1 .. n -> 0 .. Unit]
  BY <1>4, <1>8
<1>10. HolmAdjust(g)[index] = StepDown(g, 1 .. n, index)
  BY <1>3, <1>6, <1>9, HolmIsStepDown
<1>11. StepDown(g, 1 .. n, index) = StepDown(p, F, rows[index])
  BY <1>3, <1>6, <1>8, StepDownRenamed
<1> QED
  BY <1>6, <1>7, <1>10, <1>11 DEF F

(* A row among more rows is adjusted by no less. *)
LEMMA StepDownMonotone ==
    ASSUME NEW G, IsFiniteSet(G), NEW F, F \in SUBSET G,
           NEW p, \A s \in G : p[s] \in 0 .. Unit, NEW r \in F
    PROVE  StepDown(p, F, r) <= StepDown(p, G, r) /\ StepDown(p, F, r) \in 0 .. Unit
<1>1. IsFiniteSet(F) /\ r \in G /\ \A s \in F : p[s] \in 0 .. Unit
  BY FS_Subset
<1>2. Steps(p, F, r) \subseteq 0 .. Unit /\ Steps(p, F, r) # {}
  BY <1>1, StepsType
<1>3. Steps(p, G, r) \subseteq 0 .. Unit /\ Steps(p, G, r) # {}
  BY <1>1, StepsType
<1>4. ASSUME NEW q \in F
      PROVE  StepBound(p, F, q) <= StepBound(p, G, q)
  <2>1. q \in G /\ p[q] \in 0 .. Unit
    OBVIOUS
  <2>2. AtLeast(p, F, q) \in SUBSET AtLeast(p, G, q)
    BY DEF AtLeast
  <2>3. IsFiniteSet(AtLeast(p, G, q)) /\ Cardinality(AtLeast(p, G, q)) \in Nat
    BY <1>1, <2>1, StepsType
  <2>4. /\ Cardinality(AtLeast(p, F, q)) \in Nat
        /\ Cardinality(AtLeast(p, F, q)) <= Cardinality(AtLeast(p, G, q))
    BY <2>2, <2>3, FS_Subset, FS_CardinalityType
  <2> QED
    BY <2>1, <2>3, <2>4, BoundMonotone DEF StepBound
<1>5. \A a \in Steps(p, F, r) : \E b \in Steps(p, G, r) : a <= b
  BY <1>4 DEF Steps
<1>6. Max(Steps(p, F, r)) <= Max(Steps(p, G, r))
  BY <1>2, <1>3, <1>5, MaxBounded
<1>7. Max(Steps(p, F, r)) \in Steps(p, F, r)
  BY <1>2, MaxFacts
<1> QED
  BY <1>2, <1>6, <1>7 DEF StepDown

-----------------------------------------------------------------------------
(* The rows of the report *)

\* What a function makes of a finite set is finite.
LEMMA ImageFinite ==
    ASSUME NEW S, IsFiniteSet(S), NEW f, DOMAIN f = S, f = [s \in S |-> f[s]]
    PROVE  IsFiniteSet({f[s] : s \in S})
<1>1. f \in [S -> {f[s] : s \in S}]
  OBVIOUS
<1>2. f \in Surjection(S, {f[s] : s \in S})
  BY <1>1 DEF Surjection
<1> QED
  BY <1>2, FS_Surjection

LEMMA FourFinite == \A a, b, c, d : IsFiniteSet({a, b, c, d})
<1> SUFFICES ASSUME NEW a, NEW b, NEW c, NEW d
             PROVE  IsFiniteSet({a, b, c, d})
  OBVIOUS
<1>1. IsFiniteSet({a} \cup {b}) /\ IsFiniteSet({c} \cup {d})
  BY FS_Singleton, FS_Union
<1>2. IsFiniteSet(({a} \cup {b}) \cup ({c} \cup {d}))
  BY <1>1, FS_Union
<1>3. ({a} \cup {b}) \cup ({c} \cup {d}) = {a, b, c, d}
  OBVIOUS
<1> QED
  BY <1>2, <1>3

\* A campaign has finitely many workloads.
LEMMA WorkloadFinite == IsFiniteSet(Workload)
<1> DEFINE W(i) == {<<Participants[i], PairValues(Participants[i])[j]>> : j \in 1 .. PairCount}
           D    == DOMAIN Participants
           f    == [i \in D |-> W(i)]
<1>1. D = 1 .. Len(Participants) /\ Len(Participants) \in Nat
  BY ArgumentsAssumption DEF ValidArguments
<1>2. PairCount \in Nat
  BY ArgumentsAssumption DEF ValidArguments, PairCount
<1>3. IsFiniteSet(D) /\ IsFiniteSet(1 .. PairCount)
  BY <1>1, <1>2, FS_Interval
<1>4. ASSUME NEW i \in D
      PROVE  IsFiniteSet(W(i))
  <2> DEFINE g == [j \in 1 .. PairCount |-> <<Participants[i], PairValues(Participants[i])[j]>>]
  <2>1. DOMAIN g = 1 .. PairCount /\ g = [j \in 1 .. PairCount |-> g[j]]
    OBVIOUS
  <2>2. W(i) = {g[j] : j \in 1 .. PairCount}
    OBVIOUS
  <2> HIDE DEF g
  <2>3. IsFiniteSet({g[j] : j \in 1 .. PairCount})
    BY <1>3, <2>1, ImageFinite
  <2> QED
    BY <2>2, <2>3
<1>5. IsFiniteSet({f[i] : i \in D})
  <2>1. DOMAIN f = D /\ f = [i \in D |-> f[i]]
    OBVIOUS
  <2> HIDE DEF f
  <2> QED
    BY <1>3, <2>1, ImageFinite
<1>6. {f[i] : i \in D} = {W(i) : i \in D}
  OBVIOUS
<1>7. \A T \in {W(i) : i \in D} : IsFiniteSet(T)
  BY <1>4
<1>8. Workload = UNION {W(i) : i \in D}
  BY DEF Workload
<1> HIDE DEF W, D, f
<1> QED
  BY <1>5, <1>6, <1>7, <1>8, FS_UNION

\* And finitely many contrasts.
LEMMA ComparisonsFinite == IsFiniteSet(Comparisons(Modes))
<1> DEFINE First  == {"complete_method_vs_reference", "phase_coalescing_vs_reference",
                      "batch_joint_presigning_vs_phase_coalesced_itemwise",
                      "batch_joint_presigning_vs_reference"}
           Second == {"batch_verification_with_batch_joint_presigning",
                      "batch_verification_with_phase_coalescing",
                      "batch_joint_presigning_vs_phase_coalesced_aggregate",
                      "session_verification_interaction"}
<1>1. IsFiniteSet(First) /\ IsFiniteSet(Second)
  BY FourFinite
<1>2. IsFiniteSet(First \cup Second)
  <2> HIDE DEF First, Second
  <2> QED
    BY <1>1, FS_Union
<1>3. DOMAIN COMPARISONS \subseteq First \cup Second
  BY DEF COMPARISONS
<1>4. Comparisons(Modes) \in SUBSET (First \cup Second)
  BY <1>3 DEF Comparisons
<1> HIDE DEF First, Second
<1> QED
  BY <1>2, <1>4, FS_Subset

\* The analysis of a campaign has finitely many effects.
LEMMA OwnEffectsFinite == ASSUME NEW a PROVE IsFiniteSet(OwnTiming(a).effects)
<1> DEFINE rows == Rows(Payload("client", a))
           Compared(c) == IF c \in DOMAIN COMPARISONS
                            THEN {COMPARISONS[c][1], COMPARISONS[c][2]} ELSE FactorialModes
           Paired(w, c) == {t \in 0 .. Trials - 1 : \A mode \in Compared(c) : t \in TrialsOf(rows, w, mode)}
           Effect(w, c) == [workload |-> w, comparison |-> c, trials |-> Cardinality(Paired(w, c))]
           S == Workload \X Comparisons(Modes)
           f == [s \in S |-> Effect(s[1], s[2])]
           all == {Effect(w, c) : w \in Workload, c \in Comparisons(Modes)}
           image == {f[s] : s \in S}
<1>1. IsFiniteSet(S)
  BY WorkloadFinite, ComparisonsFinite, FS_Product
<1>2. OwnTiming(a).effects = all
  BY DEF OwnTiming, Analysis, PairedEffects
<1>3. all = image
  <2> HIDE DEF Effect
  <2>1. ASSUME NEW w \in Workload, NEW c \in Comparisons(Modes)
        PROVE  \E s \in S : Effect(w, c) = f[s]
    <3>1. <<w, c>> \in S /\ f[<<w, c>>] = Effect(w, c)
      OBVIOUS
    <3> QED
      BY <3>1
  <2>2. ASSUME NEW s \in S
        PROVE  \E w \in Workload, c \in Comparisons(Modes) : f[s] = Effect(w, c)
    <3>1. s[1] \in Workload /\ s[2] \in Comparisons(Modes) /\ f[s] = Effect(s[1], s[2])
      OBVIOUS
    <3> QED
      BY <3>1
  <2> HIDE DEF f, S
  <2> QED
    BY <2>1, <2>2
<1>4. DOMAIN f = S /\ f = [s \in S |-> f[s]]
  OBVIOUS
<1>5. IsFiniteSet(image)
  <2> HIDE DEF f, S
  <2> QED
    BY <1>1, <1>4, ImageFinite
<1> HIDE DEF all, image
<1> QED
  BY <1>2, <1>3, <1>5

\* So has a final report finitely many rows.
LEMMA EffectsFinite ==
    ASSUME NEW timing, IsFiniteSet(DOMAIN timing),
           \A x \in DOMAIN timing : IsFiniteSet(timing[x].effects)
    PROVE  IsFiniteSet(Effects(timing))
<1> DEFINE E(x) == {<<x, e>> : e \in timing[x].effects}
           D == DOMAIN timing
           f == [x \in D |-> E(x)]
<1>1. ASSUME NEW x \in D
      PROVE  IsFiniteSet(E(x))
  <2> DEFINE S == timing[x].effects
             g == [e \in S |-> <<x, e>>]
  <2>1. DOMAIN g = S /\ g = [e \in S |-> g[e]]
    OBVIOUS
  <2>2. E(x) = {g[e] : e \in S}
    OBVIOUS
  <2>3. IsFiniteSet(S)
    OBVIOUS
  <2> HIDE DEF g, S
  <2> QED
    BY <2>1, <2>2, <2>3, ImageFinite
<1>2. IsFiniteSet({f[x] : x \in D})
  <2>1. DOMAIN f = D /\ f = [x \in D |-> f[x]]
    OBVIOUS
  <2> HIDE DEF f
  <2> QED
    BY <2>1, ImageFinite
<1>3. {f[x] : x \in D} = {E(x) : x \in D}
  OBVIOUS
<1>4. \A T \in {E(x) : x \in D} : IsFiniteSet(T)
  BY <1>1
<1>5. Effects(timing) = UNION {E(x) : x \in D}
  BY DEF Effects
<1> HIDE DEF E, D, f
<1> QED
  BY <1>2, <1>3, <1>4, <1>5, FS_UNION

\* A sequence with one more element before it.
LEMMA Prepended ==
    ASSUME NEW T, NEW s \in Seq(T), NEW o
    PROVE  /\ Len(s) \in Nat /\ DOMAIN s = 1 .. Len(s)
           /\ DOMAIN (<<o>> \o s) = 1 .. Len(s) + 1
           /\ (<<o>> \o s)[1] = o
           /\ \A x \in 2 .. Len(s) + 1 : (<<o>> \o s)[x] = s[x - 1]
<1>1. s \in Seq(T \cup {o}) /\ <<o>> \in Seq(T \cup {o}) /\ Len(<<o>>) = 1
  OBVIOUS
<1>2. <<o>> \o s \in Seq(T \cup {o}) /\ Len(<<o>> \o s) = Len(s) + 1
  BY <1>1
<1> QED
  BY <1>1, <1>2

LEMMA ReportRowsFinite ==
    ASSUME NEW a, NEW e \in Archive
    PROVE  IsFiniteSet(Effects(<<OwnTiming(a)>> \o e.timing))
<1> DEFINE own    == OwnTiming(a)
           others == e.timing
           timing == <<own>> \o others
           n      == Len(others)
<1>1. others \in Seq(Range(others))
  BY MatrixAssumption
<1>2. /\ n \in Nat /\ DOMAIN others = 1 .. n
      /\ DOMAIN timing = 1 .. n + 1
      /\ timing[1] = own
      /\ \A x \in 2 .. n + 1 : timing[x] = others[x - 1]
  <2> HIDE DEF own, others
  <2> QED
    BY <1>1, Prepended
<1> HIDE DEF timing, n, own, others
<1>3. IsFiniteSet(DOMAIN timing)
  BY <1>2, FS_Interval
<1>4. ASSUME NEW x \in DOMAIN timing
      PROVE  IsFiniteSet(timing[x].effects)
  <2>1. CASE x = 1
    BY <1>2, <2>1, OwnEffectsFinite DEF own
  <2>2. CASE x # 1
    <3>1. x \in 2 .. n + 1 /\ x - 1 \in DOMAIN others
      BY <1>2, <2>2
    <3>2. IsFiniteSet(others[x - 1].effects)
      BY <3>1, MatrixAssumption DEF others
    <3> QED
      BY <1>2, <3>1, <3>2
  <2> QED
    BY <2>1, <2>2
<1>5. IsFiniteSet(Effects(timing))
  BY <1>3, <1>4, EffectsFinite
<1> QED
  BY <1>5 DEF timing, own, others

-----------------------------------------------------------------------------
(* The final report *)

\* The rows row r is adjusted with, in the report and in its own analysis.
TestedWith(timing, R, r) ==
    {q \in R : ~ Anchor(timing, q) /\ ScientificFamily(q) = ScientificFamily(r)}
AnalysedWith(R, r) == {q \in R : q[1] = r[1] /\ AnalysisFamily(q[2]) = AnalysisFamily(r[2])}

\* What the report says of a row.
RowSays(row, timing, R, p, r) ==
    /\ row.p = p[r]
    /\ row.own = StepDown(p, AnalysedWith(R, r), r)
    /\ Anchor(timing, r) =>
         /\ row.family = <<"load-anchor", "descriptive">>
         /\ row.adjusted = Unit
    /\ ~ Anchor(timing, r) =>
         /\ row.family = ScientificFamily(r)
         /\ row.adjusted = StepDown(p, TestedWith(timing, R, r), r)

LEMMA ReportRow ==
    ASSUME NEW timing, NEW R, IsFiniteSet(R), NEW p \in [R -> 0 .. Unit], NEW r \in R
    PROVE  RowSays(Report(timing, p)[r], timing, R, p, r)
<1> DEFINE tested == {q \in R : ~ Anchor(timing, q)}
           t      == [q \in tested |-> p[q]]
           tf     == [q \in tested |-> ScientificFamily(q)]
           of     == [q \in R |-> <<q[1], AnalysisFamily(q[2])>>]
           holm   == AdjustFamilies(t, tf)
           own    == AdjustFamilies(p, of)
<1>1. DOMAIN p = R
  OBVIOUS
<1>2. Report(timing, p) =
        [q \in R |-> [family   |-> IF q \in tested THEN ScientificFamily(q) ELSE <<"load-anchor", "descriptive">>,
                      p        |-> p[q],
                      adjusted |-> IF q \in tested THEN holm[q] ELSE Unit,
                      own      |-> own[q]]]
  BY <1>1 DEF Report
<1>3. own[r] = StepDown(p, AnalysedWith(R, r), r)
  <2>1. DOMAIN of = R
    OBVIOUS
  <2>2. {q \in R : of[q] = of[r]} = AnalysedWith(R, r)
    <3> HIDE DEF tested
    <3> QED
      BY DEF AnalysedWith
  <2> HIDE DEF of, tested
  <2>3. own[r] = StepDown(p, {q \in R : of[q] = of[r]}, r)
    BY <2>1, AdjustIsStepDown
  <2> QED
    BY <2>2, <2>3
<1>4. ASSUME r \in tested
      PROVE  holm[r] = StepDown(p, TestedWith(timing, R, r), r)
  <2> DEFINE F == {q \in tested : tf[q] = tf[r]}
  <2>0. tested \in SUBSET R
    OBVIOUS
  <2>1. IsFiniteSet(tested) /\ DOMAIN tf = tested
    <3> HIDE DEF tested
    <3> QED
      BY <2>0, FS_Subset
  <2>2. t \in [tested -> 0 .. Unit]
    OBVIOUS
  <2>3. F = TestedWith(timing, R, r)
    BY <1>4 DEF TestedWith
  <2>4. holm[r] = StepDown(t, F, r)
    <3> HIDE DEF tested, t, tf
    <3> QED
      BY <1>4, <2>1, <2>2, AdjustIsStepDown
  <2>5. \A s \in F : t[s] = p[s]
    OBVIOUS
  <2>6. r \in F
    BY <1>4
  <2>7. \A q \in F : AtLeast(t, F, q) = AtLeast(p, F, q)
    <3> HIDE DEF F, t, tested, tf
    <3> QED
      BY <2>5 DEF AtLeast
  <2>8. \A q \in F : StepBound(t, F, q) = StepBound(p, F, q)
    <3> HIDE DEF F, t, tested, tf
    <3> QED
      BY <2>5, <2>7 DEF StepBound
  <2>9. Steps(t, F, r) = Steps(p, F, r)
    <3> HIDE DEF F, t, tested, tf
    <3> QED
      BY <2>5, <2>6, <2>8 DEF Steps
  <2> QED
    BY <2>3, <2>4, <2>9 DEF StepDown
<1> HIDE DEF holm, own, tested
<1>5. /\ Report(timing, p)[r].p = p[r]
      /\ Report(timing, p)[r].own = own[r]
      /\ Report(timing, p)[r].family =
            IF r \in tested THEN ScientificFamily(r) ELSE <<"load-anchor", "descriptive">>
      /\ Report(timing, p)[r].adjusted = IF r \in tested THEN holm[r] ELSE Unit
  BY <1>2
<1>6. r \in tested <=> ~ Anchor(timing, r)
  BY DEF tested
<1> QED
  BY <1>3, <1>4, <1>5, <1>6 DEF RowSays

\* The family of an anchor is no family of tested rows.
LEMMA AnchorFamily == \A r : ScientificFamily(r) # <<"load-anchor", "descriptive">>
BY DEF ScientificFamily

(* What main writes satisfies both properties, of whatever evidence. *)
LEMMA ReportHolds ==
    ASSUME NEW timing, NEW R, IsFiniteSet(R), NEW p \in [R -> 0 .. Unit], final = Report(timing, p)
    PROVE  HolmStepDown /\ NoMoreSignificant
<1>0. DOMAIN final = R
  <2>1. DOMAIN p = R
    OBVIOUS
  <2> QED
    BY <2>1 DEF Report
<1>1. ASSUME NEW q \in R
      PROVE  /\ final[q].p = p[q] /\ p[q] \in 0 .. Unit
             /\ final[q].own = StepDown(p, AnalysedWith(R, q), q)
             /\ Anchor(timing, q) =>
                  /\ final[q].family = <<"load-anchor", "descriptive">>
                  /\ final[q].adjusted = Unit
             /\ ~ Anchor(timing, q) =>
                  /\ final[q].family = ScientificFamily(q)
                  /\ final[q].adjusted = StepDown(p, TestedWith(timing, R, q), q)
  <2>1. RowSays(Report(timing, p)[q], timing, R, p, q)
    BY ReportRow
  <2>2. RowSays(final[q], timing, R, p, q) /\ p[q] \in 0 .. Unit
    BY <2>1
  <2> QED
    BY <2>2 DEF RowSays
<1>2. ASSUME NEW r \in R, ~ Anchor(timing, r)
      PROVE  /\ {q \in R : final[q].family = final[r].family} = TestedWith(timing, R, r)
             /\ r \in TestedWith(timing, R, r)
             /\ TestedWith(timing, R, r) \in SUBSET R
             /\ IsFiniteSet(TestedWith(timing, R, r))
  <2>1. \A q \in R : final[q].family = final[r].family <=>
                        ~ Anchor(timing, q) /\ ScientificFamily(q) = ScientificFamily(r)
    BY <1>1, <1>2, AnchorFamily
  <2>2. r \in TestedWith(timing, R, r) /\ TestedWith(timing, R, r) \in SUBSET R
    BY <1>2 DEF TestedWith
  <2>3. {q \in R : final[q].family = final[r].family} = TestedWith(timing, R, r)
    BY <2>1 DEF TestedWith
  <2>4. IsFiniteSet(TestedWith(timing, R, r))
    BY <2>2, FS_Subset
  <2> QED
    BY <2>2, <2>3, <2>4
<1>3. HolmStepDown
  <2> SUFFICES ASSUME NEW r \in DOMAIN final, final[r].family # <<"load-anchor", "descriptive">>
               PROVE  LET family == {q \in DOMAIN final : final[q].family = final[r].family}
                          Bound(q) == Min({Unit, Cardinality({s \in family : final[s].p >= final[q].p}) * final[q].p})
                      IN  final[r].adjusted = Max({Bound(q) : q \in {q \in family : final[q].p <= final[r].p}})
    BY DEF HolmStepDown
  <2>1. r \in R /\ ~ Anchor(timing, r)
    BY <1>0, <1>1
  <2> DEFINE F == TestedWith(timing, R, r)
             G == {q \in DOMAIN final : final[q].family = final[r].family}
             B(q) == Min({Unit, Cardinality({s \in F : final[s].p >= final[q].p}) * final[q].p})
  <2>2. G = F /\ r \in F /\ F \in SUBSET R
    BY <1>0, <1>2, <2>1
  <2>3. final[r].adjusted = StepDown(p, F, r)
    BY <1>1, <2>1
  <2>4. \A s \in F : final[s].p = p[s]
    BY <1>1, <2>2
  <2> HIDE DEF F, G
  <2>5. \A q \in F : {s \in F : final[s].p >= final[q].p} = AtLeast(p, F, q)
    BY <2>4 DEF AtLeast
  <2>6. \A q \in F : B(q) = StepBound(p, F, q)
    BY <2>4, <2>5 DEF StepBound
  <2>7. {B(q) : q \in {q \in F : final[q].p <= final[r].p}} = Steps(p, F, r)
    <3> HIDE DEF B
    <3> QED
      BY <2>2, <2>4, <2>6 DEF Steps
  <2>8. final[r].adjusted = Max({B(q) : q \in {q \in F : final[q].p <= final[r].p}})
    BY <2>3, <2>7 DEF StepDown
  <2> QED
    BY <2>2, <2>8 DEF G
<1>4. NoMoreSignificant
  <2> SUFFICES ASSUME NEW r \in R
               PROVE  final[r].adjusted >= final[r].own
    BY <1>0 DEF NoMoreSignificant
  <2> DEFINE F == AnalysedWith(R, r)
             G == TestedWith(timing, R, r)
  <2>1. final[r].own = StepDown(p, F, r)
    BY <1>1
  <2>2. F \in SUBSET R /\ r \in F
    BY DEF AnalysedWith
  <2>3. CASE Anchor(timing, r)
    <3>1. StepDown(p, F, r) \in 0 .. Unit
      <4> HIDE DEF F
      <4> QED
        BY <1>1, <2>2, StepDownMonotone
    <3>2. final[r].adjusted = Unit
      BY <1>1, <2>3
    <3> QED
      BY <2>1, <3>1, <3>2, UnitAssumption
  <2>4. CASE ~ Anchor(timing, r)
    <3>1. final[r].adjusted = StepDown(p, G, r)
      BY <1>1, <2>4
    <3>2. r \in G /\ G \in SUBSET R /\ IsFiniteSet(G)
      BY <1>2, <2>4
    <3>3. F \in SUBSET G
      <4> SUFFICES ASSUME NEW q \in R, q[1] = r[1], AnalysisFamily(q[2]) = AnalysisFamily(r[2])
                   PROVE  q \in G
        BY DEF AnalysedWith
      <4>1. /\ Hypothesis(q[2].comparison) = Hypothesis(r[2].comparison)
            /\ q[2].workload[2] = 1 <=> r[2].workload[2] = 1
        BY DEF AnalysisFamily
      <4>2. ScientificFamily(q) = ScientificFamily(r)
        BY <4>1 DEF ScientificFamily
      <4>3. ~ Anchor(timing, q)
        BY <2>4, <4>1 DEF Anchor
      <4> QED
        BY <4>2, <4>3 DEF TestedWith
    <3>4. \A s \in G : p[s] \in 0 .. Unit
      BY <1>1, <3>2
    <3> HIDE DEF F, G
    <3>5. StepDown(p, F, r) <= StepDown(p, G, r) /\ StepDown(p, F, r) \in 0 .. Unit
      BY <2>2, <3>2, <3>3, <3>4, StepDownMonotone
    <3>6. StepDown(p, G, r) \in 0 .. Unit
      <4>1. G \in SUBSET G
        OBVIOUS
      <4> QED
        BY <3>2, <3>4, <4>1, StepDownMonotone
    <3> QED
      BY <2>1, <3>1, <3>5, <3>6, UnitAssumption
  <2> QED
    BY <2>3, <2>4
<1> QED
  BY <1>3, <1>4

\* There is no report, or it is what main writes of finitely many rows.
FinalInv ==
    final = NoReport \/ \E timing, R : /\ IsFiniteSet(R)
                                      /\ \E p \in [R -> 0 .. Unit] : final = Report(timing, p)

LEMMA FinalInvHolds == FinalInv => HolmStepDown /\ NoMoreSignificant
<1>1. CASE final = NoReport
  <2>1. DOMAIN final = {}
    BY <1>1 DEF NoReport
  <2> QED
    BY <2>1 DEF HolmStepDown, NoMoreSignificant
<1>2. ASSUME NEW timing, NEW R, IsFiniteSet(R), NEW p \in [R -> 0 .. Unit], final = Report(timing, p)
      PROVE  HolmStepDown /\ NoMoreSignificant
  BY <1>2, ReportHolds
<1> QED
  BY <1>1, <1>2 DEF FinalInv

LEMMA FinalStep == FinalInv /\ [FinalNext]_allvars => FinalInv'
<1> SUFFICES ASSUME FinalInv, [FinalNext]_allvars
             PROVE  FinalInv'
  OBVIOUS
<1>1. CASE UNCHANGED final
  BY <1>1 DEF FinalInv
<1>2. ASSUME NEW a \in Start, NEW b \in Start, NEW e \in Archive, NEW strict \in BOOLEAN,
             BuildReport(a, b, e, strict)
      PROVE  FinalInv'
  <2> DEFINE timing == <<OwnTiming(a)>> \o e.timing
             rows   == Effects(timing)
             tested == {r \in rows : ~ Anchor(timing, r)}
  <2>1. PICK p \in [tested -> PValues] :
           final' = Report(timing, [r \in rows |-> IF Anchor(timing, r) THEN Unit ELSE p[r]])
    BY <1>2 DEF BuildReport
  <2> DEFINE q == [r \in rows |-> IF Anchor(timing, r) THEN Unit ELSE p[r]]
  <2>2. IsFiniteSet(rows)
    BY ReportRowsFinite
  <2> HIDE DEF rows, timing
  <2>3. q \in [rows -> 0 .. Unit]
    <3>1. Unit \in 0 .. Unit /\ PValues \subseteq 0 .. Unit
      BY UnitAssumption, MatrixAssumption
    <3>2. ASSUME NEW r \in rows, ~ Anchor(timing, r)
          PROVE  p[r] \in 0 .. Unit
      BY <2>1, <3>1, <3>2
    <3> QED
      BY <3>1, <3>2
  <2>4. final' = Report(timing, q)
    BY <2>1
  <2> HIDE DEF q
  <2> QED
    BY <2>2, <2>3, <2>4 DEF FinalInv
<1>3. UNCHANGED final \/ \E a, b \in Start, e \in Archive, strict \in BOOLEAN : BuildReport(a, b, e, strict)
  BY DEF FinalNext, allvars
<1> QED
  BY <1>1, <1>2, <1>3

LEMMA FinalInvariant == FinalSpec => []FinalInv
<1>1. FinalInit => FinalInv
  BY DEF FinalInit, FinalInv
<1> QED
  BY <1>1, FinalStep, PTL DEF FinalSpec

(* Every report main writes, from whatever evidence the tool accepts and with
   any p-values the statistics come to, adjusts them by Holm's step-down
   procedure on the families over all analyses. *)
THEOREM FinalHolm == FinalSpec => []HolmStepDown
<1>1. FinalInv => HolmStepDown
  BY FinalInvHolds
<1> QED
  BY <1>1, FinalInvariant, PTL

(* No report has an effect more significant than its own campaign's analysis
   had it. *)
THEOREM FinalNoMoreSignificant == FinalSpec => []NoMoreSignificant
<1>1. FinalInv => NoMoreSignificant
  BY FinalInvHolds
<1> QED
  BY <1>1, FinalInvariant, PTL

\* The report leaves the campaign alone.
LEMMA FinalStepsAreSteps == [FinalNext]_allvars => [Next]_vars
BY DEF FinalNext, BuildReport, allvars, vars

(* The campaign with the final report after it keeps the campaign's invariant,
   and with it what both endpoints measured of a stage is one execution in
   whatever reports the analysis is given. *)
THEOREM FinalCampaign == FinalSpec => [](IInv /\ OneExecution)
<1>1. FinalInit => IInv
  BY InitInv DEF FinalInit
<1>2. IInv /\ [FinalNext]_allvars => IInv'
  BY FinalStepsAreSteps, TypeStep, ClientsStep, JournalStep, RoutesStep, GatewayStep, ReportsStep DEF IInv
<1>3. IInv => OneExecution
  BY InvOneExecution
<1> QED
  BY <1>1, <1>2, <1>3, PTL DEF FinalSpec

(* Two scripts that each come to the end of the schedule have produced evidence
   the analysis accepts: for every schedule the arguments allow, however often
   either script was killed and started again in between. *)
THEOREM FinalAccepted == FinalSpec => []CompletedAccepted
<1>1. FinalInit => IInv /\ OrderInv
  BY InitInv, OrderInit DEF FinalInit
<1>2. IInv /\ OrderInv /\ [FinalNext]_allvars => (IInv /\ OrderInv)'
  <2>1. IInv /\ [Next]_vars => IInv'
    BY TypeStep, ClientsStep, JournalStep, RoutesStep, GatewayStep, ReportsStep DEF IInv
  <2> QED
    BY <2>1, FinalStepsAreSteps, OrderStep
<1>3. IInv /\ OrderInv => CompletedAccepted
  BY InvAccepted
<1> QED
  BY <1>1, <1>2, <1>3, PTL DEF FinalSpec
=============================================================================
