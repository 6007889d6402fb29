---------------------------- MODULE CloudCampaign ----------------------------
(***************************************************************************)
(* A cloud campaign: src/scripts/run_cloud_campaign.py started as client   *)
(* on one host and as server on the other.  Both walk the same schedule    *)
(* and never talk to each other; what keeps them together are the native   *)
(* processes of each stage, one client per pair and one gateway with its   *)
(* workers.  Either script may be killed and leave its processes behind,   *)
(* and be started again, from the first stage and with the same campaign   *)
(* id.  A session is named by the client script's start, stage and pair.   *)
(***************************************************************************)
EXTENDS CloudSchedule

CONSTANTS MaxStarts,   \* bound: how often each script is started
          MaxPairs     \* the largest number of pairs of a stage

ASSUME BoundsAssumption ==
    /\ MaxStarts \in Nat /\ MaxPairs \in Nat
    /\ \A i \in StageIndex : Pairs(i) \subseteq 0 .. MaxPairs - 1

Role == {"client", "server"}
Start == 1 .. MaxStarts
PairId == 0 .. MaxPairs - 1

VARIABLES script,    \* what each script does, and at which stage
          starts,    \* how often it was started
          clients,   \* the native clients of each start of the client script
          port,      \* the gateway bound to the service port
          result,    \* the gateway that ended well and whose output is unread
          journal,   \* completion records: the start whose session is stored
          reports    \* the samples each start wrote to its --output

vars == <<script, starts, clients, port, result, journal, reports>>

\* A route is terminal when it is stored or closed.
RouteState == {"free", "running", "stored", "closed"}
ClientState == {"none", "sending", "lost", "running", "waiting", "done", "failed"}

FreeRoute == [client |-> 0, state |-> "free"]
Gateway(start, i) ==
    [start |-> start, stage |-> i, route |-> [k \in PairId |-> FreeRoute], queried |-> FALSE]
Unbound == Gateway(0, 0)

Sample == [stage : Measured, arcs : [PairId -> 0 .. MaxStarts]]
GatewayType ==
    [start : 0 .. MaxStarts, stage : StageIndex, queried : BOOLEAN,
     route : [PairId -> [client : 0 .. MaxStarts, state : RouteState]]]

(* The type invariant. *)
TypeOK ==
    /\ script \in [Role -> [at : {"down", "between", "running"}, stage : 0 .. StageCount]]
    /\ \A r \in Role : script[r].at = "running" => script[r].stage \in StageIndex
    /\ starts \in [Role -> 0 .. MaxStarts]
    /\ clients \in [Start -> [stage : StageIndex, state : [PairId -> ClientState]]]
    /\ port \in GatewayType /\ result \in GatewayType
    /\ journal \in [StageIndex \X PairId -> 0 .. MaxStarts]
    /\ reports \in [Role -> [Start -> Seq(Sample)]]

NoClients == [stage |-> 0, state |-> [k \in PairId |-> "none"]]

Init ==
    /\ script = [r \in Role |-> [at |-> "down", stage |-> 0]]
    /\ starts = [r \in Role |-> 0]
    /\ clients = [a \in Start |-> NoClients]
    /\ port = Unbound /\ result = Unbound
    /\ journal = [e \in StageIndex \X PairId |-> 0]
    /\ reports = [r \in Role |-> [a \in Start |-> << >>]]

-----------------------------------------------------------------------------
At(r, where) == script[r].at = where
Stage(r) == script[r].stage
Goes(r, where, i) == script' = [script EXCEPT ![r] = [at |-> where, stage |-> i]]

StartScript(r) ==
    /\ At(r, "down") /\ starts[r] < MaxStarts
    /\ starts' = [starts EXCEPT ![r] = @ + 1]
    /\ Goes(r, "between", 0)
    /\ UNCHANGED <<clients, port, result, journal, reports>>

\* The end of main's loop over the stages.
FinishScript(r) ==
    /\ At(r, "between") /\ Stage(r) = StageCount
    /\ Goes(r, "down", 0)
    /\ UNCHANGED <<starts, clients, port, result, journal, reports>>

\* SIGKILL or a lost host: no handler runs, the native processes go on.
KillScript(r) ==
    /\ ~ At(r, "down")
    /\ Goes(r, "down", 0)
    /\ result' = IF r = "server" THEN Unbound ELSE result
    /\ UNCHANGED <<starts, clients, port, journal, reports>>

\* Mutant: warm-ups are reported too.
WriteWarmupToo(r, i, arcs) ==
    reports' = [reports EXCEPT ![r][starts[r]] = Append(@, [stage |-> i, arcs |-> arcs])]

\* samples.append and write_report; a warm-up leaves no sample.
Write(r, i, arcs) ==
    reports' = IF StageAt(i).warmup THEN reports
               ELSE [reports EXCEPT ![r][starts[r]] = Append(@, [stage |-> i, arcs |-> arcs])]

-----------------------------------------------------------------------------
Own == clients[starts["client"]]
ClientsAre(states) == \A k \in Pairs(Stage("client")) : Own.state[k] \in states

\* run_client_stage starts one native client per pair.
SpawnClients ==
    LET i == Stage("client")
    IN  /\ At("client", "between") /\ i < StageCount
        /\ Goes("client", "running", i)
        /\ clients' = [clients EXCEPT ![starts["client"]] =
              [stage |-> i, state |-> [k \in PairId |-> IF k \in Pairs(i) THEN "sending" ELSE "none"]]]
        /\ UNCHANGED <<starts, port, result, journal, reports>>

CollectClients ==
    LET i == Stage("client")
    IN  /\ At("client", "running") /\ ClientsAre({"done"})
        /\ Write("client", i, [k \in PairId |-> IF k \in Pairs(i) THEN starts["client"] ELSE 0])
        /\ Goes("client", "between", i + 1)
        /\ UNCHANGED <<starts, clients, port, result, journal>>

\* A client that failed, or the process timeout, which may pass at any time:
\* every client of the stage is killed and main ends.
FailClientStage ==
    /\ At("client", "running")
    /\ clients' = [clients EXCEPT ![starts["client"]].state =
                      [k \in PairId |-> IF @[k] = "none" THEN "none" ELSE "failed"]]
    /\ Goes("client", "down", 0)
    /\ UNCHANGED <<starts, port, result, journal, reports>>

-----------------------------------------------------------------------------
\* run_server_pool_stage: the bind fails while another gateway holds the port.
SpawnGateway ==
    LET i == Stage("server")
    IN  /\ At("server", "between") /\ i < StageCount
        /\ Goes("server", "running", i)
        /\ port' = IF port = Unbound THEN Gateway(starts["server"], i) ELSE port
        /\ UNCHANGED <<starts, clients, result, journal, reports>>

\* Mutant: the completion journal is deleted with the manifest.
RetainedNot(i) == [e \in DOMAIN journal |-> IF e[1] = i THEN 0 ELSE journal[e]]

\* The finally clause deletes the manifest and leaves the journal.
Retained(i) == journal

\* Every pair has its row, every completion was recorded, none was queried.
PoolComplete(g, i) == ~ g.queried /\ \A k \in Pairs(i) : g.route[k].state = "stored"

CollectGateway ==
    LET i == Stage("server")
    IN  /\ At("server", "running")
        /\ result.start = starts["server"] /\ PoolComplete(result, i)
        /\ Write("server", i, [k \in PairId |-> result.route[k].client])
        /\ Goes("server", "between", i + 1)
        /\ result' = Unbound /\ journal' = Retained(i)
        /\ UNCHANGED <<starts, clients, port>>

\* Mutant: the stage waits for its processes without a timeout.
FailServerStageOnEvidence ==
    LET i == Stage("server")
    IN  /\ At("server", "running")
        /\ port.start # starts["server"]
        /\ ~ (result.start = starts["server"] /\ PoolComplete(result, i))
        /\ Goes("server", "down", 0)
        /\ result' = Unbound /\ journal' = Retained(i)
        /\ UNCHANGED <<starts, clients, port, reports>>

\* A worker or the gateway that failed, an output that does not add up, or a
\* timeout: the stage's own processes are killed and main ends.
FailServerStage ==
    LET i == Stage("server")
    IN  /\ At("server", "running")
        /\ Goes("server", "down", 0)
        /\ port' = IF port.start = starts["server"] THEN Unbound ELSE port
        /\ result' = Unbound /\ journal' = Retained(i)
        /\ UNCHANGED <<starts, clients, reports>>

-----------------------------------------------------------------------------
Client(a, k) == clients[a].state[k]
Becomes(a, k, state) == clients' = [clients EXCEPT ![a].state[k] = state]
Routed(k, route) == port' = [port EXCEPT !.route[k] = route]

\* The opening frame reaches whatever gateway has the port; one of another
\* stage, or with a route for this pair already, drops it without an answer.
Reach(a, k) ==
    /\ Client(a, k) = "sending" /\ port # Unbound
    /\ IF port.stage = clients[a].stage /\ port.route[k].state = "free"
         THEN Becomes(a, k, "running") /\ Routed(k, [client |-> a, state |-> "running"])
         ELSE Becomes(a, k, "lost") /\ UNCHANGED port
    /\ UNCHANGED <<script, starts, result, journal, reports>>

\* The gateway stores the session's DONE; the journal keeps one record per
\* execution, and the gateway ends on any other.
Store(k) ==
    LET a == port.route[k].client
        e == <<port.stage, k>>
    IN  /\ port.route[k].state = "running"
        /\ IF journal[e] \in {0, a}
             THEN /\ journal' = [journal EXCEPT ![e] = a]
                  /\ Routed(k, [client |-> a, state |-> "stored"])
                  /\ IF Client(a, k) = "running" THEN Becomes(a, k, "waiting") ELSE UNCHANGED clients
             ELSE port' = Unbound /\ UNCHANGED <<journal, clients>>
        /\ UNCHANGED <<script, starts, result, reports>>

Acknowledge(a, k) ==
    /\ Client(a, k) = "waiting"
    /\ Becomes(a, k, "done")
    /\ UNCHANGED <<script, starts, port, result, journal, reports>>

\* A completion query; it is counted whether or not there is a record, and a
\* record ends the route even in a gateway that never saw the session.
Query(a, k) ==
    LET i == clients[a].stage
        stored == journal[<<i, k>>] = a
    IN  /\ Client(a, k) \in {"running", "waiting"}
        /\ port # Unbound /\ port.stage = i /\ port.route[k].client \in {0, a}
        /\ IF stored THEN Becomes(a, k, "done") ELSE UNCHANGED clients
        /\ port' = [port EXCEPT !.queried = TRUE,
                       !.route[k] = IF stored /\ @.state = "free"
                                      THEN [client |-> a, state |-> "closed"] ELSE @]
        /\ UNCHANGED <<script, starts, result, journal, reports>>

\* The session is aborted or rejected, by either side.
Abort(k) ==
    LET a == port.route[k].client
    IN  /\ port.route[k].state = "running"
        /\ Routed(k, [client |-> a, state |-> "closed"])
        /\ IF Client(a, k) = "running" THEN Becomes(a, k, "failed") ELSE UNCHANGED clients
        /\ UNCHANGED <<script, starts, result, journal, reports>>

FailClient(a, k) ==
    /\ Client(a, k) \in {"sending", "lost", "running", "waiting"}
    /\ Becomes(a, k, "failed")
    /\ UNCHANGED <<script, starts, port, result, journal, reports>>

\* Every session has ended: the gateway shuts its workers down and exits.
EndGateway ==
    /\ port # Unbound
    /\ \A k \in Pairs(port.stage) : port.route[k].state \in {"stored", "closed"}
    /\ port' = Unbound
    /\ result' = IF At("server", "running") /\ port.start = starts["server"] THEN port ELSE result
    /\ UNCHANGED <<script, starts, clients, journal, reports>>

FailGateway ==
    /\ port # Unbound /\ port' = Unbound
    /\ UNCHANGED <<script, starts, clients, result, journal, reports>>

-----------------------------------------------------------------------------
ClientScript == SpawnClients \/ CollectClients \/ FailClientStage \/ FinishScript("client")
ServerScript == SpawnGateway \/ CollectGateway \/ FailServerStage \/ FinishScript("server")

Native ==
    \/ \E a \in Start, k \in PairId :
         Reach(a, k) \/ Acknowledge(a, k) \/ Query(a, k) \/ FailClient(a, k)
    \/ \E k \in PairId : Store(k) \/ Abort(k)
    \/ EndGateway \/ FailGateway

Operator == \E r \in Role : StartScript(r) \/ KillScript(r)

Next == ClientScript \/ ServerScript \/ Native \/ Operator

\* The scripts run on; nothing is assumed of the native processes, which may
\* hang for ever.
Spec == Init /\ [][Next]_vars /\ WF_vars(ClientScript) /\ WF_vars(ServerScript)
-----------------------------------------------------------------------------
(* What both endpoints measured of the same stage is the same execution: a
   pair's row in any report of the client script and its row in any report of
   the server script come from one session, however often the scripts were
   killed and started again and whatever processes they left behind. *)
OneExecution ==
    \A a, b \in Start :
      \A x \in DOMAIN reports["client"][a], y \in DOMAIN reports["server"][b] :
        LET c == reports["client"][a][x]
            s == reports["server"][b][y]
        IN  c.stage = s.stage => c.arcs = s.arcs

(* A started script ends, completed or failed, even if its native processes
   hang. *)
AttemptsEnd == \A r \in Role : ~ At(r, "down") ~> At(r, "down")
=============================================================================
