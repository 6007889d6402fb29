-------------------------- MODULE ArcWorkersProofs --------------------------
(***************************************************************************)
(* The pre-swap phase of the retained cycle for every number of arcs and   *)
(* every set of ports: no two live workers share a port, and the phase     *)
(* implements the barrier its coordinator relies on.                       *)
(***************************************************************************)
EXTENDS ArcWorkers, FiniteSetTheorems, TLAPS

\* Neither native process of arc a runs.
Quiet(a) == server[a] \notin ServerUp /\ client[a] # "running"

\* What a worker's stage says about its native processes.
StageInv ==
    \A a \in Arc :
        /\ worker[a] \in {"none", "forked", "lock"} => server[a] = "none" /\ client[a] = "none"
        /\ worker[a] = "listen" => client[a] = "none"
        /\ worker[a] \in {"native", "join"} => server[a] # "starting"
        /\ worker[a] = "join" => client[a] # "running"
        /\ worker[a] \in {"report", "exit"} => Quiet(a)

\* What an answer is worth, and where it was read.
VerdictInv ==
    \A a \in Arc :
        /\ worker[a] \in {"none", "forked", "lock", "listen", "native", "join"} => verdict[a] = "none"
        /\ worker[a] \in {"native", "join"} /\ client[a] = "done" => a \in output
        /\ verdict[a] = "ok" => a \in output /\ Quiet(a)
        /\ a \in collected => verdict[a] = "ok" /\ worker[a] \in {"exit", "reaped"} \cup Zombie

\* What the coordinator has established in each of its phases.
PhaseInv ==
    /\ pc = "spawn" => \A a \in Arc : a >= next => worker[a] = "none"
    /\ pc = "poll" => next = 0
    /\ pc \in {"reap", "barrier"} => collected = Arc
    /\ pc = "reap" => \A a \in Arc : a < next => worker[a] = "reaped"
    /\ pc \in {"grace", "wait", "failed"} => \A a \in Arc : worker[a] \notin Running
    /\ pc \in {"wait", "failed"} => \A a \in Arc : Quiet(a)
    /\ pc = "barrier" => \A a \in Arc : worker[a] = "reaped"
    /\ pc = "failed" => \A a \in Arc : worker[a] \in {"none", "reaped"}

\* One worker holds the lock of the port probe.
LockInv == \A a, b \in Arc : worker[a] = "listen" /\ worker[b] = "listen" => a = b

PhaseIInv == TypeOK /\ StageInv /\ VerdictInv /\ PhaseInv /\ LockInv /\ PortsNeverClash
-----------------------------------------------------------------------------
\* The kernel has a port to hand out.
LEMMA SomePort == (CHOOSE p \in Port : TRUE) \in Port
<1>1. Port # {}
  BY PortAssumption, ArcsAssumption, FS_EmptySet
<1> QED
  BY <1>1

\* The phase starts with nothing running.
LEMMA InitHolds == Init => PhaseIInv
<1> SUFFICES ASSUME Init PROVE PhaseIInv
  OBVIOUS
<1>1. TypeOK
  <2> DEFINE first == CHOOSE p \in Port : TRUE
  <2>1. first \in Port /\ port = [a \in Arc |-> first]
    BY SomePort DEF Init
  <2> HIDE DEF first
  <2>2. port \in [Arc -> Port]
    BY <2>1
  <2>3. /\ pc = "spawn" /\ next = 0 /\ clock = "open" /\ unclean = FALSE
        /\ worker = [a \in Arc |-> "none"] /\ verdict = [a \in Arc |-> "none"]
        /\ server = [a \in Arc |-> "none"] /\ client = [a \in Arc |-> "none"]
        /\ output = {} /\ collected = {}
    BY DEF Init
  <2>4. next \in 0 .. N
    BY <2>3, ArcsAssumption
  <2> QED
    BY <2>2, <2>3, <2>4 DEF TypeOK
<1>2. StageInv
  <2>1. \A a \in Arc : worker[a] = "none" /\ server[a] = "none" /\ client[a] = "none"
    BY DEF Init
  <2> QED
    BY <2>1 DEF StageInv
<1>3. VerdictInv
  BY DEF Init, VerdictInv
<1>4. PhaseInv /\ LockInv /\ PortsNeverClash
  BY DEF Init, PhaseInv, LockInv, PortsNeverClash
<1> QED
  BY <1>1, <1>2, <1>3, <1>4 DEF PhaseIInv

\* The steps of a worker move its arc only.
LEMMA WorkerStep ==
    ASSUME PhaseIInv, NEW a \in Arc, Worker(a)
    PROVE  TypeOK' /\ StageInv' /\ VerdictInv'
<1> USE DEF PhaseIInv, TypeOK, StageInv, VerdictInv, Quiet, Stage, Answer, Running, Zombie, ServerUp, coordinator
<1>1. CASE SetSession(a) \/ StartClient(a) \/ Report(a) \/ Exit(a)
  BY <1>1 DEF SetSession, StartClient, Report, Exit
<1>2. CASE TakePort(a)
  BY <1>2 DEF TakePort, FreePort
<1>3. CASE GiveUpStart(a)
  BY <1>3 DEF GiveUpStart
<1>4. CASE ClientReturns(a)
  BY <1>4 DEF ClientReturns
<1>5. CASE NativeTimeout(a)
  BY <1>5 DEF NativeTimeout
<1>6. CASE CheckHandoff(a)
  BY <1>6 DEF CheckHandoff
<1>7. CASE Crash(a)
  BY <1>7 DEF Crash, Left
<1> QED
  BY <1>1, <1>2, <1>3, <1>4, <1>5, <1>6, <1>7 DEF Worker
\* So do its native processes, which only a live worker starts.
LEMMA NativeStep ==
    ASSUME PhaseIInv, NEW a \in Arc, Native(a)
    PROVE  TypeOK' /\ StageInv' /\ VerdictInv'
<1> USE DEF PhaseIInv, TypeOK, StageInv, VerdictInv, Quiet, Running, Zombie, ServerUp, coordinator
<1>1. CASE ServerBinds(a)
  BY <1>1 DEF ServerBinds
<1>2. CASE ServerEnds(a)
  BY <1>2 DEF ServerEnds
<1>3. CASE ClientExports(a)
  BY <1>3 DEF ClientExports
<1>4. CASE ClientEnds(a)
  BY <1>4 DEF ClientEnds
<1> QED
  BY <1>1, <1>2, <1>3, <1>4 DEF Native

\* The coordinator reads, reaps and signals.
LEMMA CoordinatorStep ==
    ASSUME PhaseIInv, Coordinator
    PROVE  TypeOK' /\ StageInv' /\ VerdictInv'
<1> USE DEF PhaseIInv, TypeOK, StageInv, VerdictInv, Quiet, Stage, Running, Zombie, ServerUp, Goto, Untouched
<1> USE ArcsAssumption
<1>1. CASE SpawnArc
  <2>1. next \in Arc /\ worker[next] = "none"
    BY <1>1 DEF SpawnArc, PhaseInv, Arc
  <2>2. next + 1 \in 0 .. N
    BY <2>1 DEF Arc
  <2> QED
    BY <1>1, <2>1, <2>2 DEF SpawnArc
<1>2. CASE SpawnFails \/ AllSpawned \/ PollTimeout \/ AllCollected \/ ReapTimeout \/ AllReaped \/ Terminated
  BY <1>2 DEF SpawnFails, AllSpawned, PollTimeout, AllCollected, ReapTimeout, AllReaped, Terminated
<1>3. CASE ReapArc
  <2>1. next \in Arc /\ next + 1 \in 0 .. N
    BY <1>3 DEF ReapArc, Arc
  <2> QED
    BY <1>3, <2>1 DEF ReapArc
<1>4. ASSUME NEW a \in Arc, ReadPipe(a) PROVE TypeOK' /\ StageInv' /\ VerdictInv'
  BY <1>4 DEF ReadPipe
<1>5. ASSUME NEW a \in Arc, ReapTerminated(a) PROVE TypeOK' /\ StageInv' /\ VerdictInv'
  BY <1>5 DEF ReapTerminated, coordinator
<1>6. CASE TermGroups
  BY <1>6 DEF TermGroups, End, Left, Grouped
<1>7. CASE TermPids
  BY <1>7 DEF TermPids, End, Left
<1>8. CASE KillGroups
  BY <1>8 DEF KillGroups, KillTree, Grouped
<1> QED
  BY <1>1, <1>2, <1>3, <1>4, <1>5, <1>6, <1>7, <1>8 DEF Coordinator
-----------------------------------------------------------------------------
\* What the coordinator has established stays so while it does not move: a
\* worker that is not there takes no step, nor does a process that is down.
LEMMA OthersKeepPhase ==
    ASSUME PhaseIInv, NEW a \in Arc, Worker(a) \/ Native(a)
    PROVE  PhaseInv'
<1>1. UNCHANGED coordinator
  BY DEF Worker, Native, SetSession, TakePort, GiveUpStart, StartClient, ClientReturns, NativeTimeout,
         CheckHandoff, Report, Exit, Crash, ServerBinds, ServerEnds, ClientExports, ClientEnds
<1>2. CASE Worker(a)
  <2>1. worker[a] \in Running /\ \A b \in Arc : b # a => worker'[b] = worker[b] /\ server'[b] = server[b] /\ client'[b] = client[b]
    BY <1>2 DEF PhaseIInv, TypeOK, Worker, SetSession, TakePort, GiveUpStart, StartClient, ClientReturns,
         NativeTimeout, CheckHandoff, Report, Exit, Crash, Stage, Answer, Running
  <2> QED
    BY <1>1, <2>1 DEF PhaseIInv, PhaseInv, coordinator, Quiet, Running
<1>3. CASE Native(a)
  <2>1. ~ Quiet(a) /\ worker' = worker
        /\ \A b \in Arc : b # a => server'[b] = server[b] /\ client'[b] = client[b]
    BY <1>3 DEF PhaseIInv, TypeOK, Native, ServerBinds, ServerEnds, ClientExports, ClientEnds, Quiet, ServerUp
  <2> QED
    BY <1>1, <2>1 DEF PhaseIInv, PhaseInv, coordinator
<1> QED
  BY <1>2, <1>3

\* The coordinator enters a phase only with what the phase stands on.
LEMMA CoordinatorKeepsPhase == ASSUME PhaseIInv, Coordinator PROVE PhaseInv'
<1> USE DEF PhaseIInv, TypeOK, PhaseInv, Goto, Untouched, Stage, Quiet
<1> USE ArcsAssumption
<1>1. CASE SpawnArc
  BY <1>1 DEF SpawnArc, Arc
<1>2. CASE SpawnFails \/ AllSpawned \/ PollTimeout \/ AllCollected \/ ReapTimeout
  BY <1>2 DEF SpawnFails, AllSpawned, PollTimeout, AllCollected, ReapTimeout, Arc
<1>3. CASE ReapArc
  BY <1>3 DEF ReapArc, Arc, Zombie
<1>4. CASE AllReaped
  BY <1>4 DEF AllReaped, Arc
<1>5. ASSUME NEW a \in Arc, ReadPipe(a) PROVE PhaseInv'
  BY <1>5 DEF ReadPipe
<1>6. ASSUME NEW a \in Arc, ReapTerminated(a) PROVE PhaseInv'
  BY <1>6 DEF ReapTerminated, coordinator, Running
<1>7. CASE TermGroups
  BY <1>7 DEF TermGroups
<1>8. CASE TermPids
  BY <1>8 DEF TermPids, End, Running
<1>9. CASE KillGroups
  <2>1. \A a \in Arc : Quiet(a)'
    BY <1>9 DEF KillGroups, KillTree, Grouped, StageInv, ServerUp
  <2> QED
    BY <1>9, <2>1 DEF KillGroups
<1>10. CASE Terminated
  BY <1>10 DEF Terminated, Running
<1> QED
  BY <1>1, <1>2, <1>3, <1>4, <1>5, <1>6, <1>7, <1>8, <1>9, <1>10 DEF Coordinator
-----------------------------------------------------------------------------
\* A step that lets no worker into the probe and starts no server.
LEMMA PortsKept ==
    ASSUME PhaseIInv, UNCHANGED port,
           \A b \in Arc : worker'[b] = "listen" => worker[b] = "listen",
           \A b \in Arc : worker'[b] \in Running /\ server'[b] \in ServerUp =>
                             worker[b] \in Running /\ server[b] \in ServerUp,
           \A b \in Arc : server'[b] = "starting" => server[b] = "starting"
    PROVE  LockInv' /\ PortsNeverClash'
BY DEF PhaseIInv, LockInv, PortsNeverClash

\* The probe hands a worker a port that no live worker has.
LEMMA PortStep == ASSUME PhaseIInv, Next PROVE LockInv' /\ PortsNeverClash'
<1> USE DEF PhaseIInv, TypeOK, Stage
<1>1. ASSUME NEW a \in Arc, TakePort(a) PROVE LockInv' /\ PortsNeverClash'
  <2>1. /\ worker' = [worker EXCEPT ![a] = "listen"] /\ server' = [server EXCEPT ![a] = "starting"]
        /\ port'[a] \in Port /\ \A b \in Arc : server[b] = "listening" => port'[a] # port[b]
        /\ \A b \in Arc : b # a => port'[b] = port[b]
        /\ \A b \in Arc : worker[b] # "listen"
    BY <1>1 DEF TakePort, FreePort, LockHeld
  <2>2. \A b \in Arc : worker[b] \in Running => server[b] # "starting"
    BY <2>1 DEF StageInv, Running, Quiet, ServerUp
  <2>3. LockInv'
    BY <2>1 DEF LockInv
  <2>4. PortsNeverClash'
    BY <2>1, <2>2 DEF PortsNeverClash, Running, ServerUp
  <2> QED
    BY <2>3, <2>4
<1>2. ASSUME NEW a \in Arc, Worker(a), ~ TakePort(a) PROVE LockInv' /\ PortsNeverClash'
  <2>1. /\ UNCHANGED port /\ worker[a] \in Running /\ worker'[a] # "listen"
        /\ server'[a] \in ServerUp => server'[a] = server[a]
        /\ \A b \in Arc : b # a => worker'[b] = worker[b] /\ server'[b] = server[b]
    BY <1>2 DEF Worker, SetSession, GiveUpStart, StartClient, ClientReturns,
         NativeTimeout, CheckHandoff, Report, Exit, Crash, Answer, Running, ServerUp
  <2> QED
    BY <2>1, PortsKept DEF ServerUp
<1>3. ASSUME NEW a \in Arc, Native(a) PROVE LockInv' /\ PortsNeverClash'
  <2>1. UNCHANGED <<worker, port>> /\ \A b \in Arc : /\ server'[b] \in ServerUp => server[b] \in ServerUp
                                                     /\ server'[b] = "starting" => server[b] = "starting"
    BY <1>3 DEF Native, ServerBinds, ServerEnds, ClientExports, ClientEnds, ServerUp
  <2> QED
    BY <2>1, PortsKept
<1>4. CASE Coordinator
  <2>1. UNCHANGED port /\ \A b \in Arc : /\ worker'[b] \in Running => worker'[b] \in {worker[b], "forked"}
                                         /\ server'[b] \in {server[b], "failed"}
    BY <1>4 DEF Coordinator, SpawnArc, SpawnFails, AllSpawned, PollTimeout, AllCollected, ReadPipe,
         ReapArc, ReapTimeout, AllReaped, ReapTerminated, TermGroups, TermPids, KillGroups, Terminated,
         Goto, Untouched, End, KillTree, Running, coordinator
  <2>2. \A b \in Arc : worker'[b] = "forked" => server'[b] = "none"
    BY <1>4, CoordinatorStep DEF StageInv
  <2>3. \A b \in Arc : worker'[b] = "listen" => worker[b] = "listen"
    BY <2>1 DEF Running
  <2>4. \A b \in Arc : worker'[b] \in Running /\ server'[b] \in ServerUp =>
                          worker[b] \in Running /\ server[b] \in ServerUp
    BY <2>1, <2>2 DEF ServerUp
  <2>5. \A b \in Arc : server'[b] = "starting" => server[b] = "starting"
    BY <2>1
  <2> QED
    BY <2>1, <2>3, <2>4, <2>5, PortsKept
<1>5. CASE Tick
  BY <1>5, PortsKept DEF Tick
<1> QED
  BY <1>1, <1>2, <1>3, <1>4, <1>5 DEF Next

(* The invariant: what a worker's stage and answer say about its processes,
   and what each phase of the coordinator stands on. *)
THEOREM PhaseInvariant == Spec => []PhaseIInv
<1>1. PhaseIInv /\ [Next]_vars => PhaseIInv'
  <2> SUFFICES ASSUME PhaseIInv, [Next]_vars PROVE PhaseIInv'
    OBVIOUS
  <2>1. ASSUME NEW a \in Arc, Worker(a) \/ Native(a) PROVE PhaseIInv'
    BY <2>1, WorkerStep, NativeStep, OthersKeepPhase, PortStep DEF PhaseIInv, Next
  <2>2. CASE Coordinator
    BY <2>2, CoordinatorStep, CoordinatorKeepsPhase, PortStep DEF PhaseIInv, Next
  <2>3. CASE Tick
    <3>1. LockInv' /\ PortsNeverClash'
      BY <2>3, PortStep DEF Next
    <3> QED
      BY <2>3, <3>1 DEF Tick, PhaseIInv, TypeOK, StageInv, VerdictInv, PhaseInv, Quiet, coordinator
  <2>4. CASE UNCHANGED vars
    BY <2>4 DEF vars, coordinator, PhaseIInv, TypeOK, StageInv, VerdictInv, PhaseInv, LockInv,
                PortsNeverClash, Quiet
  <2> QED
    BY <2>1, <2>2, <2>3, <2>4 DEF Next
<1> QED
  BY InitHolds, <1>1, PTL DEF Spec

\* Between the probe that found a port free and the bind of its server, no
\* sibling is given that port, for every number of arcs and of ports.
THEOREM NoPortClash == Spec => []PortsNeverClash
<1>1. PhaseIInv => PortsNeverClash
  BY DEF PhaseIInv
<1> QED
  BY PhaseInvariant, <1>1, PTL
-----------------------------------------------------------------------------
\* Once the phase is over none of its processes moves.
LEMMA OverStays ==
    ASSUME PhaseIInv, pc \in {"barrier", "failed"}, [Next]_vars
    PROVE  Busy = {} /\ UNCHANGED <<pc, output, Busy>>
<1>1. \A a \in Arc : worker[a] \in {"none", "reaped"} /\ Quiet(a)
  <2>1. CASE pc = "barrier"
    BY <2>1 DEF PhaseIInv, PhaseInv, VerdictInv
  <2>2. CASE pc = "failed"
    BY <2>2 DEF PhaseIInv, PhaseInv
  <2> QED
    BY <2>1, <2>2
<1>2. Busy = {}
  BY <1>1 DEF Busy, Quiet
<1>3. ~ Coordinator
  BY DEF Coordinator, SpawnArc, SpawnFails, AllSpawned, PollTimeout, AllCollected, ReadPipe,
         ReapArc, ReapTimeout, AllReaped, ReapTerminated, TermGroups, TermPids, KillGroups, Terminated
<1>4. \A a \in Arc : ~ Worker(a)
  BY <1>1 DEF Worker, SetSession, TakePort, GiveUpStart, StartClient, ClientReturns,
         NativeTimeout, CheckHandoff, Report, Exit, Crash, Running
<1>5. \A a \in Arc : ~ Native(a)
  BY <1>1 DEF Native, ServerBinds, ServerEnds, ClientExports, ClientEnds, Quiet, ServerUp
<1>6. UNCHANGED <<pc, output, worker, server, client>>
  BY <1>3, <1>4, <1>5 DEF Next, Tick, vars, coordinator
<1>7. UNCHANGED Busy
  BY <1>6 DEF Busy
<1> QED
  BY <1>2, <1>6, <1>7

(* The phase keeps its contract: the barrier opens over a vector of every arc,
   and however the phase ends nothing of it is left running. *)
THEOREM PhaseKeepsBarrier == Spec => KeepsBarrier
<1> DEFINE status == IF pc \in {"barrier", "failed"} THEN pc ELSE "running"
<1>1. Init => Barrier!Init
  BY DEF Init, Barrier!Init, Busy, ServerUp
<1>2. PhaseIInv /\ PhaseIInv' /\ [Next]_vars => [Barrier!Next]_<<status, output, Busy>>
  <2> SUFFICES ASSUME PhaseIInv, PhaseIInv', [Next]_vars
               PROVE  [Barrier!Next]_<<status, output, Busy>>
    OBVIOUS
  <2>1. CASE pc \in {"barrier", "failed"}
    BY <2>1, OverStays
  <2>2. CASE pc \notin {"barrier", "failed"} /\ pc' \notin {"barrier", "failed"}
    <3>1. output' \subseteq Arc /\ Busy' \subseteq Arc
      BY DEF PhaseIInv, TypeOK, Busy
    <3> QED
      BY <2>2, <3>1 DEF Barrier!Next, Barrier!Work
  <2>3. CASE pc \notin {"barrier", "failed"} /\ pc' \in {"barrier", "failed"}
    <3>1. AllReaped \/ Terminated
      BY <2>3 DEF Next, vars, coordinator, Tick, Worker, SetSession, TakePort, GiveUpStart, StartClient,
           ClientReturns, NativeTimeout, CheckHandoff, Report, Exit, Crash, Native, ServerBinds, ServerEnds,
           ClientExports, ClientEnds, Coordinator, SpawnArc, SpawnFails, AllSpawned, PollTimeout,
           AllCollected, ReadPipe, ReapArc, ReapTimeout, ReapTerminated, TermGroups, TermPids, KillGroups, Goto
    <3>2. UNCHANGED <<worker, server, client, output, collected>>
      BY <3>1 DEF AllReaped, Terminated, Goto, Untouched
    <3>3. Busy' = {} /\ UNCHANGED Busy
      <4>1. \A a \in Arc : worker'[a] \in {"none", "reaped"} /\ Quiet(a)'
        BY <2>3 DEF PhaseIInv, PhaseInv, VerdictInv
      <4>2. Busy' = {}
        BY <4>1 DEF Busy, Quiet
      <4> QED
        BY <3>2, <4>2 DEF Busy
    <3>4. pc' = "barrier" => output = Arc
      BY <3>2 DEF PhaseIInv, PhaseInv, VerdictInv, TypeOK
    <3> QED
      BY <2>3, <3>2, <3>3, <3>4 DEF Barrier!Next, Barrier!OpenBarrier, Barrier!Fail
  <2> QED
    BY <2>1, <2>2, <2>3
<1> QED
  BY PhaseInvariant, <1>1, <1>2, PTL DEF Spec, KeepsBarrier, Barrier!Spec
=============================================================================
