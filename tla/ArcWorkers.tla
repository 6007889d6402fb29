----------------------------- MODULE ArcWorkers -----------------------------
(***************************************************************************)
(* The concurrent pre-swap phase of the retained cycle                     *)
(* (scripts/run_retained_arc_coordinator.py, _run_preswap_arcs): the       *)
(* coordinator forks one worker per arc, collects their answers over       *)
(* pipes, waits for their exits, and on any failure tears everything down. *)
(* A worker (scripts/lifecycle_preswap.py, run_lifecycle_preswap) finds a  *)
(* free port under a host-wide file lock, runs a native server and a       *)
(* native client, and checks the vector the client handed off.             *)
(***************************************************************************)
EXTENDS Integers, FiniteSets

CONSTANTS N,     \* arcs of the cycle
          Port   \* the ports the kernel hands out

ASSUME ArcsAssumption == N \in Nat /\ N > 0
ASSUME PortAssumption == IsFiniteSet(Port) /\ Cardinality(Port) >= N

Arc == 0 .. N - 1

VARIABLES pc,       \* what _run_preswap_arcs does
          next,     \* the arc its spawning or reaping loop has reached
          clock,    \* how far time is: "open", past the coordinator's own
                    \* bound ("supervisor"), past the host's deadline ("expired")
          worker,   \* the stage of each worker process
          verdict,  \* the payload a worker has for its pipe
          server,   \* each worker's native server,
          client,   \* and its native client
          port,     \* the port picked for the server
          output,   \* the arcs whose handoff file holds a vector
          collected,\* the arcs whose pipe was read to its end
          unclean   \* a worker was reaped with a status other than 0

coordinator == <<pc, next, collected, unclean>>
vars == <<coordinator, clock, worker, verdict, server, client, port, output>>

Running == {"forked", "lock", "listen", "native", "join", "report", "exit"}
Zombie == {"clean", "dirty"}
ServerUp == {"starting", "listening"}

TypeOK ==
    /\ pc \in {"spawn", "poll", "reap", "term", "termpids", "grace", "wait", "barrier", "failed"}
    /\ next \in 0 .. N
    /\ clock \in {"open", "supervisor", "expired"}
    /\ worker \in [Arc -> {"none", "reaped"} \cup Running \cup Zombie]
    /\ verdict \in [Arc -> {"none", "ok", "error"}]
    /\ server \in [Arc -> {"none", "done", "failed"} \cup ServerUp]
    /\ client \in [Arc -> {"none", "running", "done", "failed"}]
    /\ port \in [Arc -> Port]
    /\ output \subseteq Arc /\ collected \subseteq Arc
    /\ unclean \in BOOLEAN

Init ==
    /\ pc = "spawn" /\ next = 0 /\ clock = "open"
    /\ worker = [a \in Arc |-> "none"]
    /\ verdict = [a \in Arc |-> "none"]
    /\ server = [a \in Arc |-> "none"]
    /\ client = [a \in Arc |-> "none"]
    /\ port = [a \in Arc |-> CHOOSE p \in Port : TRUE]
    /\ output = {} /\ collected = {}
    /\ unclean = FALSE

Late == clock = "expired"

Tick ==
    /\ \/ clock = "open" /\ clock' \in {"supervisor", "expired"}
       \/ clock = "supervisor" /\ clock' = "expired"
    /\ UNCHANGED <<coordinator, worker, verdict, server, client, port, output>>

-----------------------------------------------------------------------------
(* The worker of arc a. *)

Stage(a, stage) == worker' = [worker EXCEPT ![a] = stage]

\* The finally clause: a server that still runs is killed before the worker
\* says anything. `written' tells whether the handoff file is left alone.
Answer(a, answer, written) ==
    /\ Stage(a, "report")
    /\ verdict' = [verdict EXCEPT ![a] = answer]
    /\ server' = [server EXCEPT ![a] = IF @ \in ServerUp THEN "failed" ELSE @]
    /\ output' = IF written THEN output ELSE output \ {a}

SetSession(a) ==
    /\ worker[a] = "forked" /\ Stage(a, "lock")
    /\ UNCHANGED <<coordinator, clock, verdict, server, client, port, output>>

FreePort == Port \ {port[b] : b \in {c \in Arc : server[c] = "listening"}}

\* The lock dies with its holder, so only a live worker holds it.
LockHeld == \E b \in Arc : worker[b] = "listen"

\* Mutant: the lock is released as soon as the probe knows its port.
TakePortUnlocked(a) ==
    /\ worker[a] = "lock" /\ ~ Late
    /\ \E p \in FreePort : port' = [port EXCEPT ![a] = p]
    /\ server' = [server EXCEPT ![a] = "starting"]
    /\ Stage(a, "listen")
    /\ UNCHANGED <<coordinator, clock, verdict, client, output>>

\* _serialized_free_tcp_port: the kernel's choice is given back at once, and
\* the server binds it some time later.
TakePort(a) ==
    /\ worker[a] = "lock" /\ ~ Late /\ ~ LockHeld
    /\ \E p \in FreePort : port' = [port EXCEPT ![a] = p]
    /\ server' = [server EXCEPT ![a] = "starting"]
    /\ Stage(a, "listen")
    /\ UNCHANGED <<coordinator, clock, verdict, client, output>>

\* _remaining_seconds raises: while waiting for the lock or the listener.
GiveUpStart(a) ==
    /\ worker[a] \in {"lock", "listen"}
    /\ Late \/ (worker[a] = "listen" /\ server[a] \notin ServerUp)
    /\ Answer(a, "error", TRUE)
    /\ UNCHANGED <<coordinator, clock, client, port>>

StartClient(a) ==
    /\ worker[a] = "listen" /\ server[a] = "listening" /\ ~ Late
    /\ client' = [client EXCEPT ![a] = "running"]
    /\ Stage(a, "native")
    /\ UNCHANGED <<coordinator, clock, verdict, server, port, output>>

\* subprocess.run has returned; then the remaining time is computed for the
\* server, and a deadline found expired there raises past every truncation.
ClientReturns(a) ==
    /\ worker[a] = "native" /\ client[a] \in {"done", "failed"}
    /\ IF Late THEN Answer(a, "error", TRUE)
       ELSE Stage(a, "join") /\ UNCHANGED <<verdict, server, output>>
    /\ UNCHANGED <<coordinator, clock, client, port>>

\* TimeoutExpired, from the client or from the server: both bounds may be the
\* process timeout, which is reached without the deadline.
NativeTimeout(a) ==
    /\ worker[a] \in {"native", "join"}
    /\ worker[a] = "native" => client[a] = "running"
    /\ worker[a] = "join" => server[a] \in ServerUp
    /\ client' = [client EXCEPT ![a] = IF @ = "running" THEN "failed" ELSE @]
    /\ Answer(a, "error", FALSE)
    /\ UNCHANGED <<coordinator, clock, port>>

\* Both exit codes, the deadline, the registry and the timing record.
CheckHandoff(a) ==
    /\ worker[a] = "join" /\ server[a] \notin ServerUp
    /\ \/ client[a] = "done" /\ server[a] = "done" /\ ~ Late /\ Answer(a, "ok", TRUE)
       \/ Answer(a, "error", FALSE)
    /\ UNCHANGED <<coordinator, clock, client, port>>

\* The payload is written and the pipe closed; the exit comes after it.
Report(a) ==
    /\ worker[a] = "report" /\ Stage(a, "exit")
    /\ UNCHANGED <<coordinator, clock, verdict, server, client, port, output>>

Exit(a) ==
    /\ worker[a] = "exit" /\ Stage(a, IF verdict[a] = "ok" THEN "clean" ELSE "dirty")
    /\ UNCHANGED <<coordinator, clock, verdict, server, client, port, output>>

\* What is left in the pipe of a worker that dies: what it had written.
Left(a) == IF worker[a] \in {"forked", "lock", "listen", "native", "join", "report"}
             THEN "none" ELSE verdict[a]

\* A worker is killed from outside, at any point; its children live on.
Crash(a) ==
    /\ worker[a] \in Running /\ Stage(a, "dirty")
    /\ verdict' = [verdict EXCEPT ![a] = Left(a)]
    /\ UNCHANGED <<coordinator, clock, server, client, port, output>>

-----------------------------------------------------------------------------
(* The native processes, as the worker sees them. *)

\* A port another server listens on makes the bind fail.
ServerBinds(a) ==
    /\ server[a] = "starting"
    /\ server' = [server EXCEPT ![a] = IF port[a] \in FreePort THEN "listening" ELSE "failed"]
    /\ UNCHANGED <<coordinator, clock, worker, verdict, client, port, output>>

ServerEnds(a) ==
    /\ \/ server[a] \in ServerUp /\ server' = [server EXCEPT ![a] = "failed"]
       \/ server[a] = "listening" /\ client[a] # "none" /\ server' = [server EXCEPT ![a] = "done"]
    /\ UNCHANGED <<coordinator, clock, worker, verdict, client, port, output>>

\* The native writer exports before the deadline only.
ClientExports(a) ==
    /\ client[a] = "running" /\ ~ Late /\ a \notin output
    /\ output' = output \cup {a}
    /\ UNCHANGED <<coordinator, clock, worker, verdict, server, client, port>>

\* A late buffer is truncated by the writer itself; a failure may leave one.
ClientEnds(a) ==
    /\ client[a] = "running"
    /\ \/ a \in output /\ ~ Late /\ client' = [client EXCEPT ![a] = "done"] /\ UNCHANGED output
       \/ client' = [client EXCEPT ![a] = "failed"] /\ output' \in {output, output \ {a}}
    /\ UNCHANGED <<coordinator, clock, worker, verdict, server, port>>

-----------------------------------------------------------------------------
(* The coordinator. *)

Goto(stage) == pc' = stage /\ UNCHANGED <<next, collected, unclean>>
Untouched == UNCHANGED <<clock, verdict, server, client, port, output>>

SpawnArc ==
    /\ pc = "spawn" /\ next < N /\ clock = "open"
    /\ Stage(next, "forked") /\ next' = next + 1
    /\ UNCHANGED <<pc, collected, unclean>> /\ Untouched

\* The deadline, or pipe or fork raising.
SpawnFails == pc = "spawn" /\ next < N /\ Goto("term") /\ UNCHANGED worker /\ Untouched

AllSpawned ==
    /\ pc = "spawn" /\ next = N
    /\ pc' = "poll" /\ next' = 0
    /\ UNCHANGED <<collected, unclean, worker>> /\ Untouched

\* A pipe reaches its end with its writer; it is decoded at once, so that a
\* failed arc ends the phase for all of them.
ReadPipe(a) ==
    /\ pc = "poll" /\ a \notin collected
    /\ worker[a] \in {"exit"} \cup Zombie
    /\ IF verdict[a] = "ok" THEN collected' = collected \cup {a} /\ UNCHANGED <<pc, next, unclean>>
       ELSE Goto("term")
    /\ UNCHANGED worker /\ Untouched

PollTimeout ==
    /\ pc = "poll" /\ collected # Arc /\ clock # "open" /\ Goto("term")
    /\ UNCHANGED worker /\ Untouched

AllCollected ==
    /\ pc = "poll" /\ collected = Arc /\ Goto("reap")
    /\ UNCHANGED worker /\ Untouched

\* _wait_worker_exit, arc by arc.
ReapArc ==
    /\ pc = "reap" /\ next < N /\ worker[next] \in Zombie
    /\ Stage(next, "reaped") /\ next' = next + 1
    /\ unclean' = (unclean \/ worker[next] = "dirty")
    /\ UNCHANGED <<pc, collected>> /\ Untouched

\* Mutant: only a child that is not there ends the wait, never the deadline.
ReapForever ==
    /\ pc = "reap" /\ next < N /\ worker[next] = "reaped" /\ Goto("term")
    /\ UNCHANGED worker /\ Untouched

ReapTimeout ==
    /\ pc = "reap" /\ next < N /\ worker[next] \notin Zombie
    /\ clock # "open" /\ Goto("term")
    /\ UNCHANGED worker /\ Untouched

AllReaped ==
    /\ pc = "reap" /\ next = N /\ Goto(IF unclean THEN "term" ELSE "barrier")
    /\ UNCHANGED worker /\ Untouched

-----------------------------------------------------------------------------
(* _terminate_and_reap. *)

\* A signal that ends the workers of a set.
End(targets) ==
    /\ worker' = [a \in Arc |-> IF a \in targets /\ worker[a] \in Running THEN "dirty" ELSE worker[a]]
    /\ verdict' = [a \in Arc |-> IF a \in targets /\ worker[a] \in Running THEN Left(a) ELSE verdict[a]]

\* A process group exists from its leader's setsid on, and outlives it.
Grouped == {a \in Arc : worker[a] \notin {"none", "forked"}}

\* SIGTERM ends a native process, unless it ignores it.
TermGroups ==
    /\ pc = "term" /\ Goto("termpids")
    /\ End(Grouped)
    /\ \E stubborn \in SUBSET {a \in Grouped : server[a] \in ServerUp \/ client[a] = "running"} :
        /\ server' = [a \in Arc |-> IF a \in Grouped \ stubborn /\ server[a] \in ServerUp
                                      THEN "failed" ELSE server[a]]
        /\ client' = [a \in Arc |-> IF a \in Grouped \ stubborn /\ client[a] = "running"
                                      THEN "failed" ELSE client[a]]
    /\ UNCHANGED <<clock, port, output>>

\* For a worker that was caught before its setsid.
TermPids ==
    /\ pc = "termpids" /\ Goto("grace")
    /\ End(Arc)
    /\ UNCHANGED <<clock, server, client, port, output>>

\* waitpid, without blocking during the grace period and blocking at the end.
ReapTerminated(a) ==
    /\ pc \in {"grace", "wait"} /\ worker[a] \in Zombie /\ Stage(a, "reaped")
    /\ UNCHANGED coordinator /\ Untouched

KillTree(targets) ==
    /\ server' = [a \in Arc |-> IF a \in targets /\ server[a] \in ServerUp THEN "failed" ELSE server[a]]
    /\ client' = [a \in Arc |-> IF a \in targets /\ client[a] = "running" THEN "failed" ELSE client[a]]

\* Mutant: only the groups whose leader was not reaped yet.
KillUnreaped ==
    /\ pc = "grace" /\ Goto("wait")
    /\ KillTree({a \in Arc : worker[a] # "reaped"})
    /\ UNCHANGED <<clock, worker, verdict, port, output>>

\* SIGKILL to every group: descendants may outlive their leader.
KillGroups ==
    /\ pc = "grace" /\ Goto("wait")
    /\ KillTree(Grouped)
    /\ UNCHANGED <<clock, worker, verdict, port, output>>

Terminated ==
    /\ pc = "wait" /\ \A a \in Arc : worker[a] \in {"none", "reaped"}
    /\ Goto("failed")
    /\ UNCHANGED worker /\ Untouched

-----------------------------------------------------------------------------
Worker(a) ==
    \/ SetSession(a) \/ TakePort(a) \/ GiveUpStart(a) \/ StartClient(a) \/ ClientReturns(a)
    \/ NativeTimeout(a) \/ CheckHandoff(a) \/ Report(a) \/ Exit(a) \/ Crash(a)

Native(a) == ServerBinds(a) \/ ServerEnds(a) \/ ClientExports(a) \/ ClientEnds(a)

Coordinator ==
    \/ SpawnArc \/ SpawnFails \/ AllSpawned \/ PollTimeout \/ AllCollected
    \/ ReapArc \/ ReapTimeout \/ AllReaped
    \/ TermGroups \/ TermPids \/ KillGroups \/ Terminated
    \/ \E a \in Arc : ReadPipe(a) \/ ReapTerminated(a)

Next == Tick \/ Coordinator \/ \E a \in Arc : Worker(a) \/ Native(a)

\* Time passes and the coordinator runs; no worker and no native process owes
\* it anything.
Spec == Init /\ [][Next]_vars /\ WF_vars(Tick) /\ WF_vars(Coordinator)

-----------------------------------------------------------------------------
(* The phase keeps the coordinator's contract: the barrier opens over a vector
   of every arc, and neither the barrier nor the exception leaves a worker, a
   server or a client behind -- with workers that crash anywhere, leave
   orphans, hang after their answer, or are caught before their setsid. *)
Busy == {a \in Arc : \/ worker[a] \notin {"none", "reaped"}
                     \/ server[a] \in ServerUp \/ client[a] = "running"}

Barrier == INSTANCE ArcBarrier WITH
              status <- IF pc \in {"barrier", "failed"} THEN pc ELSE "running",
              vectors <- output, busy <- Busy

KeepsBarrier == Barrier!Spec

(* Two live workers never have the same port in hand: between the probe that
   found it free and the bind of one server, no sibling can be given it. *)
PortsNeverClash ==
    \A a, b \in Arc :
        a # b /\ worker[a] = "listen" /\ server[a] = "starting"
              /\ worker[b] \in Running /\ server[b] \in ServerUp => port[a] # port[b]

(* A deadline that covers spawning, polling, exits and teardown: the phase
   ends, whatever the workers and the native processes do. *)
PhaseEnds == <>(pc \in {"barrier", "failed"})
=============================================================================
