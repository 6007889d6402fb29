----------------------------- MODULE PreswapPool ----------------------------
(***************************************************************************)
(* The responder pool of the native Pre-swap: one gateway process          *)
(* (preswap_gateway.c) between the initiators of all pairs                 *)
(* (preswap_client_v4.c) and a fixed set of long-lived worker processes    *)
(* (preswap_server_v4.c), with the gateway's completion journal.  A        *)
(* session is one coalesced exchange INIT, COMMIT, NONCE, OPEN, FINAL,     *)
(* with a STATUS in the aggregate modes, and DONE.                         *)
(*                                                                         *)
(* Sockets are FIFO channels.  Time-outs may fire at any moment; an early  *)
(* one spends a fault, as do a bad frame and a failing disk.               *)
(***************************************************************************)
EXTENDS Naturals, Sequences, FiniteSets

CONSTANTS Pairs,          \* the sessions of the manifest
          NoPair,         \* no session
          W,              \* workers
          MaxQueue,       \* --max-queue
          Retries,        \* --completion-retries
          Aggregate,      \* the MSM modes: FINAL is answered by a STATUS
          DropFirstDone,  \* --test-drop-first-done-after-persist
          MaxFaults,      \* bound: faults over a behaviour, restarts among them
          MaxRestarts     \* bound: replacements of the responder side

ASSUME PoolAssumption ==
    /\ IsFiniteSet(Pairs) /\ Pairs # {} /\ NoPair \notin Pairs
    /\ W \in Nat \ {0} /\ {MaxQueue, Retries, MaxFaults, MaxRestarts} \subseteq Nat
    /\ {Aggregate, DropFirstDone} \subseteq BOOLEAN

VARIABLES gateway,     \* the gateway process: "up", "failed" or "exited"
          routes,      \* its routes, one per pair
          slots,       \* its worker table
          queue,       \* its FIFO of waiting routes
          completed,   \* its counter of ended sessions
          dropped,     \* whether the test option has dropped its DONE
          journal,     \* per pair: no record, one linked, one durable
          client,      \* the initiator processes
          worker,      \* the worker processes
          fromClient, toClient, fromWorker, toWorker,
          faults, restarts

tables == <<routes, slots, queue, completed>>
gwVars == <<gateway, routes, slots, queue, completed, dropped>>
budget == <<faults, restarts>>
vars == <<gwVars, journal, client, worker, fromClient, toClient, fromWorker, toWorker, budget>>

Worker == 0 .. W - 1

ClientFrame == {"INIT", "NONCE", "FINAL", "ABORT", "QUERY"}
ReplyFrame == {"COMMIT", "OPEN", "STATUS", "BADSTATUS", "DONE", "ABORT"}
GatewayFrame == {"ASSIGN", "ACK", "SHUTDOWN"}
Frame == [type : ClientFrame \cup ReplyFrame \cup GatewayFrame \cup {"REGISTER"},
          pair : Pairs \cup {NoPair}]
F(type, p) == [type |-> type, pair |-> p]

TypeOK ==
    /\ gateway \in {"up", "failed", "exited"}
    /\ routes \in [Pairs -> [seen : BOOLEAN, queued : BOOLEAN, terminal : BOOLEAN,
                             worker : Worker \cup {W}]]
    /\ slots \in [Worker -> [registered : BOOLEAN, serves : Pairs \cup {NoPair}]]
    /\ queue \in Seq(Pairs)
    /\ completed \in 0 .. Cardinality(Pairs)
    /\ dropped \in BOOLEAN
    /\ journal \in [Pairs -> {"none", "linked", "durable"}]
    /\ client \in [Pairs -> [pc : {"new", "commit", "open", "status", "done", "abort", "ok", "failed"},
                             attempt : 0 .. Retries]]
    /\ worker \in [Worker -> [pc : {"idle", "init", "nonce", "final", "ack",
                                    "refused", "expired", "exited"},
                              pair : Pairs \cup {NoPair}, sessions : SUBSET Pairs]]
    /\ {fromClient, toClient} \subseteq [Pairs -> Seq(Frame)]
    /\ {fromWorker, toWorker} \subseteq [Worker -> Seq(Frame)]
    /\ faults \in 0 .. MaxFaults /\ restarts \in 0 .. MaxRestarts

-----------------------------------------------------------------------------
NewRoutes == [p \in Pairs |-> [seen |-> FALSE, queued |-> FALSE, terminal |-> FALSE, worker |-> W]]
NewSlots == [w \in Worker |-> [registered |-> FALSE, serves |-> NoPair]]
NewWorker == [pc |-> "idle", pair |-> NoPair, sessions |-> {}]
Empty(S) == [x \in S |-> << >>]

\* Every worker has sent its registration when it enters its loop.
Init ==
    /\ gateway = "up" /\ routes = NewRoutes /\ slots = NewSlots /\ queue = << >>
    /\ completed = 0 /\ dropped = FALSE
    /\ journal = [p \in Pairs |-> "none"]
    /\ client = [p \in Pairs |-> [pc |-> "new", attempt |-> 0]]
    /\ worker = [w \in Worker |-> NewWorker]
    /\ fromClient = Empty(Pairs) /\ toClient = Empty(Pairs)
    /\ fromWorker = [w \in Worker |-> <<F("REGISTER", NoPair)>>] /\ toWorker = Empty(Worker)
    /\ faults = MaxFaults /\ restarts = MaxRestarts

Fault(harmless) ==
    /\ harmless \/ faults > 0
    /\ faults' = IF harmless THEN faults ELSE faults - 1

Closed(p) == client[p].pc \in {"ok", "failed"}
Stopped(w) == worker[w].pc \in {"refused", "expired", "exited"}

(* A send of a ZMQ_ROUTER_MANDATORY socket: to a peer that is gone it fails
   once the gateway's side has noticed, and is lost before. *)
SendFails(gone) == IF gone THEN BOOLEAN ELSE {FALSE}
Deliver(channel, peer, gone, frames) ==
    IF gone THEN channel ELSE [channel EXCEPT ![peer] = @ \o frames]

Busy(w) == slots[w].serves # NoPair
AllRegistered == \A w \in Worker : slots[w].registered
Consume(channel, x) == [channel EXCEPT ![x] = Tail(@)]

\* goto cleanup: the process ends with status 1.
Die == gateway' = "failed" /\ UNCHANGED <<tables, dropped>>

\* assign_route
\* Mutant: the route stays marked as queued.
AssignRouteKeepsQueued(r, p, w) == [r EXCEPT ![p].worker = w]

AssignRoute(r, p, w) == [r EXCEPT ![p].queued = FALSE, ![p].worker = w]
Assignment(p) == <<F("ASSIGN", p), F("INIT", p)>>

-----------------------------------------------------------------------------
(* The gateway's backend socket: frames of the workers *)
Register(w) ==
    /\ gateway = "up" /\ fromWorker[w] # << >> /\ Head(fromWorker[w]).type = "REGISTER"
    /\ slots' = [slots EXCEPT ![w].registered = TRUE]
    /\ fromWorker' = Consume(fromWorker, w)
    /\ UNCHANGED <<gateway, routes, queue, completed, dropped, journal, client, worker,
                   fromClient, toClient, toWorker, budget>>

\* The tables admit a frame of worker w for pair p.
Serves(w, p) ==
    /\ slots[w].serves = p /\ p \in Pairs
    /\ routes[p].worker = w /\ ~ routes[p].terminal

(* A terminal frame was relayed: the route ends, and the worker, whose channel
   is toW by now, takes the longest waiting route. *)
\* Mutant: the freed worker leaves the queue alone.
ReleaseIgnoresQueue(w, p, toW) ==
    /\ completed' = completed + 1
    /\ routes' = [routes EXCEPT ![p].terminal = TRUE]
    /\ slots' = [slots EXCEPT ![w].serves = NoPair]
    /\ toWorker' = toW
    /\ UNCHANGED <<gateway, queue>>

Release(w, p, toW) ==
    LET ended == [routes EXCEPT ![p].terminal = TRUE]
    IN  /\ completed' = completed + 1
        /\ IF queue = << >>
             THEN /\ routes' = ended
                  /\ slots' = [slots EXCEPT ![w].serves = NoPair]
                  /\ toWorker' = toW
                  /\ UNCHANGED <<gateway, queue>>
             ELSE /\ routes' = AssignRoute(ended, Head(queue), w)
                  /\ slots' = [slots EXCEPT ![w].serves = Head(queue)]
                  /\ queue' = Tail(queue)
                  /\ toWorker' = Deliver(toW, w, Stopped(w), Assignment(Head(queue)))
                  /\ \E fails \in SendFails(Stopped(w)) :
                        gateway' = IF fails THEN "failed" ELSE "up"

Relay(w) ==
    /\ gateway = "up" /\ fromWorker[w] # << >>
    /\ Head(fromWorker[w]).type \notin {"REGISTER", "DONE"}
    /\ fromWorker' = Consume(fromWorker, w)
    /\ LET f == Head(fromWorker[w])
           p == f.pair
       IN  IF ~ Serves(w, p)
             THEN Die /\ UNCHANGED <<toClient, toWorker>>
             ELSE \E fails \in SendFails(Closed(p)) :
                    IF fails
                      THEN Die /\ UNCHANGED <<toClient, toWorker>>
                      ELSE /\ toClient' = Deliver(toClient, p, Closed(p), <<f>>)
                           /\ IF f.type \in {"ABORT", "BADSTATUS"}
                                THEN Release(w, p, toWorker) /\ UNCHANGED dropped
                                ELSE UNCHANGED <<gwVars, toWorker>>
    /\ UNCHANGED <<journal, client, worker, fromClient, budget>>

\* bench_completion_journal_store: it fails before or after the record is linked.
StoreFails(p) ==
    /\ Fault(FALSE)
    /\ journal' \in {journal, [journal EXCEPT ![p] = IF @ = "none" THEN "linked" ELSE @]}

(* DONE: journal first, then the acknowledgement, then the client, whose
   absence does not matter any more. *)
RelayDone(w) ==
    /\ gateway = "up" /\ fromWorker[w] # << >> /\ Head(fromWorker[w]).type = "DONE"
    /\ fromWorker' = Consume(fromWorker, w)
    /\ LET p == Head(fromWorker[w]).pair
           acked == Deliver(toWorker, w, Stopped(w), <<F("ACK", p)>>)
           drop == DropFirstDone /\ ~ dropped
       IN  IF ~ Serves(w, p)
             THEN Die /\ UNCHANGED <<journal, faults, toClient, toWorker>>
             ELSE \/ StoreFails(p) /\ Die /\ UNCHANGED <<toClient, toWorker>>
                  \/ /\ journal' = [journal EXCEPT ![p] = "durable"]
                     /\ UNCHANGED faults
                     /\ \E fails \in SendFails(Stopped(w)) :
                          IF fails
                            THEN Die /\ UNCHANGED <<toClient, toWorker>>
                            ELSE /\ dropped' = (dropped \/ drop)
                                 /\ toClient' = Deliver(toClient, p, Closed(p) \/ drop,
                                                        <<F("DONE", p)>>)
                                 /\ Release(w, p, acked)
    /\ UNCHANGED <<client, worker, fromClient, restarts>>

-----------------------------------------------------------------------------
(* The gateway's public socket, served once all workers are registered *)
FrontendReady(p) == gateway = "up" /\ AllRegistered /\ fromClient[p] # << >>

\* Malformed, premature or late frames are dropped.
Drop(p) ==
    /\ FrontendReady(p)
    /\ Head(fromClient[p]).type # "QUERY"
    /\ \/ routes[p].terminal
       \/ ~ routes[p].seen /\ Head(fromClient[p]).type # "INIT"
       \/ routes[p].queued
    /\ fromClient' = Consume(fromClient, p)
    /\ UNCHANGED <<gwVars, journal, client, worker, toClient, fromWorker, toWorker, budget>>

Idle == {w \in Worker : slots[w].registered /\ ~ Busy(w)}
FindIdleWorker == CHOOSE w \in Idle : \A v \in Idle : w <= v

\* The first INIT of a route: assigned, queued, or rejected when the queue is full.
Admit(p) ==
    /\ FrontendReady(p)
    /\ Head(fromClient[p]).type = "INIT" /\ ~ routes[p].seen /\ ~ routes[p].terminal
    /\ fromClient' = Consume(fromClient, p)
    /\ LET seen == [routes EXCEPT ![p].seen = TRUE]
           w == FindIdleWorker
       IN  \/ /\ Idle # {}
              /\ routes' = AssignRoute(seen, p, w)
              /\ slots' = [slots EXCEPT ![w].serves = p]
              /\ toWorker' = Deliver(toWorker, w, Stopped(w), Assignment(p))
              /\ \E fails \in SendFails(Stopped(w)) :
                    gateway' = IF fails THEN "failed" ELSE "up"
              /\ UNCHANGED <<queue, completed, toClient>>
           \/ /\ Idle = {} /\ Len(queue) < MaxQueue
              /\ routes' = [seen EXCEPT ![p].queued = TRUE]
              /\ queue' = Append(queue, p)
              /\ UNCHANGED <<gateway, slots, completed, toClient, toWorker>>
           \/ /\ Idle = {} /\ Len(queue) >= MaxQueue
              /\ routes' = [seen EXCEPT ![p].terminal = TRUE]
              /\ completed' = completed + 1
              /\ toClient' = Deliver(toClient, p, Closed(p), <<F("ABORT", p)>>)
              /\ \E fails \in SendFails(Closed(p)) :
                    gateway' = IF fails THEN "failed" ELSE "up"
              /\ UNCHANGED <<slots, queue, toWorker>>
    /\ UNCHANGED <<dropped, journal, client, worker, fromWorker, budget>>

\* Any later frame of an assigned route goes to its worker.
Forward(p) ==
    /\ FrontendReady(p)
    /\ Head(fromClient[p]).type # "QUERY"
    /\ routes[p].seen /\ ~ routes[p].terminal /\ ~ routes[p].queued
    /\ fromClient' = Consume(fromClient, p)
    /\ LET w == routes[p].worker
       IN  IF w = W \/ slots[w].serves # p
             THEN Die /\ UNCHANGED toWorker
             ELSE \E fails \in SendFails(Stopped(w)) :
                    IF fails
                      THEN Die /\ UNCHANGED toWorker
                      ELSE /\ toWorker' = Deliver(toWorker, w, Stopped(w), <<Head(fromClient[p])>>)
                           /\ UNCHANGED gwVars
    /\ UNCHANGED <<journal, client, worker, toClient, fromWorker, budget>>

(* COMPLETION_QUERY: the record is loaded, stored again, and replayed; a query
   that cannot be answered is dropped. *)
\* Mutants: the record is replayed without being stored again, and every
\* replay is counted as a completed session.
ReplayUnsynced(p) ==
    /\ FrontendReady(p)
    /\ Head(fromClient[p]).type = "QUERY" /\ journal[p] # "none"
    /\ fromClient' = Consume(fromClient, p)
    /\ toClient' = Deliver(toClient, p, Closed(p), <<F("DONE", p)>>)
    /\ routes' = [routes EXCEPT ![p].seen = TRUE, ![p].terminal = TRUE]
    /\ completed' = completed + IF routes[p].terminal THEN 0 ELSE 1
    /\ UNCHANGED <<gateway, slots, queue, dropped, journal, client, worker, fromWorker,
                   toWorker, budget>>

ReplayCountedAgain(p) ==
    /\ FrontendReady(p)
    /\ Head(fromClient[p]).type = "QUERY" /\ journal[p] = "durable"
    /\ fromClient' = Consume(fromClient, p)
    /\ toClient' = Deliver(toClient, p, Closed(p), <<F("DONE", p)>>)
    /\ routes' = [routes EXCEPT ![p].seen = TRUE, ![p].terminal = TRUE]
    /\ completed' = completed + 1
    /\ UNCHANGED <<gateway, slots, queue, dropped, journal, client, worker, fromWorker,
                   toWorker, budget>>

Replay(p) ==
    /\ FrontendReady(p)
    /\ Head(fromClient[p]).type = "QUERY"
    /\ fromClient' = Consume(fromClient, p)
    /\ \/ /\ journal[p] = "none"
          /\ UNCHANGED <<routes, completed, journal, toClient, faults>>
       \/ /\ journal[p] # "none" /\ StoreFails(p)
          /\ UNCHANGED <<routes, completed, toClient>>
       \/ /\ journal[p] # "none"
          /\ journal' = [journal EXCEPT ![p] = "durable"]
          /\ \E fails \in SendFails(Closed(p)) :
               IF fails
                 THEN /\ routes' = [routes EXCEPT ![p].seen = TRUE]
                      /\ UNCHANGED <<completed, toClient>>
                 ELSE /\ toClient' = Deliver(toClient, p, Closed(p), <<F("DONE", p)>>)
                      /\ routes' = [routes EXCEPT ![p].seen = TRUE, ![p].terminal = TRUE]
                      /\ completed' = completed + IF routes[p].terminal THEN 0 ELSE 1
          /\ UNCHANGED faults
    /\ UNCHANGED <<gateway, slots, queue, dropped, client, worker, fromWorker, toWorker, restarts>>

(* All sessions have ended: after the grace interval, which should outlast the
   clients, the workers are shut down. *)
Exit ==
    /\ gateway = "up" /\ completed >= Cardinality(Pairs)
    /\ Fault(\A p \in Pairs : Closed(p))
    /\ \E first \in {W} \cup {w \in Worker : Stopped(w)} :
         /\ gateway' = IF first = W THEN "exited" ELSE "failed"
         /\ toWorker' = [w \in Worker |->
                           IF w < first /\ ~ Stopped(w)
                             THEN Append(toWorker[w], F("SHUTDOWN", NoPair)) ELSE toWorker[w]]
    /\ UNCHANGED <<tables, dropped, journal, client, worker, fromClient, toClient, fromWorker, restarts>>

\* gateway inactivity timeout: nothing to read for too long
Inactive ==
    /\ gateway = "up" /\ Fault(FALSE)
    /\ fromWorker = Empty(Worker)
    /\ AllRegistered => fromClient = Empty(Pairs)
    /\ Die
    /\ UNCHANGED <<journal, client, worker, fromClient, toClient, fromWorker, toWorker, restarts>>

-----------------------------------------------------------------------------
(* The initiator processes *)
ClientMoves(p, pc, frames) ==
    /\ client' = [client EXCEPT ![p].pc = pc]
    /\ fromClient' = [fromClient EXCEPT ![p] = @ \o frames]

Send(type, p) == <<F(type, p)>>

ClientStart(p) ==
    /\ client[p].pc = "new"
    /\ ClientMoves(p, "commit", Send("INIT", p))
    /\ UNCHANGED <<gwVars, journal, worker, toClient, fromWorker, toWorker, budget>>

\* receive_expected: any frame but the expected one ends the session.
ClientReceive(p) ==
    /\ client[p].pc \in {"commit", "open", "status", "abort"} /\ toClient[p] # << >>
    /\ toClient' = Consume(toClient, p)
    /\ LET pc == client[p].pc
           type == Head(toClient[p]).type
       IN  \/ /\ pc = "commit" /\ type = "COMMIT"
              /\ ClientMoves(p, "open", Send("NONCE", p)) /\ UNCHANGED faults
           \/ /\ pc = "open" /\ type = "OPEN"
              /\ ClientMoves(p, IF Aggregate THEN "status" ELSE "done", Send("FINAL", p))
              /\ UNCHANGED faults
           \/ /\ pc = "open" /\ type = "OPEN" /\ Fault(FALSE)
              /\ ClientMoves(p, "abort", Send("ABORT", p))
           \/ /\ pc = "status" /\ type = "STATUS"
              /\ ClientMoves(p, "done", << >>) /\ UNCHANGED faults
           \/ /\ <<pc, type>> \notin {<<"commit", "COMMIT">>, <<"open", "OPEN">>, <<"status", "STATUS">>}
              /\ ClientMoves(p, "failed", << >>) /\ UNCHANGED faults
    /\ UNCHANGED <<gwVars, journal, worker, fromWorker, toWorker, restarts>>

ClientTimeout(p) ==
    /\ client[p].pc \in {"commit", "open", "status", "abort"}
    /\ Fault(FALSE)
    /\ ClientMoves(p, "failed", << >>)
    /\ UNCHANGED <<gwVars, journal, worker, toClient, fromWorker, toWorker, restarts>>

\* receive_done: the next attempt queries for the completion, up to the last one.
\* Mutant: one attempt less.
NextAttemptGivesUp(p) ==
    IF client[p].attempt + 1 < Retries
      THEN /\ client' = [client EXCEPT ![p].attempt = @ + 1]
           /\ fromClient' = [fromClient EXCEPT ![p] = @ \o Send("QUERY", p)]
      ELSE ClientMoves(p, "failed", << >>)

NextAttempt(p) ==
    IF client[p].attempt < Retries
      THEN /\ client' = [client EXCEPT ![p].attempt = @ + 1]
           /\ fromClient' = [fromClient EXCEPT ![p] = @ \o Send("QUERY", p)]
      ELSE ClientMoves(p, "failed", << >>)

ReceiveDone(p) ==
    /\ client[p].pc = "done" /\ toClient[p] # << >>
    /\ toClient' = Consume(toClient, p)
    /\ IF Head(toClient[p]).type = "DONE" THEN ClientMoves(p, "ok", << >>) ELSE NextAttempt(p)
    /\ UNCHANGED <<gwVars, journal, worker, fromWorker, toWorker, budget>>

\* The acknowledgement timeout is early while an answer is still on its way.
DoneTimeout(p) ==
    /\ client[p].pc = "done"
    /\ Fault(/\ toClient[p] = << >> /\ fromClient[p] = << >>
             /\ gateway = "up" => journal[p] = "durable")
    /\ NextAttempt(p)
    /\ UNCHANGED <<gwVars, journal, worker, toClient, fromWorker, toWorker, restarts>>

-----------------------------------------------------------------------------
(* The worker processes *)
WorkerMoves(w, pc, frames) ==
    /\ worker' = [worker EXCEPT ![w].pc = pc]
    /\ fromWorker' = [fromWorker EXCEPT ![w] = @ \o frames]

\* receive_assignment: anything but an assignment or a shutdown ends the process.
WorkerAssigned(w) ==
    /\ worker[w].pc = "idle" /\ toWorker[w] # << >>
    /\ toWorker' = Consume(toWorker, w)
    /\ LET f == Head(toWorker[w])
       IN  worker' = CASE f.type = "ASSIGN"   -> [worker EXCEPT ![w].pc = "init", ![w].pair = f.pair]
                       [] f.type = "SHUTDOWN" -> [worker EXCEPT ![w].pc = "exited"]
                       [] OTHER               -> [worker EXCEPT ![w].pc = "refused"]
    /\ UNCHANGED <<gwVars, journal, client, fromClient, toClient, fromWorker, budget>>

Verdict(p) == IF Aggregate THEN <<F("STATUS", p), F("DONE", p)>> ELSE <<F("DONE", p)>>
BadVerdict(p) == IF Aggregate THEN <<F("BADSTATUS", p)>> ELSE <<F("ABORT", p)>>

\* run_coalesced: an unexpected or invalid frame aborts the session.
WorkerReceive(w) ==
    /\ worker[w].pc \in {"init", "nonce", "final"} /\ toWorker[w] # << >>
    /\ toWorker' = Consume(toWorker, w)
    /\ LET pc == worker[w].pc
           p == worker[w].pair
           f == Head(toWorker[w])
       IN  \/ /\ pc = "init" /\ f = F("INIT", p)
              /\ WorkerMoves(w, "nonce", Send("COMMIT", p)) /\ UNCHANGED faults
           \/ /\ pc = "nonce" /\ f = F("NONCE", p)
              /\ WorkerMoves(w, "final", Send("OPEN", p)) /\ UNCHANGED faults
           \/ /\ pc = "final" /\ f = F("FINAL", p)
              /\ \/ WorkerMoves(w, "ack", Verdict(p)) /\ UNCHANGED faults
                 \/ WorkerMoves(w, "idle", BadVerdict(p)) /\ Fault(FALSE)
           \/ /\ <<pc, f>> \notin {<<"init", F("INIT", p)>>, <<"nonce", F("NONCE", p)>>,
                                   <<"final", F("FINAL", p)>>}
              /\ WorkerMoves(w, "idle", Send("ABORT", p)) /\ UNCHANGED faults
    /\ UNCHANGED <<gwVars, journal, client, fromClient, toClient, restarts>>

\* send_done: the session counts only with the matching acknowledgement.
WorkerAcknowledged(w) ==
    /\ worker[w].pc = "ack" /\ toWorker[w] # << >>
    /\ toWorker' = Consume(toWorker, w)
    /\ LET p == worker[w].pair
       IN  worker' = [worker EXCEPT ![w].pc = "idle",
                        ![w].sessions = IF Head(toWorker[w]) = F("ACK", p) THEN @ \cup {p} ELSE @]
    /\ UNCHANGED <<gwVars, journal, client, fromClient, toClient, fromWorker, budget>>

\* The receive timeout, in a session or between two.
WorkerTimeout(w) ==
    /\ Fault(FALSE) /\ toWorker[w] = << >>
    /\ CASE worker[w].pc \in {"init", "nonce", "final"} ->
              WorkerMoves(w, "idle", Send("ABORT", worker[w].pair))
         [] worker[w].pc = "ack"  -> WorkerMoves(w, "idle", << >>)
         [] worker[w].pc = "idle" -> WorkerMoves(w, "expired", << >>)
         [] OTHER -> FALSE
    /\ UNCHANGED <<gwVars, journal, client, fromClient, toClient, toWorker, restarts>>

-----------------------------------------------------------------------------
(* The responder side is killed and replaced by a gateway and workers with the
   same manifest and completion directory.  Frames in flight are lost or not;
   a record that was linked but never synchronised may be gone. *)
Restart ==
    /\ gateway # "exited" /\ restarts > 0 /\ restarts' = restarts - 1 /\ Fault(FALSE)
    /\ gateway' = "up" /\ routes' = NewRoutes /\ slots' = NewSlots /\ queue' = << >>
    /\ completed' = 0 /\ dropped' = FALSE
    /\ worker' = [w \in Worker |-> NewWorker]
    /\ fromWorker' = [w \in Worker |-> <<F("REGISTER", NoPair)>>] /\ toWorker' = Empty(Worker)
    /\ \E lost \in SUBSET Pairs :
         /\ fromClient' = [p \in Pairs |-> IF p \in lost THEN << >> ELSE fromClient[p]]
         /\ toClient' = [p \in Pairs |-> IF p \in lost THEN << >> ELSE toClient[p]]
    /\ \E gone \in SUBSET {p \in Pairs : journal[p] = "linked"} :
         journal' = [p \in Pairs |-> IF p \in gone THEN "none" ELSE journal[p]]
    /\ UNCHANGED client

GatewayStep ==
    \/ \E w \in Worker : Register(w) \/ Relay(w) \/ RelayDone(w)
    \/ \E p \in Pairs : Drop(p) \/ Admit(p) \/ Forward(p) \/ Replay(p)
    \/ Exit

ClientStep(p) == ClientStart(p) \/ ClientReceive(p) \/ ReceiveDone(p) \/ DoneTimeout(p)
WorkerStep(w) == WorkerAssigned(w) \/ WorkerReceive(w) \/ WorkerAcknowledged(w)

Next ==
    \/ GatewayStep \/ Inactive \/ Restart
    \/ \E p \in Pairs : ClientStep(p) \/ ClientTimeout(p)
    \/ \E w \in Worker : WorkerStep(w) \/ WorkerTimeout(w)

Spec == Init /\ [][Next]_vars

\* Every process that can take a step takes one: the event loop polls both
\* sockets, and clients and workers block on theirs.
Fairness ==
    /\ \A w \in Worker : WF_vars(Register(w)) /\ WF_vars(Relay(w) \/ RelayDone(w)) /\ WF_vars(WorkerStep(w))
    /\ \A p \in Pairs : /\ WF_vars(Drop(p) \/ Admit(p) \/ Forward(p) \/ Replay(p))
                        /\ WF_vars(ClientStep(p))
    /\ WF_vars(Exit)

FairSpec == Spec /\ Fairness
-----------------------------------------------------------------------------
Holds(channel, type, p) == \E i \in DOMAIN channel : channel[i] = F(type, p)

(* "Before a gateway forwards DONE, it [...] commits it to a completion
   journal": whoever knows that a session completed, an initiator that exported,
   a worker that counted it, or a frame on its way to one of them, the record
   is synchronised to disk, also after failed writes and restarts
   (bench_completion_journal_store, replay_completion). *)
DurableBeforeKnown ==
    \A p \in Pairs :
        (\/ client[p].pc = "ok" \/ Holds(toClient[p], "DONE", p)
         \/ \E w \in Worker : p \in worker[w].sessions \/ Holds(toWorker[w], "ACK", p))
            => journal[p] = "durable"

(* The gateway's tables describe one assignment from both sides: a busy worker
   serves a live route that names it, and every live assigned route has its
   worker; the queue holds each waiting route once; the counter of completed
   sessions is the number of ended routes.  The consistency checks of the event
   loop, which end the gateway for everybody, never fire. *)
TablesAgree ==
    gateway = "up" =>
        /\ \A w \in Worker : Busy(w) => Serves(w, slots[w].serves)
        /\ \A p \in Pairs :
             (routes[p].worker # W /\ ~ routes[p].terminal) => slots[routes[p].worker].serves = p
        /\ \A i, j \in DOMAIN queue : queue[i] = queue[j] => i = j
        /\ {queue[i] : i \in DOMAIN queue} =
             {p \in Pairs : routes[p].queued /\ ~ routes[p].terminal}
        /\ completed = Cardinality({p \in Pairs : routes[p].terminal})
        /\ \A w \in Worker :
             (fromWorker[w] # << >> /\ Head(fromWorker[w]).type # "REGISTER") =>
                Serves(w, Head(fromWorker[w]).pair)
        /\ \A p \in Pairs :
             (fromClient[p] # << >> /\ Head(fromClient[p]).type # "QUERY"
                /\ routes[p].seen /\ ~ routes[p].terminal /\ ~ routes[p].queued) =>
                routes[p].worker # W

(* A session waits only while every worker is busy, within the queue bound:
   no end of a session, however it ends, leaves a worker idle beside a queue. *)
WorkConserving ==
    gateway = "up" /\ queue # << >> =>
        Len(queue) <= MaxQueue /\ \A w \in Worker : Busy(w)

(* "The gateway sends SHUTDOWN only after every expected session has completed
   or been explicitly rejected": no worker is inside a session, or about to
   start one, when the gateway has left its loop; replayed completions are not
   counted twice. *)
ShutdownCutsNoSession ==
    gateway = "exited" =>
        \A w \in Worker :
            /\ worker[w].pc \notin {"init", "nonce", "final"}
            /\ \A i \in DOMAIN toWorker[w] : toWorker[w][i].type # "ASSIGN"

(* Without faults every initiator succeeds, or was rejected by a full queue,
   although the first DONE is lost: sessions do not wait for ever behind each
   other, and the completion query recovers the acknowledgement. *)
EveryoneServed ==
    \A p \in Pairs :
        <>(\/ client[p].pc = "ok"
           \/ client[p].pc = "failed" /\ routes[p].terminal /\ routes[p].worker = W)

(* "Session affinity lasts through the terminal frame; the worker is then
   reused" (docs/NATIVE_PROTOCOL_V4.md): a worker that waits for its next
   assignment never meets a frame of a session that has ended. *)
WorkerReused == \A w \in Worker : worker[w].pc # "refused"
=============================================================================
