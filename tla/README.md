# Verification of the Oasis reproducibility package

The repository packages Oasis, a cyclic atomic swap of `n` assets between `n`
participants. Each asset sits on an *arc* from one participant to the next. An
arc is first *pre-swapped* by a joint computation of its two parties (pre-signatures
for a withdrawal and for a ladder of re-locks), then the witnesses are shared and
all arcs are withdrawn; if anything fails, the assets climb the re-lock ladder,
level by level, one deadline each, and are refunded to their senders. This directory
holds TLA+ models of the state machines in that code, the TLC configurations that
check them and proofs that TLAPS checks.

Paths below are relative to `src/`. `PS/` abbreviates
`vendor/paraswap/two-party computation/`.

## 1. Inventory

| component | code | state it keeps | operations | what makes it correct | model |
|---|---|---|---|---|---|
| host schedule | `PS/src/host_schedule.c` | immutable parameters, `uint64_t` times | init, deadline, liveness and readiness tests | admission neither wraps nor refuses a schedule that fits; windows follow each other | *HostSchedule* |
| host ledger (one per arc) | `PS/src/host_ledger.c` | state, level, last signature, optional schedule | create, fund, spend, re-lock, refund (timed and untimed), extract, snapshot encode/decode | an asset is settled once; nothing happens ahead of the schedule; a witness can be extracted after a withdrawal; each state survives a restart | *HostLedgerOps*, *HostLedger* |
| host cycle | `PS/src/host_recovery.c`, `host_witness.c`, `host_cycle_tool.c` | the retained ledgers of all arcs; input files | withdraw cycle, recover cycle, refund | calls that fail half-way can be repeated; nobody is stranded | *HostCycle* (partly) |
| pre-swap gateway | `PS/src/preswap_gateway.c` | routes, workers, FIFO queue, counters, journal directory | register, admit, queue, reject, relay, replay, release, shut down | tables agree; the queue is served; a result is durable before anyone learns it | *PreswapPool* (partly) |
| pre-swap worker | `PS/src/preswap_server_v4.c` | assignment, position in the session | register, receive assignment, session, answer shutdown | usable again after a session that aborted | *PreswapPool* (partly) |
| pre-swap initiator | `PS/src/preswap_client_v4.c` | position in the session, attempts of the completion query | session, query after a lost `DONE`, abort | learns the outcome, also after a timeout | *PreswapPool* (partly) |
| completion journal | `PS/src/completion_journal.c` | record files, temporaries | store, load | a record is whole, kept for good, and success means it is on disk | *CompletionJournal* |
| lifecycle orchestrator and its backends | `src/paraswap_lifecycle.py` | phase, arcs (status and level), event log, witness sets; a thread with a native server and client per arc | prepare, lock, pre-swap, export, share witnesses, swap, re-lock, refund; `execute_arc` | all arcs swap or all are refunded; no witness before all arcs accepted in time; no process left behind | *Lifecycle*, *ArcBackends* |
| ideal decision | `src/ideal_lifecycle_decision.py` | decision, ready arcs, state of each asset | fund, ready, decide, withdraw, refund | one common decision; the orchestrator implements it | *IdealCycle* |
| retained-arc coordinator | `scripts/run_retained_arc_coordinator.py`, `lifecycle_preswap.py`, `run_native_handoff.py` | child processes, pipes, handoff and witness files, deadlines | keys, delayed-witness proofs, locks, concurrent pre-swap, sharing, the ledger's command, unwinding | proofs before locks before vectors; a failed cycle's ledger, if it runs, is asked what it holds; no worker left behind | *RetainedCycle*, *ArcWorkers* |
| campaign, analysis and report scripts | `scripts/run_cloud_campaign.py`, `analyze_cloud_results.py`, `build_final_experiment_report.py`, `build_cloud_cost_report.py` | two independent scripts, native processes, the journal, report files | stages, restarts, pairing of both reports, evidence matrix, p-value families | both endpoints measured the same execution; the report claims no more than its analyses | *CloudSchedule*, *CloudCampaign*, *CloudAnalysis*, *FinalReport* (partly) |
| witness sharing, hand-off | `PS/src/host_witness.c`, `host_handoff.c` | received shares, open descriptors | receive, combine, hand over | the ledger reads only witnesses that were received or solved for | slots in *RetainedCycle*, the combination in *HostCycle* (partly) |
| timed delay | `PS/src/vtd_*.c` | a process per delayed witness | prove, solve, finish | - | its life in *RetainedCycle* (partly) |
| session cryptography | `PS/src/preswap_joint.c`, `preswap_common.c`, `batch_verifier.c`, `PS/include/preswap_protocol.h` | transcripts, shares | algebra, frame codec | - | not modelled |
| reference processes | `PS/src/preswap_server.c`, `preswap_client.c` | position in the session | session without gateway | - | not modelled |
| OASIS core and transport | `vendor/oasis-linear/` | session cache, replay journal, retained answers | phases, retry, replay, eviction | - | not modelled |
| transport authentication | `PS/src/transport_auth.c` | keys | none of the protocol | - | not modelled |
| upstream ParaSwap/A2L | `PS/src/bob.c`, `tumbler.c`, `util.c` | - | - | - | not modelled |

**Interactions.** `Lifecycle.run` calls one backend per arc from a thread pool and
takes their answers as they come, within a time budget. A backend starts a server and a
client process and waits for them with timeouts. The pre-swap service is a gateway
with long-lived workers: initiators and workers only talk to the
gateway (two ZeroMQ ROUTER sockets), which pairs a session with a free worker, queues sessions
beyond the free workers up to a limit, and stores the final transcript hash in the
completion journal before it acknowledges either side. After the pre-swap the host
keeps one ledger per arc; `host_cycle_tool.c` drives the cycle functions of
`host_recovery.c` over those ledgers, and each call reads its witnesses and pre-signatures
from descriptors and may stop at any of them. The coordinator of a retained cycle puts this together
on one machine: it forks a worker per arc for the pre-swap, fills the sealed files the ledger reads,
and sends the ledger process one command. A cloud campaign runs the service between two
hosts whose scripts never talk to each other; only the native processes of a stage connect them, and
what the analysis later pairs are rows of two report files.

**What is hard.** Message races between client, gateway and worker around `ABORT`
and `DONE`; the gateway's tables, which are updated in many branches and cross-checked
by tests that end the process; a query after a lost answer, also against a restarted
gateway; a kill or a power loss between two system calls of a store; calls over `n`
ledgers that stop in the middle; threads that answer in any order against a budget;
processes that hang, die, or outlive the one that started them, and ports chosen before they are bound;
contexts that unwind from any point; scripts killed and started again with the same
campaign identifier; `uint64_t` arithmetic at the edge. `PROJECT.json` lists each hazard at its line with
the properties that would notice it.

## 2. Modules and how they correspond to the code

**HostSchedule** — `host_schedule.c` as pure operators, with `U(x) == x % (UintMax + 1)`
wherever the C code computes in `uint64_t`. *MCHostSchedule* enumerates every input of
a small word.

**HostLedgerOps** — the ledger record of `host_ledger.c`, and for each entry point an
operator for its acceptance test and one for the new record (`SpendAtAccepts`/`SpendResult`,
`RefundAtAccepts`/`RefundResult`, `SnapshotAccepted`, ...). A signature is abstracted to the
transaction it signs and the key that verifies it, `[tx, key]`, with `NoSignature`
for anything else. The two ledger modules below share these operators.

**HostLedger** — one timed ledger whose entry points are called by anybody, in any
order, with any signature, at any time up to `Horizon`; `Save` and `Restart` take a
snapshot and continue from it. A snapshot may be old: `host_ledger.h:48-51` leaves its
freshness to the caller, so no property here promises it. *AssetLedger* is the
abstract specification: an asset is locked, its level rises within the schedule, and it is
settled once.

**HostCycle** — `host_withdraw_cycle`, `host_recover_cycle` and `host_refund_retained` on
all ledgers. One action is one turn of a function's loop (a spend, a re-lock, a check), as a
call may end with an error in any of them when an input is missing or wrong; accepted
operations stay. A witness is the set of identifiers whose sum it is (`Statement`), so
that `host_witness_advance`'s comparison is a comparison of sets. A host either refunds, or
withdraws and recovers in any mix (`ModesAssumption`).

**PreswapPool** — gateway, `W` workers and one initiator per pair, over FIFO channels.
The gateway's actions are the branches of its event loop: registration, relaying one
worker frame, `RelayDone` (store, acknowledge, forward), `Admit` (assign, queue or reject),
`Forward`, `Replay` (a completion query), `Exit` and `Inactive`. A send to a peer
that has gone is an error of the mandatory ROUTER socket and ends the gateway
(`Deliver`, `Die`); a new responder side may then be started over the same journal.
Workers and clients run the coalesced session; the joint computation is a verdict.
`Faults` (a lost peer, a timeout, a failed store) are bounded by `MaxFaults`.
*MCPreswapPool* adds the symmetry of the pairs.

**CompletionJournal** — `completion_journal_store` as its sequence of system calls
(open, write, fsync, link, fsync of the directory, unlink), `completion_journal_load` as
what a reader sees. The disk has a volatile and a durable side; `Kill` drops the process
and `PowerLoss` also everything not synchronised. *CompletionRecord* is the abstract
specification: a record that is absent or holds one frame for good.

**ArcBackends** — `execute_arc` of the native backend, of the OASIS backend with its conformance
run, and of a test double: one thread per arc (a stage per wait of the code) and the two
processes it starts, which bind, succeed, fail or hang as they like. The injected faults of the
code (`peer-abort`, `invalid-final`, the retries of the OASIS client, ...) are part of the
initial state and hit arc 0.

**Lifecycle** — `Lifecycle.run` over these threads: one action per arc of each of its loops, the
budget that may run out at any moment of the pre-swap, the export, sharing, swapping, re-locking and
refunding. *IdealCycle* is `IdealCycle` of `src/ideal_lifecycle_decision.py`; the
refinement mapping is at the end of *Lifecycle*.

**ArcWorkers** — `_run_preswap_arcs` of the coordinator with the workers of
`lifecycle_preswap.py`: fork, `setsid`, the probe for a free port under the host-wide file lock, the
native server and client, the handoff file, the answer over the pipe, and the exit; polling,
reaping and `_terminate_and_reap` of the coordinator, with its SIGTERM, grace period and SIGKILL. A
worker may be killed anywhere and leave its processes behind. *ArcBarrier* is the contract: the phase opens a
barrier over a complete set of vectors or raises, and leaves nothing running.

**RetainedCycle** — `coordinate` in its four outcomes (`branches`, `recover`, `honest`, `refund`) with
one action per turn of its loops, and a failure in any of them that unwinds the contexts in
reverse. The process of the cycle's ledger may die by itself at any time after it confirmed its locks: a command
then fails, and an abort finds nobody to ask. The concurrent pre-swap is one step here: *ArcWorkers* shows what it may do.

**CloudSchedule, CloudCampaign** — the schedule of stages both endpoints compute, and the two
scripts of `run_cloud_campaign.py` with the native clients, the gateway on the service port, its routes and
the completion journal. Either script may be killed, leaving its native processes behind, and started again
with the same campaign identifier. A session is named by the client script's start, stage and pair.

**CloudAnalysis, FinalReport, MCCloud** — `analyze_cloud_results.py` on any two of the reports those
scripts wrote (recomputed identifiers, the checks that refuse, the pairing, the rows compared) and
`build_final_experiment_report.py` over that analysis and an archive of other evidence: the strict matrix, and Holm's
adjustment within the families of all analyses. The stable sort of the rows is their rank: how many p-values are smaller,
or equal and further ahead. Measured values are left out, and a p-value may be anything in
`PValues`. *MCCloud* gives the instance.

## 3. Runs

| run | property | what it shows |
|---|---|---|
| `schedule` | `AdmissionExact`, `WindowsInOrder` | all inputs of a 5-bit word: an accepted schedule never wraps, a refused one would, and windows do not overlap |
| `ledger` | `TypeOK`, `ScheduleRespected`, `WithdrawalExtractable`, `SnapshotRecoverable` | any calls, any signatures, restarts from old snapshots |
| `ledger_settle` | `SettlesOnce`, `EventuallySettled` | without restarts the ledger implements *AssetLedger*; a persistent sender gets a funded asset out |
| `cycle` | `TypeOK`, `NeverStranded`, `RetryAccepted`, `OkMeansSettled`, `EventuallySettled` | failed calls are repeatable, in every mix of functions a host may use |
| `pool` | `TypeOK`, `DurableBeforeKnown`, `TablesAgree`, `WorkConserving`, `ShutdownCutsNoSession` | three initiators, two workers, queue of one, faults, a dropped `DONE`, a restarted responder side: the tables agree and no consistency check that would end the gateway fires |
| `pool_served` | `EveryoneServed` | without faults each session ends, behind one worker and after a lost `DONE` |
| `pool_reuse` | `WorkerReused` (violated) | see the finding |
| `journal` | `TypeOK`, `RecordWhole`, `StoredForGood` | kills, power losses and failed calls at each point of a store |
| `lifecycle` | `PeersReaped`, `RefundAfterLastLevel`, `NoWitnessBeforeVector`, `ImplementsIdeal`, `AllOrNothing` | every backend and injected fault, native processes that exit, hang or cannot be started at every point of three threads, against a budget |
| `workers` | `PortsNeverClash`, `KeepsBarrier`, `PhaseEnds` | two workers with crashes, orphans, two ports, deadlines and teardown implement *ArcBarrier*, and the phase ends |
| `retained` | `TypeOK`, `ProofsThenLocks`, `DerivedWitnesses`, `AbortObserved`, `SealedFilesRest` | the four outcomes of a cycle of three, with a failure at every step and a ledger that may die while it waits |
| `cloud` | `CompletedAccepted`, `OneExecution`, `HolmStepDown`, `NoMoreSignificant`, `AttemptsEnd` | a campaign whose scripts are each started up to twice, killed anywhere, over processes that fail or hang, then the analysis of any of its reports and the final report: what two scripts measured to the end is evidence the analysis accepts |

**Bounds.** `UintMax = 31` has every case of the admission tests on both sides, for 3 to
5 participants; the theorems of *HostLedgerProofs* cover every width. The ledger and the cycle take `N = 4`: the
smallest number with a first, a middle and a last level and an arc that is neither
first nor next to it. `Horizon` lies past the refund time. Three bad inputs in the cycle
are enough to stop a call in two different loops and a retry of it. In the pool, three pairs on
two workers with a queue of one give an assigned, a queued and a rejected session at the
same time; two faults can hit both sides of one session, and a restart, which spends one of
them, separates the journal from the tables while another fault is still to come. The journal's two frames are the old and the new digest of one
key; three calls allow a store, a repetition and a conflict. Pairs of the pool
are symmetric, as the gateway only compares identities; the liveness run does not use symmetry.
The lifecycle and the retained cycle take `N = 3`, the least the code accepts: a first, a
middle and a last arc. Two workers on two ports are the least that can contend for the lock and for a port,
and can fail while a sibling has already answered; *ArcWorkersProofs* covers the others. In `cloud`, one size
with one and two pairs, two modes, and one warm-up and one trial of each give eight stages, with warm-ups
that must leave no row and a second pair that can lag behind the first; two starts of each script let an
orphan of the first meet the second. Two p-values, 3 and 4 twentieths, are enough for ties, for an order, and for the cap
at 1. `Archive` holds the whole other evidence, evidence that misses a load campaign, and evidence whose costs
were counted with wrong warm-ups: the strict report is refused and built.

**Fairness.** In `ledger_settle` time passes and the sender keeps trying its re-locks
and refund: nothing obliges a recipient to withdraw. In `cycle` a call that has begun runs to its end (weak fairness) and
a host repeats its functions (strong fairness, since a call that is in progress
disables the next); a bad input is spent once, as `MaxFaults` bounds them. In
`pool_served` each process takes the steps it can (weak fairness): the event loop polls
both sockets in each round, and clients and workers only block on a receive. Faults are
never fair. In `lifecycle` the driver and every backend's thread are weakly fair, as each wait for a
process has a timeout; nothing is assumed of the processes. In `workers` time passes and
the coordinator runs, and nothing is assumed of workers or native processes: every wait of the
coordinator ends by the clock, or after its SIGKILL. In `cloud` the two scripts
are weakly fair while there is no final report, as every wait for a native process has a timeout, and the
native processes may hang for good. `retained` has safety properties only.

**Deadlock** is checked in `schedule`, `ledger` and `cycle`, where some call can always be made. The
pool (all processes exited), the journal (no calls left), the lifecycle (report written), the
workers (phase over), the retained cycle (returned or raised), the cloud (final report written) and the
ledger without restarts (settled, at the horizon) really stop, and their configurations say so.

**Finding.** `docs/NATIVE_PROTOCOL_V4.md:10` says that workers are reused. A worker whose
session ends in a timeout sends `ABORT` and waits for its next assignment
(`PS/src/preswap_server_v4.c:93`), while a frame the client sent before it saw the `ABORT` is still
forwarded to it. It reads that frame as its assignment, fails, and ends. `pool_reuse` shows the shortest such run.

**Exceptions the properties make, and why.**

- `PeersReaped` excepts the native server of an arc whose client could not be started: that
  `OSError` is not among the exceptions `src/paraswap_lifecycle.py:319-378` handles, and nobody ends the server.
- `AbortObserved` speaks of a ledger that had confirmed its lock. One whose confirmation came too late is
  killed before the context that would ask it is entered (`LockLost`).
- It also excepts a ledger that ended by itself after its confirmation (`LedgerDies`), killed or reached by the
  interrupt that the coordinator raises on: `scripts/run_native_handoff.py:400` asks only a process that
  `poll()` finds running, so this one is neither asked nor sent a command, and not even `unavailable` is
  printed. What it held is lost with it; `docs/FULL_CYCLE_COMPLETION_GATES.md:42-44` promises no more than an
  observation, and no ledger that outlives the coordinator. An interrupt of the coordinator in the ten seconds
  of the question itself, which would end it before either line is printed, is not modelled.
- After a client that succeeded, a worker whose deadline then turns out to have passed leaves its vector in the
  handoff file; the coordinator fails such a phase, so `ArcBarrier` allows vectors on failure. There is no further look at
  the deadline between the barrier and the consumption.
- `_terminate_and_reap` signals the groups of workers that were reaped already, on purpose: their processes may
  outlive them. That a process group identifier is not given to someone else in between is assumed.
- The digests both endpoints log are compared by the analysis for the aggregating modes only; for the
  itemwise ones `OneExecution` rests on the journal alone. Campaign identifiers are taken to be distinct
  for distinct campaigns, as `docs/CLOUD_DEPLOYMENT.md:130` and `:243` ask; the journal's directory is named by the
  stage (`scripts/run_cloud_campaign.py:1481`).

## 4. Proofs

*HostLedgerProofs*, the schedule — `ScheduleAdmissionExact`: for every `UintMax`, `Admissible` holds exactly
for the parameters whose schedule fits the word. The lemmas replace each wrapped
intermediate value by its mathematical value under the guards before it; the
one non-linear step is the guard that divides by `n`. `ScheduleCallExact` and `ScheduleWindowsInOrder` state the two
properties of the run for every width and every number of participants the calls try: `CallInv` ties the answer
of a call to its admission and to the schedule it stored, and the deadlines of an admitted
schedule are then those of unbounded arithmetic.

*HostLedgerProofs*, the ledger — for every `N`, schedule and horizon: `LedgerTypeOK`,
`LedgerOnSchedule`, `LedgerExtractable`, `LedgerRecoverable`, and, for the specification without restarts,
`LedgerSettlesOnce` (the refinement of *AssetLedger*). The assumptions are those that
`host_schedule_init` establishes. The properties need each other: that a refunded ledger
is at its last level is what lets its snapshot decode, and that a withdrawal holds its signature
is both what the decoder tests and what an extraction uses; and a restart replaces the ledger
by the saved one. The inductive invariant `LedgerInv` is therefore their conjunction with the
types, and with `OnSchedule` of the saved ledger, which stays true as the clock only advances.

*HostCycleProofs* — for every number of arcs, every schedule, every set of modes and any number of bad inputs:
`CallsTypeCorrect`, `OkSettles`, `RetriesAccepted` and `CycleNeverStranded`. None of the last three is inductive. The
invariant `IInv` says which *shape* the ledgers have: `WithdrawShape` (every arc at level 0) or `RecoverShape` (in the
order of a recovery, some arcs withdrawn at the level of their step, at most one on its way there, the others
untouched), and which of them each function in progress needs. `WithdrawAccepts` and `RecoverAccepts` show that on
ledgers whose withdrawals hold their signature the shapes are exactly the functions' acceptance tests; that a spend keeps its shape is
`ShapeStep`, split by what kind of step it is (`StepCases`). `OutgoingTurn` relates an arc and the one its
receiver pays, which is where `NeverStranded` follows.

*PreswapPoolProofs* — for every set of pairs, number of workers, bound of the queue, of retries, faults and restarts, and in
both modes: `PoolTypeCorrect`, `PoolTablesAgree`, `PoolWorkConserving`, `PoolDurableBeforeKnown` and
`PoolShutdownClean`, all from the inductive invariant `IInv` (`PoolInductive`). The only assumption is
`PoolAssumption`: at least one pair and one worker, finitely many pairs. `TablesAgree` and `WorkConserving` are consequences of
the invariant, the others parts of it that are not inductive alone, since all rest on what may still be in flight:

- `TablesInv` relates the gateway's tables: both sides of an assignment agree, an unseen route is untouched, the queue
  lists each waiting route once and only while all workers are busy, and `completed` is the number of
  ended routes. `PoolWorkConserving` follows; `PoolShutdownClean` rests on the count, as a gateway leaves its loop
  only when every route has ended.
- `SessionInv` relates, for each worker, its process, its slot and its two channels: the frames it sent and an assignment
  on its way belong to the route the slot serves, and a session, an assignment and a terminal frame under way
  exclude each other. A frame at the head of a worker's channel therefore passes the event loop's
  consistency checks; what an initiator sent too late may still reach a worker that serves another pair.
- `InitiatorInv` and `EvidenceInv` say that nothing but queries follows a `FINAL`, and that whatever shows that a
  `FINAL` was sent (a frame at a worker, a record, a route that a replay made known) finds its initiator past it. This is what
  survives a restart: a new gateway starts with empty tables over an old journal, and a record never meets an
  `INIT` of its pair again. `RecordInv` is the consequence the tables need: a running gateway holds no
  record of a route that waits or is assigned.

The proof has one lemma per part of the invariant and kind of step (`TablesReplay`, `EvidenceStep`, ...). Facts about the
channels, that sending and receiving add or take one frame and keep a property of all frames, are stated once
before them.

*CompletionJournalProofs* — `JournalTypeOK`, `JournalRecordWhole` and
`JournalStoredForGood`, for every set of frames, number of calls and faults.
The invariant adds `CallInv`: what each position in the sequence of system calls has established (the
temporary is complete and synchronised before `link`, the linked record is the caller's
after it), and `StoredInv`: a record that was ever reported as stored is on the durable side.

*LifecycleProofs* — for every number of participants, over all three backends: `LifecycleTypeCorrect` (`TypeOK` of
*Lifecycle*, which no run repeats), `WitnessesAfterVector`, `RefundsAfterLastLevel`, `NoPeerLeft`, and the refinement
`LifecycleImplementsIdeal`. `ThreadsInv` is about one thread and its processes: an accepted answer means that both
peers confirmed, and an answered thread has no process alive. The invariants of the driver relate its position in each
loop to the arcs: which are locked, withdrawn or refunded, that all levels are the last one once a refund has
started, and that the vector was complete when witnesses are out.

*RetainedCycleProofs* — for every number of participants and all outcomes: `CycleTypeCorrect`, `ProofsBeforeLocks`,
`WitnessesDerived`, `AbortsObserved` and the action property `SealedRest`. `ProofsInv` and `LocksInv` say how far the two
loops over arcs and jobs have come, `SlotsInv` what every file of an arc holds at each point
and that a sealed one belongs to an arc the loop has passed, `CommandInv` what the ledger's process
was told, and `HeldInv` that one which was told nothing still holds every asset locked, so that its report is one of
locked assets only.

*ArcWorkersProofs* — for every number of arcs and every set of ports: `NoPortClash` and `PhaseKeepsBarrier`, the
refinement of *ArcBarrier*. `StageInv` says what a worker's stage tells about its two processes, also after a crash;
`VerdictInv` that an answer `ok` means a vector in place and nothing running, wherever it was read;
`PhaseInv` what the coordinator has established in each phase, in particular that after the second signal no
worker is left to start a process, so that the last one reaches everything; `LockInv` that one worker is in the probe.

*CloudCampaignProofs*, the campaign — for every schedule and any number of restarts of both scripts: `CampaignTypeCorrect`
(no run repeats it), `CampaignOneExecution` and, for the specification with the final report in it, `FinalCampaign`.
The argument goes through the journal: a record is written once and names the start whose session was
stored (`JournalInv`); a client that is done, a route that is stored, and a gateway whose output was read all agree with it
(`ClientsInv`, `RoutesInv`, `GatewayInv`), so two rows of one stage, both written from it (`ReportsInv`), are the same.
The final report's step changes no variable of the campaign.

*CloudCampaignProofs*, the schedule — `MeasuredOnce`: whatever arguments the script accepts, each planned cell and trial
is measured by exactly one stage. `StageAt` is arithmetic on the stage's number; `StageOfPlace` and `PlaceOfStage` show that it
numbers the places of `make_stages`'s nested loops one to one, and a rotation of a fixed order of the modes runs
each of them once (`ModesOnce`: an injection between finite sets of one size). By the same lemmas no two sessions share an execution
identifier (`ExecutionsDistinct`), which is why the model may name the key of the completion journal by stage and pair.
`FinalAccepted` (`CompletedAccepted`) joins the three: `OrderInv` says that the report of a start lists, in order and with none left
out, the measured stages its script has passed; one that contains the last stage has therefore each key once
(`CompletedWhole`), its rows carry the identifiers the analysis recomputes and each trial its modes in order (`WholeTrial`), and
two such reports agree in what their arcs show (`OneExecution`). So none of the modelled refusals of the analysis (those of
measured values and audit fields are left out) can meet two completed scripts, however they were interrupted before.

*CloudCampaignProofs*, the report — for any evidence that `MatrixAssumption` allows (finite analyses) and any p-values:
`FinalHolm` (`HolmStepDown`) and `FinalNoMoreSignificant` (`NoMoreSignificant`). `HolmIsStepDown` is about the procedure on one
sequence: a rank is a position taken by exactly one row (`RankedInverse`), so the running maximum ranges over the rows up to
one's own, and a tie that is cut apart by the sort is bounded by its first row (`FirstTie`). `StepDownRenamed` carries it from sequences
to sets of rows, whatever order the rows are in, and `StepDownMonotone` compares a family with one that contains it. That
a finite set of numbers has a maximum needs no induction over an operator: it follows from the strict subset
ordering on finite sets being well-founded (`GreatestExists`).

Only model-checked: the liveness properties (fairness and ENABLED are out of the prover's reach): `EventuallySettled` of
*HostLedger* and of *HostCycle*, `EveryoneServed`, `AllOrNothing`, `PhaseEnds` and `AttemptsEnd`. Every invariant and every safety
property over steps that a passing run checks is stated by a theorem.

## 5. Not modelled

- The per-item pipelined mode of the pre-swap session, malformed frames and identity
  mismatches (each one ends the process that notices it), and the key set-up of the sockets.
- `host_check_recovery`, which recomputes a cycle read-only, and the command sequence of
  `host_cycle_tool.c` around the cycle functions. Its refund loop has no retry and documents none; what becomes of
  an asset funded before an early abort is left open by `docs/EARLY_ABORT_PROTOCOL_DECISION.md`, so no property speaks of either.
- Idle workers and an inactive gateway end by their timeouts. Both are actions of *PreswapPool*, and no document promises
  anything of them; the same holds for a disconnected client that ends the gateway.
- Witness shares on the wire: the count and the order in which `host_witness.c` receives them. What reaches
  which file is in *RetainedCycle*, and a bad witness is an input of *HostCycle*.
- The inside of the OASIS processes (`vendor/oasis-linear/`) and the reference pre-swap processes: the lifecycle only
  sees them succeed, fail or hang.
- Provisioning, packet capture, the strace profiles (the timing mode is modelled), the statistics behind
  a p-value, and the conformance and ablation scripts.
- The cryptography: signatures, adaptors, timed delays and proofs are accepted or not; transport authentication
  keeps no protocol state. The vendored upstream programs are not run by this package.

## 6. What could come next

1. The messages of one session between both parties, coalesced and pipelined, in place of the verdict in *PreswapPool*.
2. The OASIS transport: phases, retry and the replay cache with its journal; its abstract
   specification is that a request is answered once and always with the same bytes.
3. The reception of witness shares, composed with *HostCycle*, so that the inputs of a call are what was really shared.
