--------------------------- MODULE RetainedCycle ----------------------------
(***************************************************************************)
(* One local cycle over native processes                                   *)
(* (scripts/run_retained_arc_coordinator.py, coordinate, with the process  *)
(* protocols of scripts/run_native_handoff.py): keys and delayed-witness   *)
(* proofs of every arc, the locks, the solvers, the concurrent pre-swap    *)
(* (one step here: ArcBarrier is its contract), the witnesses, and the     *)
(* ledger's command.  A failure anywhere unwinds the contexts in reverse.  *)
(***************************************************************************)
EXTENDS Integers, FiniteSets

CONSTANT N   \* participants, and arcs

ASSUME CycleAssumption == N \in Nat /\ N >= 3

Arc == 0 .. N - 1
Level == 0 .. N - 2
Job == 0 .. N - 1     \* an arc's delayed witnesses by level; the last is the refund key

VARIABLES outcome,   \* the cycle asked for; "branches" is one ledger per arc
          explicit,  \* the caller's deadline, instead of a budget from the locks on
          expired,   \* the deadline has passed
          pc, arc, job,   \* the phase of coordinate, and where its loops are
          pairs,     \* the arcs whose keys and registry are retained
          vtd,       \* the process of each delayed witness
          handoffs,  \* the arcs with an admitted vector
          slots,     \* where each witness of an arc's witness file comes from
          sealed,    \* the arcs whose witness file is sealed
          assets,
          native,    \* the process of the cycle's ledger; a dead one ended by itself
          command,   \* what it was sent after its locks
          observed   \* what is known of a ledger that was given up

vars == <<outcome, explicit, expired, pc, arc, job, pairs, vtd, handoffs, slots, sealed,
          assets, native, command, observed>>

Retained == outcome # "branches"
Source == {"fixture", "erased", "shared", "recovered"}

TypeOK ==
    /\ outcome \in {"branches", "recover", "honest", "refund"}
    /\ {explicit, expired} \subseteq BOOLEAN
    /\ pc \in {"setup", "prepare", "fund", "deadline", "solve", "preswap", "share", "finish",
               "consume", "report", "abort", "close", "raised", "done"}
    /\ arc \in Arc /\ job \in Job
    /\ pairs \subseteq Arc /\ handoffs \subseteq Arc /\ sealed \subseteq Arc
    /\ vtd \in [Arc \X Job -> {"none", "prepared", "solving", "finished", "closed"}]
    /\ slots \in [Arc -> [withdraw : Source, relock : [Level -> Source]]]
    /\ assets \in [Arc -> {"unfunded", "locked", "withdrawn", "refunded"}]
    /\ native \in {"none", "waiting", "dead", "ended", "lost"}
    /\ command \in {"none", "C", "A"}
    /\ observed \in {"none", "reported", "unavailable"}

Slots(withdraw, relock) == [withdraw |-> withdraw, relock |-> [l \in Level |-> relock]]

Init ==
    /\ outcome \in {"branches", "recover", "honest", "refund"}
    /\ explicit \in BOOLEAN
    /\ expired = FALSE
    /\ pc = "setup" /\ arc = 0 /\ job = 0
    /\ pairs = {} /\ handoffs = {} /\ sealed = {}
    /\ vtd = [j \in Arc \X Job |-> "none"]
    /\ slots = [a \in Arc |-> Slots("fixture", "fixture")]
    /\ assets = [a \in Arc |-> "unfunded"]
    /\ native = "none" /\ command = "none" /\ observed = "none"

-----------------------------------------------------------------------------
(* Control: a loop over the arcs, a loop over the jobs of every arc, and the
   exception that leaves either. *)

Enter(phase) == pc' = phase /\ arc' = 0 /\ job' = 0

\* Mutant: a turn too many.
EachArcAndOne(phase, then) ==
    /\ pc = phase
    /\ IF arc < N THEN arc' = arc + 1 /\ UNCHANGED <<pc, job>> ELSE Enter(then)

EachArc(phase, then) ==
    /\ pc = phase
    /\ IF arc < N - 1 THEN arc' = arc + 1 /\ UNCHANGED <<pc, job>> ELSE Enter(then)

LastJob == job = N - 1

\* `then' follows the last job of the last arc.
EachJob(phase, then) ==
    /\ pc = phase
    /\ IF ~ LastJob THEN job' = job + 1 /\ UNCHANGED <<pc, arc>>
       ELSE IF arc < N - 1 THEN arc' = arc + 1 /\ job' = 0 /\ UNCHANGED pc ELSE Enter(then)

Raise == Enter("abort") /\ UNCHANGED <<outcome, explicit, expired, pairs, vtd, handoffs, slots,
                                       sealed, assets, native, command, observed>>

Given == UNCHANGED <<outcome, explicit, expired>>
LedgerUntouched == UNCHANGED <<assets, native, command, observed>>

Expire ==
    /\ ~ expired /\ expired' = TRUE
    \* a budget starts to run when the locks are in
    /\ explicit \/ pc \notin {"setup", "prepare", "fund", "deadline"}
    /\ UNCHANGED <<outcome, explicit, pc, arc, job, pairs, vtd, handoffs, slots, sealed,
                   assets, native, command, observed>>

\* The ledger's process ends by itself before it has answered: killed, or reached
\* by the interrupt that the coordinator raises on.
LedgerDies ==
    /\ native = "waiting" /\ native' = "dead"
    /\ UNCHANGED <<outcome, explicit, expired, pc, arc, job, pairs, vtd, handoffs, slots, sealed,
                   assets, command, observed>>

-----------------------------------------------------------------------------
(* Preparation. *)

\* prepared_pair: address keys, bundles and the registry of one arc.
PreparePair ==
    /\ EachArc("setup", "prepare")
    /\ pairs' = pairs \cup {arc}
    /\ UNCHANGED <<vtd, handoffs, slots, sealed>> /\ Given /\ LedgerUntouched

\* The native process has proved its delayed witness: its public inputs are
\* sealed and their key is the admitted one.
Prove ==
    /\ vtd' = [vtd EXCEPT ![<<arc, job>>] = "prepared"]
    /\ UNCHANGED <<pairs, handoffs, slots, sealed>> /\ Given /\ LedgerUntouched

\* Mutant: an arc's refund key is proved with its locks, after the others'.
PrepareVtdPartly == EachArc("prepare", "fund") /\ Prove

PrepareVtd == EachJob("prepare", "fund") /\ Prove

-----------------------------------------------------------------------------
(* Locks.  A deadline that has passed refuses the funding. *)

Refused == arc = 0 /\ explicit /\ expired

\* Mutant: only the withdrawal witness is taken from the file.
ErasedWithdrawal == [a \in Arc |-> Slots("erased", "fixture")]

Erased == [a \in Arc |-> Slots("erased", "erased")]

\* _funded_cycle_recovery: one process locks the assets of all arcs, after the
\* fixture's witnesses were erased.
LockCycle ==
    /\ pc = "fund" /\ Retained /\ ~ Refused
    /\ Enter("deadline")
    /\ slots' = Erased
    /\ assets' = [a \in Arc |-> "locked"] /\ native' = "waiting"
    /\ UNCHANGED <<command, observed, pairs, vtd, handoffs, sealed>> /\ Given

\* _funded_ledger: one process for every arc.
LockBranch ==
    /\ ~ Retained /\ ~ Refused /\ EachArc("fund", "deadline")
    /\ assets' = [assets EXCEPT ![arc] = "locked"]
    /\ UNCHANGED <<native, command, observed, pairs, vtd, handoffs, slots, sealed>> /\ Given

\* The caller's deadline must not have passed with the locks.
SetDeadline ==
    /\ pc = "deadline" /\ ~ expired /\ Enter("solve")
    /\ UNCHANGED <<pairs, vtd, handoffs, slots, sealed>> /\ Given /\ LedgerUntouched

StartSolver ==
    /\ EachJob("solve", "preswap")
    /\ vtd' = [vtd EXCEPT ![<<arc, job>>] = "solving"]
    /\ UNCHANGED <<pairs, handoffs, slots, sealed>> /\ Given /\ LedgerUntouched

\* The barrier of ArcBarrier; a deadline that has passed is refused before it.
Preswap ==
    /\ pc = "preswap" /\ ~ expired /\ Enter("share")
    /\ handoffs' = Arc
    /\ UNCHANGED <<pairs, vtd, slots, sealed>> /\ Given /\ LedgerUntouched

-----------------------------------------------------------------------------
(* Witnesses. *)

\* Who receives the witness of the withdrawal in each outcome.
Receives(a) == outcome # "refund" /\ (outcome = "recover" => a = 0)

\* receive_live_witness, into a slot that was zeroed before.
ShareWitness ==
    /\ EachArc("share", IF outcome = "honest" THEN "consume" ELSE "finish")
    /\ slots' = [slots EXCEPT ![arc].withdraw = IF Receives(arc) THEN "shared" ELSE "erased"]
    /\ UNCHANGED <<pairs, vtd, handoffs, sealed>> /\ Given /\ LedgerUntouched

Recovered(a, l) == [slots EXCEPT ![a].relock[l] = "recovered"]

\* Mutant: the recovered witness is written whatever the outcome.
RecoverAlways == IF LastJob THEN slots ELSE Recovered(arc, job)

\* What the solver found is written, unless the ledger has consumed the file.
Recover == IF LastJob \/ outcome = "honest" THEN slots ELSE Recovered(arc, job)

AfterFinish == IF outcome \in {"recover", "refund"} THEN "consume" ELSE "report"

\* finish: the solver is joined and its result sealed and checked; at the last
\* job of an arc that has a ledger of its own, that ledger consumes.
FinishVtd ==
    /\ EachJob("finish", AfterFinish)
    /\ vtd' = [vtd EXCEPT ![<<arc, job>>] = "finished"]
    /\ slots' = Recover
    /\ assets' = IF LastJob /\ ~ Retained THEN [assets EXCEPT ![arc] = "withdrawn"] ELSE assets
    /\ UNCHANGED <<pairs, handoffs, sealed, native, command, observed>> /\ Given

-----------------------------------------------------------------------------
(* The ledger of the cycle. *)

Settled == IF outcome = "refund" THEN "refunded" ELSE "withdrawn"
AfterConsume == IF outcome = "honest" THEN "finish" ELSE "report"

\* consume: every input is sealed, then the command is sent to a ledger that lives.
Consume ==
    /\ pc = "consume" /\ native = "waiting" /\ Enter(AfterConsume)
    /\ sealed' = Arc /\ command' = "C" /\ native' = "ended"
    /\ assets' = [a \in Arc |-> Settled]
    /\ UNCHANGED <<observed, pairs, vtd, handoffs, slots>> /\ Given

\* It failed: a seal was refused, the process was dead, it ended with some of
\* the assets settled, or it hangs.
ConsumeFails ==
    /\ pc = "consume" /\ Enter("abort")
    /\ \E s \in SUBSET Arc : sealed' = s
    /\ \/ UNCHANGED <<assets, native, command>>
       \/ /\ sealed' = Arc /\ command' = "C"
          /\ native = "dead" /\ UNCHANGED <<assets, native>>
       \/ /\ sealed' = Arc /\ command' = "C"
          /\ native = "waiting" /\ native' \in {"ended", "waiting"}
          /\ \E done \in SUBSET Arc :
                assets' = [a \in Arc |-> IF a \in done THEN Settled ELSE assets[a]]
    /\ UNCHANGED <<observed, pairs, vtd, handoffs, slots>> /\ Given

Fails ==
    /\ pc \in {"setup", "prepare", "fund", "deadline", "solve", "preswap", "share", "finish"}
    /\ Raise

\* The process may have locked when its LOCK_ACCEPTED comes too late: it is
\* killed before the context that could ask it is entered.
LockLost ==
    /\ pc = "fund" /\ Retained /\ ~ Refused /\ Enter("abort")
    /\ slots' = Erased /\ assets' = [a \in Arc |-> "locked"] /\ native' = "lost"
    /\ UNCHANGED <<command, observed, pairs, vtd, handoffs, sealed>> /\ Given

\* Mutant: the process is killed first, as in the context of a branch.
AbortByKill ==
    /\ pc = "abort" /\ Enter("close")
    /\ native' = (IF native = "waiting" THEN "ended" ELSE native)
    /\ UNCHANGED <<observed, command, assets, pairs, vtd, handoffs, slots, sealed>> /\ Given

\* The innermost context: a ledger that still waits is asked what it holds,
\* unless it was sent its command: a process is talked to once. One that died
\* is not asked, and nothing is printed of it.
AbortCycle ==
    /\ pc = "abort" /\ Enter("close")
    /\ IF native = "waiting"
         THEN /\ native' = "ended"
              /\ IF command = "none" THEN command' = "A" /\ observed' \in {"reported", "unavailable"}
                 ELSE observed' = "unavailable" /\ UNCHANGED command
         ELSE UNCHANGED <<native, command, observed>>
    /\ UNCHANGED <<assets, pairs, vtd, handoffs, slots, sealed>> /\ Given

\* Every native process is killed; a handoff that is not sealed is truncated.
Close(end) ==
    /\ Enter(end)
    /\ vtd' = [j \in Arc \X Job |-> IF vtd[j] = "none" THEN "none" ELSE "closed"]
    /\ handoffs' = handoffs \cap sealed
    /\ pairs' = {}
    /\ UNCHANGED <<slots, sealed>> /\ Given /\ LedgerUntouched

Unwind == pc = "close" /\ Close("raised")
Return == pc = "report" /\ Close("done")

-----------------------------------------------------------------------------
Steps ==
    \/ PreparePair \/ PrepareVtd \/ LockCycle \/ LockBranch \/ SetDeadline \/ StartSolver
    \/ Preswap \/ ShareWitness \/ FinishVtd \/ Consume
    \/ ConsumeFails \/ Fails \/ LockLost \/ AbortCycle \/ Unwind \/ Return

Next == Steps \/ Expire \/ LedgerDies

Spec == Init /\ [][Next]_vars

-----------------------------------------------------------------------------
(* The order the report claims (all_proofs_before_locks,
   all_locks_before_preswap): no asset is locked before every delayed witness
   of the whole cycle is proved, and no vector is made before every asset is
   locked and every solver runs. *)
ProofsThenLocks ==
    /\ (\E a \in Arc : assets[a] # "unfunded") => \A j \in Arc \X Job : vtd[j] # "none"
    /\ handoffs # {} => \A a \in Arc : assets[a] # "unfunded" /\ \A j \in Job : vtd[<<a, j>>] \notin {"none", "prepared"}

(* The cycle's ledger is told to consume when every witness it will use was
   received live or solved for, and when nothing of the preparation fixture is
   left in the files it reads. *)
DerivedWitnesses ==
    Retained /\ command = "C" =>
        \A a \in Arc :
            /\ slots[a].withdraw = (IF Receives(a) THEN "shared" ELSE "erased")
            /\ \A l \in Level : slots[a].relock[l] = (IF outcome = "honest" THEN "erased" ELSE "recovered")

(* Nothing is written to a witness file after it was sealed for the ledger:
   such a write fails, and would end an honest cycle that has withdrawn. *)
SealedFilesRest == [][\A a \in sealed : slots'[a] = slots[a]]_vars

(* A cycle that raises over confirmed locks does not lose them unasked: its
   ledger is not left waiting, and when the coordinator is what ended it, it
   was asked and the answer or the lack of one was reported, or it had been sent
   its command.  Whatever was reported is the state of the assets: all locked,
   none settled.  The exception is a ledger that died while it waited: poll()
   finds it ended, and it is neither asked nor mentioned. *)
AbortObserved ==
    /\ pc \in {"close", "raised"} =>
         /\ native # "waiting"
         /\ native = "ended" => command # "none" /\ (command = "A" => observed # "none")
    /\ observed = "reported" => command = "A" /\ \A a \in Arc : assets[a] = "locked"
=============================================================================
