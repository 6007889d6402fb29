----------------------------- MODULE Lifecycle ------------------------------
(***************************************************************************)
(* The swap of n participants as src/paraswap_lifecycle.py runs it: the    *)
(* driver Lifecycle.run with its loops over the arcs, one backend thread   *)
(* per arc between the locking and the export, and the budget of the       *)
(* pre-swap phase that may run out at any moment of it.                    *)
(***************************************************************************)
EXTENDS ArcBackends, FiniteSets

VARIABLES pc,         \* what the driver does: a method and its next arc
          phase,
          assets,     \* asset_state of each arc
          level,      \* relock_level of each arc
          late,       \* the pre-swap budget is spent
          exported,   \* outputs_exported
          witnesses   \* the participants whose witness was shared

arcVars == <<backend, fault, threads, results>>
vars == <<pc, phase, assets, level, late, exported, witnesses, arcVars>>

Method == {"prepare", "lock", "preswap", "share", "swap", "relock", "refund", "report"}
Phase == {"initial", "preparation", "pre_swap", "witness_sharing", "swap", "refund", "complete"}

TypeOK ==
    /\ pc \in [method : Method, arc : 0 .. N]
    /\ phase \in Phase
    /\ assets \in [Arc -> {"unlocked", "locked", "withdrawn", "refunded"}]
    /\ level \in [Arc -> Arc]
    /\ late \in BOOLEAN /\ exported \in BOOLEAN
    /\ witnesses \in SUBSET Arc
    /\ ThreadsType

Init ==
    /\ pc = [method |-> "prepare", arc |-> 0]
    /\ phase = "initial"
    /\ assets = [a \in Arc |-> "unlocked"]
    /\ level = [a \in Arc |-> 0]
    /\ late = FALSE /\ exported = FALSE
    /\ witnesses = {}
    /\ ThreadsInit

In(method) == pc.method = method
Call(method) == pc' = [method |-> method, arc |-> 0]

\* One turn of a loop over the first `limit' arcs, and the end of that loop.
Turn(method, limit) == In(method) /\ pc.arc < limit /\ pc' = [pc EXCEPT !.arc = @ + 1]
LoopEnds(method, limit) == In(method) /\ pc.arc = limit

SetAsset(state) == assets' = [assets EXCEPT ![pc.arc] = state]
AllLocked == \A a \in Arc : assets[a] = "locked"

-----------------------------------------------------------------------------
Prepare ==
    /\ In("prepare") /\ Call("lock")
    /\ phase' = "pre_swap"
    /\ UNCHANGED <<assets, level, late, exported, witnesses, arcVars>>

\* pre_swap: every arc is locked before any backend starts.
LockArc ==
    /\ Turn("lock", N) /\ SetAsset("locked")
    /\ UNCHANGED <<phase, level, late, exported, witnesses, arcVars>>

StartArcs ==
    /\ LoopEnds("lock", N) /\ Call("preswap")
    /\ UNCHANGED <<phase, assets, level, late, exported, witnesses, arcVars>>

\* The threads of the pool and their processes run while the driver waits.
Drives == UNCHANGED <<pc, phase, assets, level, late, exported, witnesses>>
ArcSteps(a) == In("preswap") /\ Thread(a) /\ UNCHANGED <<backend, fault>> /\ Drives
PeerSteps(a) == Peers(a) /\ Drives

\* The clock is read when the last thread has answered.
AllAnswered == \A a \in Arc : results[a] # "none"

BudgetSpent ==
    /\ In("preswap") /\ AllAnswered
    /\ ~ late /\ late' = TRUE
    /\ UNCHANGED <<pc, phase, assets, level, exported, witnesses, arcVars>>

Accepted == ~ late /\ \A a \in Arc : results[a] = "accepted"

\* refund and relock_until_refund raise unless every asset is locked.
EnterRefund == AllLocked /\ Call("refund") /\ phase' = "refund"

\* The end of pre_swap, and run's choice of share_witnesses or refund.
Export ==
    /\ In("preswap") /\ AllAnswered
    /\ exported' = Accepted
    /\ IF Accepted THEN Call("share") /\ phase' = "witness_sharing" ELSE EnterRefund
    /\ UNCHANGED <<assets, level, late, witnesses, arcVars>>

-----------------------------------------------------------------------------
Limit == IF fault = "witness" THEN N - 1 ELSE N

ShareWitness ==
    /\ Turn("share", Limit) /\ witnesses' = witnesses \cup {pc.arc}
    /\ UNCHANGED <<phase, assets, level, late, exported, arcVars>>

Complete == Cardinality(witnesses) = N

\* Mutant: the swap starts without asking whether the witnesses are complete.
WitnessesSharedUnasked ==
    /\ LoopEnds("share", Limit)
    /\ phase' = "swap" /\ Call("swap")
    /\ UNCHANGED <<assets, level, late, exported, witnesses, arcVars>>

\* run's choice of swap or relock_until_refund.
WitnessesShared ==
    /\ LoopEnds("share", Limit)
    /\ phase' = "swap" /\ Call(IF Complete THEN "swap" ELSE "relock")
    /\ Complete \/ AllLocked
    /\ UNCHANGED <<assets, level, late, exported, witnesses, arcVars>>

WithdrawArc ==
    /\ Turn("swap", N) /\ SetAsset("withdrawn")
    /\ UNCHANGED <<phase, level, late, exported, witnesses, arcVars>>

\* Mutant: the withdrawals stop at the first arc, as a return in the loop would.
WithdrawsEndEarly ==
    /\ In("swap") /\ pc.arc >= 1 /\ Call("report") /\ phase' = "complete"
    /\ UNCHANGED <<assets, level, late, exported, witnesses, arcVars>>

Withdrawn ==
    /\ LoopEnds("swap", N) /\ Call("report") /\ phase' = "complete"
    /\ UNCHANGED <<assets, level, late, exported, witnesses, arcVars>>

\* After the last arc of a level comes the first of the next one.
Following == IF pc.arc = N - 1 THEN 0 ELSE pc.arc + 1

\* Mutant: range(1, n - 1).
RelockArcStopsEarly ==
    /\ In("relock")
    /\ IF level[pc.arc] < N - 2
         THEN /\ level' = [level EXCEPT ![pc.arc] = @ + 1]
              /\ pc' = [pc EXCEPT !.arc = Following] /\ UNCHANGED phase
         ELSE EnterRefund /\ UNCHANGED level
    /\ UNCHANGED <<assets, late, exported, witnesses, arcVars>>

\* relock_until_refund: all arcs go to a level before any goes to the next one.
RelockArc ==
    /\ In("relock")
    /\ IF level[pc.arc] < N - 1
         THEN /\ level' = [level EXCEPT ![pc.arc] = @ + 1]
              /\ pc' = [pc EXCEPT !.arc = Following] /\ UNCHANGED phase
         ELSE EnterRefund /\ UNCHANGED level
    /\ UNCHANGED <<assets, late, exported, witnesses, arcVars>>

RefundArc ==
    /\ Turn("refund", N) /\ SetAsset("refunded")
    /\ UNCHANGED <<phase, level, late, exported, witnesses, arcVars>>

Refunded ==
    /\ LoopEnds("refund", N) /\ Call("report") /\ phase' = "complete"
    /\ UNCHANGED <<assets, level, late, exported, witnesses, arcVars>>

Driver ==
    \/ Prepare \/ LockArc \/ StartArcs \/ Export \/ ShareWitness \/ WitnessesShared
    \/ WithdrawArc \/ Withdrawn \/ RelockArc \/ RefundArc \/ Refunded

Next == Driver \/ BudgetSpent \/ \E a \in Arc : ArcSteps(a) \/ PeerSteps(a)

\* Driver and threads are never blocked for good: every wait for a process has
\* a timeout. Of the native processes nothing is assumed.
Spec == Init /\ [][Next]_vars /\ WF_vars(Driver) /\ \A a \in Arc : WF_vars(ArcSteps(a))
-----------------------------------------------------------------------------
(* The orchestrator implements the ideal shared decision: it commits only when
   every arc is locked and was answered by a valid batch, aborts otherwise,
   never changes its mind, and settles every arc by that decision alone -- in
   every intermediate state of its loops. *)
Decision ==
    IF phase \in {"swap", "complete"} /\ Complete THEN "commit"
    ELSE IF phase \in {"refund", "complete"} THEN "abort" ELSE "pending"

Ideal == INSTANCE IdealCycle WITH
            ready <- [a \in Arc |-> results[a] = "accepted"],
            assets <- [a \in Arc |-> IF assets[a] = "unlocked" THEN "unfunded" ELSE assets[a]],
            decision <- Decision

ImplementsIdeal == Ideal!IdealSpec

(* Once vectors were exported, pre-signed withdrawals of every level may exist
   outside: a refund starts only after all arcs passed their last level. *)
RefundAfterLastLevel ==
    exported /\ (\E a \in Arc : assets[a] = "refunded") =>
        \A a \in Arc : level[a] = N - 1

(* A witness is revealed only when the whole vector arrived valid within the
   budget: a late or malformed answer of one arc keeps all witnesses secret,
   and of the native peers of every arc both must have ended well: their exits
   are judged one after the other, each with its own timeout, and a server may
   still fail or hang after it has sent the DONE its client ends on. *)
NoWitnessBeforeVector ==
    witnesses # {} =>
        /\ ~ late /\ \A a \in Arc : results[a] = "accepted"
        /\ backend # "double" => \A a \in Arc : threads[a].client = "ok"
        /\ backend = "native" => \A a \in Arc : threads[a].server = "ok"

(* An arc that answered has no process left that would hold its port against
   the next run -- but for the server of a native arc whose client could not be
   started: that error is not caught, and nobody ends the server. *)
PeersReaped ==
    \A a \in Arc : results[a] # "none" /\ (threads[a].server \in Alive \/ threads[a].client \in Alive) =>
        backend = "native" /\ threads[a].client = "none"

(* A run ends with all assets withdrawn or all refunded, whatever the backends
   answer and in whatever order. *)
AllOrNothing ==
    <>[] \/ \A a \in Arc : assets[a] = "withdrawn"
         \/ \A a \in Arc : assets[a] = "refunded"
=============================================================================
