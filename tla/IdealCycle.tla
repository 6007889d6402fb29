----------------------------- MODULE IdealCycle -----------------------------
(***************************************************************************)
(* The symbolic shared decision of src/ideal_lifecycle_decision.py: one    *)
(* immutable commit or abort for the whole cycle, every arc settled by it. *)
(* A step that raises leaves the cycle as it was and is not an action.     *)
(***************************************************************************)
CONSTANT Arc

VARIABLES ready,    \* whether the arc was reported ready
          assets,   \* what became of the arc's asset
          decision

idealVars == <<ready, assets, decision>>

IdealInit ==
    /\ ready = [a \in Arc |-> FALSE]
    /\ assets = [a \in Arc |-> "unfunded"]
    /\ decision = "pending"

Move(a, from, to) == assets[a] = from /\ assets' = [assets EXCEPT ![a] = to]

Fund(a) == decision = "pending" /\ Move(a, "unfunded", "locked") /\ UNCHANGED <<ready, decision>>

Ready(a) ==
    /\ decision = "pending" /\ assets[a] = "locked"
    /\ ready' = [ready EXCEPT ![a] = TRUE]
    /\ UNCHANGED <<assets, decision>>

Commit ==
    /\ decision = "pending"
    /\ \A a \in Arc : ready[a] /\ assets[a] = "locked"
    /\ decision' = "commit" /\ UNCHANGED <<ready, assets>>

Abort == decision = "pending" /\ decision' = "abort" /\ UNCHANGED <<ready, assets>>

Withdraw(a) == decision = "commit" /\ Move(a, "locked", "withdrawn") /\ UNCHANGED <<ready, decision>>
Refund(a) == decision = "abort" /\ Move(a, "locked", "refunded") /\ UNCHANGED <<ready, decision>>

IdealNext ==
    \/ \E a \in Arc : Fund(a) \/ Ready(a) \/ Withdraw(a) \/ Refund(a)
    \/ Commit \/ Abort

IdealSpec == IdealInit /\ [][IdealNext]_idealVars
=============================================================================
