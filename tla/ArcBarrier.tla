----------------------------- MODULE ArcBarrier -----------------------------
(***************************************************************************)
(* What the coordinator of the retained cycle is promised by its           *)
(* concurrent pre-swap phase (_run_preswap_arcs): a barrier that opens     *)
(* only over a complete set of handed-off vectors, or an exception; either *)
(* way no process of the phase is left behind.                             *)
(***************************************************************************)
CONSTANT Arc

VARIABLES status,   \* "running", or how the phase ended: "barrier", "failed"
          vectors,  \* the arcs whose handoff file holds a vector
          busy      \* the arcs that still have a process

TypeOK ==
    /\ status \in {"running", "barrier", "failed"}
    /\ vectors \subseteq Arc /\ busy \subseteq Arc

Init == status = "running" /\ vectors = {} /\ busy = {}

\* Workers come and go, and write and truncate their handoff files.
Work ==
    /\ status = "running" /\ UNCHANGED status
    /\ vectors' \subseteq Arc /\ busy' \subseteq Arc

OpenBarrier ==
    /\ status = "running" /\ status' = "barrier"
    /\ vectors = Arc /\ busy = {}
    /\ UNCHANGED <<vectors, busy>>

Fail ==
    /\ status = "running" /\ status' = "failed"
    /\ busy = {}
    /\ UNCHANGED <<vectors, busy>>

Next == Work \/ OpenBarrier \/ Fail

Spec == Init /\ [][Next]_<<status, vectors, busy>>
=============================================================================
