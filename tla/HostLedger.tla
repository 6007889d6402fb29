----------------------------- MODULE HostLedger -----------------------------
(***************************************************************************)
(* One arc's ledger in the host adapter, driven by whoever can reach it:   *)
(* the owner funds it, the recipient withdraws, the sender re-locks and    *)
(* refunds, in any order and with any signature, while host time advances. *)
(* SnapshotNext adds a host that saves the ledger and later restarts from  *)
(* what it saved, which may be older than the ledger it lost.              *)
(***************************************************************************)
EXTENDS HostLedgerOps

CONSTANT Horizon    \* bound: the last instant of host time the model reaches

ASSUME HorizonAssumption == Horizon \in Nat /\ Horizon >= Schedule.refund

VARIABLES ledger,   \* the host_ledger object
          now,      \* the host's monotonic clock
          saved     \* the snapshots kept: at most one

vars == <<ledger, now, saved>>

TypeOK ==
    /\ ledger \in Ledger
    /\ now \in 0 .. Horizon
    /\ saved \in {<< >>} \cup {<<SnapshotEncode(l)>> : l \in Ledger}

Init ==
    /\ ledger \in {Created, CreatedTimed, CreatedUnfunded}
    /\ now = 0
    /\ saved = << >>

-----------------------------------------------------------------------------
Tick ==
    /\ now < Horizon
    /\ now' = now + 1
    /\ UNCHANGED <<ledger, saved>>

LockAt(sig) ==
    /\ LockAccepts(ledger, sig, now)
    /\ ledger' = LockResult(ledger)
    /\ UNCHANGED <<now, saved>>

SpendAt(ordinal, sig) ==
    /\ SpendAtAccepts(ledger, ordinal, sig, now)
    /\ ledger' = SpendResult(ledger, ordinal, sig)
    /\ UNCHANGED <<now, saved>>

RefundAt(sig) ==
    /\ RefundAtAccepts(ledger, sig, now)
    /\ ledger' = RefundResult(ledger)
    /\ UNCHANGED <<now, saved>>

\* host_ledger_spend and host_ledger_refund serve untimed ledgers only.
Spend(ordinal, sig) ==
    /\ ~ ledger.timed
    /\ SpendAccepts(ledger, ordinal, sig)
    /\ ledger' = SpendResult(ledger, ordinal, sig)
    /\ UNCHANGED <<now, saved>>

Refund(sig) ==
    /\ ~ ledger.timed
    /\ RefundAccepts(ledger, sig)
    /\ ledger' = RefundResult(ledger)
    /\ UNCHANGED <<now, saved>>

\* host_ledger_snapshot_encode, kept by the host in place of an older one.
Save ==
    /\ saved' = <<SnapshotEncode(ledger)>>
    /\ UNCHANGED <<ledger, now>>

\* The process is lost and host_ledger_snapshot_decode rebuilds its ledger.
Restart ==
    /\ saved # << >>
    /\ SnapshotDecodes(saved[1])
    /\ ledger' = saved[1].ledger
    /\ UNCHANGED <<now, saved>>

LedgerNext ==
    \/ Tick
    \/ \E sig \in Signature :
         \/ LockAt(sig)
         \/ RefundAt(sig)
         \/ Refund(sig)
         \/ \E ordinal \in Ordinal : SpendAt(ordinal, sig) \/ Spend(ordinal, sig)

SnapshotNext == Save \/ Restart

Next == LedgerNext \/ SnapshotNext

Spec == Init /\ [][Next]_vars

\* The sender holds the delayed re-lock signatures and the refund signature
\* and keeps submitting them (host_refund_retained does), and time passes;
\* nothing obliges the recipient to withdraw.
SenderFairness ==
    /\ WF_vars(Tick)
    /\ WF_vars(\E sig \in Signature, ordinal \in N .. 2 * N - 2 : SpendAt(ordinal, sig))
    /\ WF_vars(\E sig \in Signature : RefundAt(sig))

LedgerSpec == Init /\ [][LedgerNext]_vars /\ SenderFairness
-----------------------------------------------------------------------------
(* A timed asset is never ahead of its schedule, even after a restart from
   an old snapshot: an asset at level k has waited for the first k re-lock
   deadlines, a funded one for the origin, and a refunded one has left
   through all N-1 re-locks and waited for the refund time (host_ledger_spend_at,
   host_ledger_refund_at). *)
OnSchedule(l) ==
    l.timed =>
        /\ l.level > 0 => RelockReady(Schedule, l.level, now)
        /\ l.state = "WITHDRAWN" => now >= Schedule.origin
        /\ l.state = "REFUNDED" => l.level = N - 1 /\ RefundReady(Schedule, now)

ScheduleRespected == OnSchedule(ledger)

(* The stored signature is present exactly when the asset was withdrawn, and
   it is the completed signature of the level it was withdrawn at, which is
   what lets the neighbouring arc extract the witness from it
   (host_ledger_extract_withdrawal). *)
WithdrawalExtractable ==
    IF ledger.state = "WITHDRAWN"
      THEN ExtractAccepts(ledger, [tx |-> ledger.level, key |-> ledger.level])
      ELSE ledger.withdrawal = NoSignature

(* Every ledger the program can reach survives its own snapshot: the decoder
   refuses none of them, so no accepted transaction can make the host's state
   unrecoverable. *)
SnapshotRecoverable == SnapshotDecodes(SnapshotEncode(ledger))

(* The inductive invariant: the three together, the types, and what Restart
   needs of the snapshot it goes back to. *)
LedgerInv ==
    /\ TypeOK
    /\ ScheduleRespected
    /\ WithdrawalExtractable
    /\ SnapshotRecoverable
    /\ \A i \in DOMAIN saved : OnSchedule(saved[i].ledger)

-----------------------------------------------------------------------------
AssetOf == [UNFUNDED |-> "unfunded", LOCKED |-> "locked",
            WITHDRAWN |-> "paid", REFUNDED |-> "returned"]

Epoch == CASE ~ ledger.timed                             -> 3
           [] ledger.timed /\ now < Schedule.origin      -> 0
           [] ledger.timed /\ PreswapLive(Schedule, now) -> 1
           [] ledger.timed /\ RefundReady(Schedule, now) -> 3
           [] OTHER                                      -> 2

Asset == INSTANCE AssetLedger WITH asset <- AssetOf[ledger.state], epoch <- Epoch

(* Without restarts the ledger implements AssetLedger: it settles once, pays
   or returns but never both, is not funded late and not returned early. *)
SettlesOnce == Asset!AssetSpec

(* A timed, funded asset does not stay locked for ever when the sender keeps
   submitting what it holds: the re-locks and the refund cannot be blocked. *)
EventuallySettled ==
    (ledger.timed /\ ledger.state = "LOCKED")
        ~> ledger.state \in {"WITHDRAWN", "REFUNDED"}
=============================================================================
