---------------------------- MODULE HostLedgerOps ---------------------------
(***************************************************************************)
(* The operations of one arc's ledger (host_ledger.c) as functions of the  *)
(* ledger record: whether an operation accepts, and the ledger it leaves.  *)
(*                                                                         *)
(* Transactions are numbered like the digests of the source: 0 .. N-1 are  *)
(* the withdrawals of levels 0 .. N-1, N .. 2N-2 the re-locks out of       *)
(* levels 0 .. N-2.  host_ledger_create requires distinct digests, so the  *)
(* number stands for the digest.  A signature is the pair of the digest it *)
(* was made for and the key it was made with; keys 0 .. N-1 are the joint  *)
(* keys of the levels, OwnerKey the funding wallet's.                      *)
(***************************************************************************)
EXTENDS HostSchedule

CONSTANTS N,        \* participants, and address levels of an arc
          Origin,   \* protocol origin in host time
          Delta,
          Epsilon

ASSUME ScheduleAssumption ==
    /\ N \in Nat /\ Origin \in Nat /\ Delta \in Nat /\ Epsilon \in Nat
    /\ Admissible(N, Origin, Delta, Epsilon)

Schedule == MakeSchedule(N, Origin, Delta, Epsilon)

Level == 0 .. N - 1
Ordinal == 0 .. 2 * N - 2
RefundTx == 2 * N - 1
LockTx == 2 * N
OwnerKey == N

Signature == [tx : 0 .. LockTx, key : 0 .. OwnerKey]

\* The all-zero withdrawal_signature of a ledger that holds none.
NoSignature == [tx |-> LockTx + 1, key |-> OwnerKey + 1]

AssetState == {"UNFUNDED", "LOCKED", "WITHDRAWN", "REFUNDED"}

Ledger == [ state      : AssetState,
            level      : Level,
            timed      : BOOLEAN,
            withdrawal : Signature \cup {NoSignature} ]

\* A ledger as its three constructors leave it.
NewLedger(state, timed) ==
    [state |-> state, level |-> 0, timed |-> timed, withdrawal |-> NoSignature]
Created == NewLedger("LOCKED", FALSE)
CreatedTimed == NewLedger("LOCKED", TRUE)
CreatedUnfunded == NewLedger("UNFUNDED", TRUE)

IsWithdrawal(ordinal) == ordinal < N

LevelOf(ordinal) == IF IsWithdrawal(ordinal) THEN ordinal ELSE ordinal - N

\* verify_key: a signature verifies for its own digest under its own key.
VerifyKey(key, tx, sig) == sig = [tx |-> tx, key |-> key]

-----------------------------------------------------------------------------
(* host_ledger_lock_at *)
LockAccepts(l, sig, now) ==
    /\ l.timed
    /\ l.state = "UNFUNDED"
    /\ PreswapLive(Schedule, now)
    /\ VerifyKey(OwnerKey, LockTx, sig)

LockResult(l) == [l EXCEPT !.state = "LOCKED"]

(* spend: a withdrawal or a re-lock of the level the asset is at *)
SpendAccepts(l, ordinal, sig) ==
    /\ l.state = "LOCKED"
    /\ ordinal < 2 * N - 1
    /\ LevelOf(ordinal) = l.level
    /\ VerifyKey(l.level, ordinal, sig)

\* Mutants: a withdrawal that falls through to the level increment, and one
\* that does not keep the accepted signature.
SpendResultFallsThrough(l, ordinal, sig) ==
    IF IsWithdrawal(ordinal)
      THEN [l EXCEPT !.state = "WITHDRAWN", !.withdrawal = sig, !.level = @ + 1]
      ELSE [l EXCEPT !.level = @ + 1]

SpendResultUnstored(l, ordinal, sig) ==
    IF IsWithdrawal(ordinal)
      THEN [l EXCEPT !.state = "WITHDRAWN"]
      ELSE [l EXCEPT !.level = @ + 1]

SpendResult(l, ordinal, sig) ==
    IF IsWithdrawal(ordinal)
      THEN [l EXCEPT !.state = "WITHDRAWN", !.withdrawal = sig]
      ELSE [l EXCEPT !.level = @ + 1]

(* refund: only out of the last level *)
\* Mutants: the lock state unchecked, and the last level taken to be N.
RefundAcceptsAnyState(l, sig) ==
    /\ l.level = N - 1
    /\ VerifyKey(l.level, RefundTx, sig)

RefundAcceptsPastEnd(l, sig) ==
    /\ l.state = "LOCKED"
    /\ l.level = N
    /\ VerifyKey(l.level, RefundTx, sig)

RefundAccepts(l, sig) ==
    /\ l.state = "LOCKED"
    /\ l.level = N - 1
    /\ VerifyKey(l.level, RefundTx, sig)

RefundResult(l) == [l EXCEPT !.state = "REFUNDED"]

(* host_ledger_spend_at and host_ledger_refund_at: the timed entry points *)
\* Mutant: the deadline of the source level, not of the destination level.
SpendAtAcceptsEarly(l, ordinal, sig, now) ==
    /\ l.timed
    /\ now >= Schedule.origin
    /\ ordinal > N => RelockReady(Schedule, ordinal - N, now)
    /\ SpendAccepts(l, ordinal, sig)

SpendAtAccepts(l, ordinal, sig, now) ==
    /\ l.timed
    /\ ordinal < 2 * N - 1
    /\ now >= Schedule.origin
    /\ ordinal >= N => RelockReady(Schedule, ordinal - N + 1, now)
    /\ SpendAccepts(l, ordinal, sig)

RefundAtAccepts(l, sig, now) ==
    /\ l.timed
    /\ RefundReady(Schedule, now)
    /\ RefundAccepts(l, sig)

(* host_ledger_extract_withdrawal: the accepted withdrawal must complete this
   pre-signature, and the pre-signature must be the current level's *)
ExtractAccepts(l, presignature) ==
    /\ l.state = "WITHDRAWN"
    /\ l.withdrawal = presignature
    /\ VerifyKey(l.level, l.level, presignature)

-----------------------------------------------------------------------------
(* The snapshot codec.  The encoding is the record with the schedule of a
   timed ledger; decoding repeats the consistency checks of the source. *)
SnapshotEncode(l) ==
    [ledger |-> l, schedule |-> IF l.timed THEN <<Schedule>> ELSE << >>]

\* The schedule is re-derived from the epsilon its window implies.
ScheduleDecodes(s) ==
    /\ s.window >= s.delta
    /\ (s.window - s.delta) % 3 = 0
    /\ LET epsilon == (s.window - s.delta) \div 3
       IN  /\ Admissible(s.participants, s.origin, s.delta, epsilon)
           /\ MakeSchedule(s.participants, s.origin, s.delta, epsilon) = s

\* Mutant: the withdrawal of level 0 expected whatever the level.
SnapshotDecodesLevelZero(snap) ==
    LET l == snap.ledger
    IN  /\ l.level < N
        /\ l.state \in AssetState
        /\ IF l.state = "WITHDRAWN"
             THEN VerifyKey(0, 0, l.withdrawal)
             ELSE l.withdrawal = NoSignature

SnapshotDecodes(snap) ==
    LET l == snap.ledger
    IN  /\ l.level < N
        /\ l.state \in AssetState
        /\ IF l.state = "WITHDRAWN"
             THEN VerifyKey(l.level, l.level, l.withdrawal)
             ELSE l.withdrawal = NoSignature
        /\ l.state = "UNFUNDED" => l.level = 0
        /\ l.state = "REFUNDED" => l.level = N - 1
        /\ l.timed => \A i \in DOMAIN snap.schedule : ScheduleDecodes(snap.schedule[i])
=============================================================================
