---------------------------- MODULE CloudSchedule ----------------------------
(***************************************************************************)
(* The schedule both endpoints of a cloud campaign compute for themselves  *)
(* (src/scripts/run_cloud_campaign.py): every workload runs its warm-up    *)
(* and then its measured trials, every trial runs every mode once, and     *)
(* successive trials rotate the order of the modes.  Hashes are modelled   *)
(* as the tuple they are computed from.                                    *)
(***************************************************************************)
EXTENDS Integers, Sequences, FiniteSets

CONSTANTS Participants,      \* --participants, a sequence
          ConcurrentPairs,   \* --concurrent-pairs, empty for one pair per participant
          Modes,             \* --modes
          HashOrder,         \* the modes by the hash of phase, workload and mode
          Trials, Warmup,
          Campaign, Route

Distinct(s) == \A i, j \in DOMAIN s : s[i] = s[j] => i = j
M == Cardinality(Modes)
PairValues(n) == IF ConcurrentPairs = << >> THEN <<n>> ELSE ConcurrentPairs
PairCount == IF ConcurrentPairs = << >> THEN 1 ELSE Len(ConcurrentPairs)
Workload == UNION {{<<Participants[i], PairValues(Participants[i])[j]>> : j \in 1 .. PairCount} :
                       i \in DOMAIN Participants}

\* What main's argument checks let through.
ValidArguments ==
    /\ Participants \in Seq(Nat) /\ Len(Participants) > 0 /\ Distinct(Participants)
    /\ \A i \in DOMAIN Participants : Participants[i] >= 3
    /\ ConcurrentPairs \in Seq(1 .. 4096) /\ Distinct(ConcurrentPairs)
    /\ IsFiniteSet(Modes) /\ M \in Nat \ {0}
    /\ Trials \in Nat \ {0} /\ Warmup \in Nat

ASSUME ArgumentsAssumption == ValidArguments

\* sorted by a hash: some fixed order of all modes, its own per phase and workload.
ASSUME HashOrderAssumption ==
    \A warmup \in BOOLEAN, w \in Workload :
        /\ HashOrder[<<warmup, w>>] \in [1 .. M -> Modes]
        /\ \A i, j \in 1 .. M : HashOrder[<<warmup, w>>][i] = HashOrder[<<warmup, w>>][j] => i = j

\* ordered_modes: base[offset:] + base[:offset] with offset = trial % len(base).
OrderedModes(w, warmup, trial) ==
    [i \in 1 .. M |-> HashOrder[<<warmup, w>>][1 + ((i - 1 + trial) % M)]]

RoundLength == (Warmup + Trials) * M
StageCount == Len(Participants) * PairCount * RoundLength
StageIndex == 0 .. StageCount - 1

\* make_stages: the nested loops over participants, pairs, trials and modes.
StageAt(i) ==
    LET block == i \div RoundLength
        round == (i % RoundLength) \div M
        n     == Participants[1 + (block \div PairCount)]
        p     == PairValues(n)[1 + (block % PairCount)]
        warm  == round < Warmup
        trial == IF warm THEN round ELSE round - Warmup
    IN  [participants |-> n, pairs |-> p, warmup |-> warm, trial |-> trial,
         mode |-> OrderedModes(<<n, p>>, warm, trial)[1 + (i % M)], position |-> i % M]

Pairs(i) == 0 .. StageAt(i).pairs - 1
Measured == {i \in StageIndex : ~ StageAt(i).warmup}

-----------------------------------------------------------------------------
ExecutionId(s, k) == <<Campaign, s.warmup, s.participants, s.trial, s.pairs, s.mode, k>>

\* Shared by all modes of a paired trial.
ContextSeed(s, k) == <<"OASIS-CLOUD-CONTEXT-v1", Campaign, s.warmup, s.participants, s.trial, s.pairs, k>>

BlockId(s) == <<"block", Campaign, Route, s.warmup, s.participants, s.pairs>>
TrialId(s) == <<"trial", Campaign, Route, s.warmup, s.participants, s.pairs, s.trial>>

\* stage_schedule_digest
ScheduleDigest ==
    [i \in StageIndex |->
        LET s == StageAt(i)
        IN  <<BlockId(s), TrialId(s), s.participants, s.pairs, s.mode, s.trial, s.warmup>>]
=============================================================================
