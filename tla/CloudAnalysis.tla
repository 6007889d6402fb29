---------------------------- MODULE CloudAnalysis ----------------------------
(***************************************************************************)
(* What src/scripts/analyze_cloud_results.py makes of the two reports of a *)
(* campaign: it recomputes the schedule's identifiers, pairs the samples   *)
(* of both endpoints, refuses what does not fit together, and derives the  *)
(* rows it draws inferences from.  Measured values are left out; what the  *)
(* statistics make of them is a p-value that could be anything.            *)
(***************************************************************************)
EXTENDS CloudCampaign, SequencesExt

CONSTANT Unit   \* the p-value 1, in the model's integer p-values

ASSUME UnitAssumption == Unit \in Nat \ {0}

Aggregates(mode) ==
    mode \in {"phase-coalesced-batch-verification", "batch-joint-presigning-batch-verification"}

\* A sample as main appends it: the stage, its identifiers and one arc per
\* pair.  An arc's audit fields are as good as the session they come from.
Row(sample) ==
    LET s == StageAt(sample.stage)
    IN  [participants |-> s.participants, pairs |-> s.pairs, mode |-> s.mode, trial |-> s.trial,
         block |-> BlockId(s), trial_id |-> TrialId(s),
         mode_position |-> s.position, schedule_position |-> sample.stage,
         arcs |-> [k \in Pairs(sample.stage) |->
                     [execution |-> ExecutionId(s, k), seed |-> ContextSeed(s, k),
                      digest |-> IF Aggregates(s.mode) THEN <<sample.stage, k, sample.arcs[k]>>
                                 ELSE << >>]]]

\* write_report
Payload(r, start) ==
    [role |-> r, campaign |-> Campaign, route |-> Route, schedule |-> ScheduleDigest,
     trials |-> Trials, warmup |-> Warmup,
     samples |-> [x \in DOMAIN reports[r][start] |-> Row(reports[r][start][x])]]

SampleKey(row) == <<row.participants, row.pairs, row.mode, row.trial>>
Rows(payload) == {payload.samples[x] : x \in DOMAIN payload.samples}

ExpectedKeys == {<<w[1], w[2], mode, trial>> : w \in Workload, mode \in Modes, trial \in 0 .. Trials - 1}

\* indexed_samples: one sample of every cell and trial, and none beside them.
Complete(payload) ==
    /\ {SampleKey(row) : row \in Rows(payload)} = ExpectedKeys
    /\ Len(payload.samples) = Cardinality(ExpectedKeys)

ValidRole(payload, r) == payload.role = r

\* validate_audit: both endpoints' rows of one cell and trial.
ValidArcs(client, server) ==
    /\ DOMAIN client.arcs = 0 .. client.pairs - 1 /\ DOMAIN server.arcs = DOMAIN client.arcs
    /\ \A k \in DOMAIN client.arcs :
         /\ client.arcs[k].execution = server.arcs[k].execution
         /\ client.arcs[k].seed = server.arcs[k].seed
         /\ Aggregates(client.mode) => client.arcs[k].digest = server.arcs[k].digest

ValidAudit(client, server) ==
    /\ ValidArcs(client, server)
    /\ \A field \in {"block", "trial_id", "mode_position", "schedule_position"} :
         client[field] = server[field]

\* validate_paired_contexts: the rows of one trial of one workload.
ValidTrial(rows) ==
    /\ \A row \in rows :
         /\ row.block = <<"block", Campaign, Route, FALSE, row.participants, row.pairs>>
         /\ row.trial_id = <<"trial", Campaign, Route, FALSE, row.participants, row.pairs, row.trial>>
         /\ OrderedModes(<<row.participants, row.pairs>>, FALSE, row.trial)[1 + row.mode_position] = row.mode
    /\ {row.mode_position : row \in rows} = 0 .. M - 1
    /\ \A row \in rows : \A k \in DOMAIN row.arcs :
         /\ Cardinality({other.arcs[k].execution : other \in rows}) = M
         /\ Cardinality({other.arcs[k].seed : other \in rows}) = 1

ValidPairing(payload) ==
    \A row \in Rows(payload) :
        ValidTrial({other \in Rows(payload) : other.participants = row.participants
                        /\ other.pairs = row.pairs /\ other.trial = row.trial})

\* What main checks before it computes anything.
Accepted(client, server) ==
    /\ ValidRole(client, "client") /\ ValidRole(server, "server")
    /\ \A field \in {"campaign", "route", "schedule", "trials", "warmup"} : client[field] = server[field]
    /\ Complete(client) /\ Complete(server)
    /\ \A c \in Rows(client), s \in Rows(server) : SampleKey(c) = SampleKey(s) => ValidAudit(c, s)
    /\ ValidPairing(client)

\* A start whose script came to the end of the schedule; the last stage is measured.
Completed(r, start) ==
    reports[r][start] # << >> /\ Last(reports[r][start]).stage = StageCount - 1

(* Two scripts that each come to the end of the schedule have produced evidence
   the analysis accepts. *)
CompletedAccepted ==
    \A a, b \in Start :
        Completed("client", a) /\ Completed("server", b) =>
            Accepted(Payload("client", a), Payload("server", b))

-----------------------------------------------------------------------------
COMPARISONS ==
    [complete_method_vs_reference |->
        <<"reference-itemwise", "batch-joint-presigning-batch-verification">>,
     phase_coalescing_vs_reference |-> <<"reference-itemwise", "phase-coalesced-itemwise">>,
     batch_joint_presigning_vs_phase_coalesced_itemwise |->
        <<"phase-coalesced-itemwise", "batch-joint-presigning-itemwise">>,
     batch_joint_presigning_vs_reference |->
        <<"reference-itemwise", "batch-joint-presigning-itemwise">>,
     batch_verification_with_batch_joint_presigning |->
        <<"batch-joint-presigning-itemwise", "batch-joint-presigning-batch-verification">>,
     batch_verification_with_phase_coalescing |->
        <<"phase-coalesced-itemwise", "phase-coalesced-batch-verification">>,
     batch_joint_presigning_vs_phase_coalesced_aggregate |->
        <<"phase-coalesced-batch-verification", "batch-joint-presigning-batch-verification">>]

FactorialModes ==
    {"phase-coalesced-itemwise", "phase-coalesced-batch-verification",
     "batch-joint-presigning-itemwise", "batch-joint-presigning-batch-verification"}

\* The contrasts whose modes were all measured, and the interaction of the two
\* factors when the whole square was.
Comparisons(modes) ==
    {c \in DOMAIN COMPARISONS : {COMPARISONS[c][1], COMPARISONS[c][2]} \subseteq modes}
        \cup IF FactorialModes \subseteq modes THEN {"session_verification_interaction"} ELSE {}

TrialsOf(rows, w, mode) ==
    {row.trial : row \in {row \in rows : <<row.participants, row.pairs, row.mode>> = <<w[1], w[2], mode>>}}

\* A summary of every cell.
Summary(rows) ==
    {[workload |-> w, mode |-> mode, trials |-> Cardinality(TrialsOf(rows, w, mode))] :
        w \in Workload, mode \in Modes}

\* Every contrast of every workload, over the trials its modes have in common.
PairedEffects(rows) ==
    LET Compared(c) == IF c \in DOMAIN COMPARISONS
                         THEN {COMPARISONS[c][1], COMPARISONS[c][2]} ELSE FactorialModes
        Paired(w, c) == {t \in 0 .. Trials - 1 :
                            \A mode \in Compared(c) : t \in TrialsOf(rows, w, mode)}
    IN  {[workload |-> w, comparison |-> c, trials |-> Cardinality(Paired(w, c))] :
            w \in Workload, c \in Comparisons(Modes)}

\* What main writes.
Analysis(client) ==
    [campaign |-> client.campaign, route |-> client.route, schedule |-> client.schedule,
     summary |-> Summary(Rows(client)), effects |-> PairedEffects(Rows(client))]

Hypothesis(c) ==
    CASE c = "batch_verification_with_batch_joint_presigning"      -> "H1"
      [] c = "batch_joint_presigning_vs_phase_coalesced_aggregate" -> "H2"
      [] c = "complete_method_vs_reference"                        -> "H3"
      [] OTHER -> "exploratory"

\* apply_holm_families: the family a row of one analysis is adjusted in.
AnalysisFamily(effect) ==
    <<IF effect.workload[2] = 1 THEN "primary" ELSE "high-load", Hypothesis(effect.comparison)>>

\* sorted(enumerate(rows)) is stable: rows of equal p-values keep their order.
RankOf(p, i) == Cardinality({j \in DOMAIN p : p[j] < p[i] \/ (p[j] = p[i] /\ j <= i)})
Ranked(p) == [rank \in DOMAIN p |-> CHOOSE i \in DOMAIN p : RankOf(p, i) = rank]
Candidates(p) ==
    [rank \in DOMAIN p |-> Min({Unit, (Len(p) - rank + 1) * p[Ranked(p)[rank]]})]

\* Mutant: no running maximum.
HolmAdjustUnordered(p) == [i \in DOMAIN p |-> Candidates(p)[RankOf(p, i)]]

\* holm_adjust_family, on the p-values of a family's rows.
HolmAdjust(p) ==
    [i \in DOMAIN p |-> Max({Candidates(p)[rank] : rank \in 1 .. RankOf(p, i)})]

\* Adjusts the p-values p of a set of rows, family by family.
AdjustFamilies(p, family) ==
    [r \in DOMAIN p |->
        LET rows  == SetToSeq({q \in DOMAIN p : family[q] = family[r]})
            index == CHOOSE i \in DOMAIN rows : rows[i] = r
        IN  HolmAdjust([i \in DOMAIN rows |-> p[rows[i]]])[index]]
=============================================================================
