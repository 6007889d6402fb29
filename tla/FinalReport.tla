----------------------------- MODULE FinalReport -----------------------------
(***************************************************************************)
(* The last step of the evaluation: the analysis of the modelled campaign  *)
(* and evidence collected elsewhere go into                                *)
(* src/scripts/build_final_experiment_report.py, which under               *)
(* --require-final-matrix refuses anything but the whole matrix, with the  *)
(* costs of src/scripts/build_cloud_cost_report.py, and adjusts the        *)
(* p-values of all analyses together.                                      *)
(***************************************************************************)
EXTENDS CloudAnalysis

CONSTANTS MODES, PRIMARY_WORKLOADS, LOAD_WORKLOADS,   \* the matrix, smaller than the code's
          REQUIRED_COMPARISONS,
          Measurements,   \* trials and warm-ups a cell of each profile must have
          Build, Keys,    \* what the modelled campaign ran, and on which keys
          Archive,        \* the other evidence the tool may be given
          PValues         \* bound: the p-values the statistics may come to

ASSUME MatrixAssumption ==
    /\ Measurements \in [{"primary", "load"} -> [trials : Nat, warmup : Nat]]
    /\ PValues \subseteq 0 .. Unit
    /\ \A e \in Archive :
         /\ DOMAIN e = {"timing", "systems", "pcaps", "costs"}
         /\ e.timing \in Seq(Range(e.timing))
         /\ \A x \in DOMAIN e.timing : IsFiniteSet(e.timing[x].effects)

FINAL_ROUTES == {"eu_to_us", "sg_to_us"}
EXPECTED_AWS_REGIONS ==
    [eu_to_us |-> {"eu-central-1", "us-east-1"}, sg_to_us |-> {"ap-southeast-1", "us-east-1"}]

VARIABLE final   \* the adjusted rows of the report, none before it is written
NoReport == << >>

-----------------------------------------------------------------------------
\* timing_profile: which fixed matrix an analysis covers exactly.
timing_profile(t) ==
    LET cells == {<<row.workload, row.mode>> : row \in t.summary}
    IN  CASE cells = PRIMARY_WORKLOADS \X MODES -> "primary"
          [] cells = LOAD_WORKLOADS \X MODES    -> "load"
          [] OTHER                              -> "unknown"

Workloads(profile) == IF profile = "primary" THEN PRIMARY_WORKLOADS ELSE LOAD_WORKLOADS

\* validate_final_environment: both hosts of an analysis are where its route says.
ValidHosts(t) == t.regions = EXPECTED_AWS_REGIONS[t.route]

\* One analysis: every cell and every contrast over exactly the planned trials.
ValidTiming(t) ==
    LET trials == Measurements[timing_profile(t)].trials
    IN  /\ \A row \in t.summary : row.trials = trials
        /\ Workloads(timing_profile(t)) \X REQUIRED_COMPARISONS
              \subseteq {<<row.workload, row.comparison>> : row \in t.effects}
        /\ \A row \in t.effects : row.trials = trials
        /\ ValidHosts(t)

\* Exactly one primary and one load analysis of each route, of one build, and
\* under one pair of keys per route.
ValidTimings(timing) ==
    /\ {timing[x].route : x \in DOMAIN timing} = FINAL_ROUTES
    /\ \A route \in FINAL_ROUTES :
         LET records == {x \in DOMAIN timing : timing[x].route = route}
         IN  /\ {timing_profile(timing[x]) : x \in records} = {"primary", "load"}
             /\ Cardinality(records) = 2
             /\ Cardinality({timing[x].keys : x \in records}) = 1
    /\ \A x \in DOMAIN timing : ValidTiming(timing[x])
    /\ Cardinality({timing[x].build : x \in DOMAIN timing}) = 1

ValidSystems(systems) ==
    /\ {"allocation", "syscall"} \subseteq {s.profiling : s \in systems}
    /\ \A s \in systems : s.modes = MODES

ValidPcaps(pcaps) ==
    /\ {<<p.route, p.role>> : p \in pcaps} = FINAL_ROUTES \X Role
    /\ \A p, q \in pcaps : p.route = q.route => p.campaign = q.campaign

\* build_report: the campaigns of a priced manifest, with their totals.
CostAccepted(manifest) ==
    manifest # << >> /\ Distinct([x \in DOMAIN manifest |-> manifest[x].campaign])

\* The row of a timing campaign accounts for the runs the analysis shows.
CostMatches(t, row) ==
    LET plan == Measurements[timing_profile(t)]
    IN  /\ row.route = t.route
        /\ row.measured = MapThenSumSet(LAMBDA cell : cell.trials, t.summary)
        /\ row.warmup = Cardinality(t.summary) * plan.warmup
        /\ EXPECTED_AWS_REGIONS[t.route] \subseteq row.regions

ValidCosts(timing, costs) ==
    /\ Len(costs) = 1 /\ CostAccepted(costs[1])
    /\ \A x \in DOMAIN timing : \E y \in DOMAIN costs[1] :
         costs[1][y].campaign = timing[x].campaign /\ CostMatches(timing[x], costs[1][y])

validate_final_evidence_matrix(timing, systems, pcaps, costs) ==
    ValidTimings(timing) /\ ValidSystems(systems) /\ ValidPcaps(pcaps) /\ ValidCosts(timing, costs)

-----------------------------------------------------------------------------
\* A row of the report is named by its analysis and its effect.  The rows of one
\* pair of a load campaign are anchors: described, not tested.
Effects(timing) == UNION {{<<x, e>> : e \in timing[x].effects} : x \in DOMAIN timing}
Anchor(timing, r) == timing_profile(timing[r[1]]) = "load" /\ r[2].workload[2] = 1

\* Mutant: every workload is a family of its own.
ScientificFamilyPerWorkload(r) == <<r[2].workload, Hypothesis(r[2].comparison)>>

\* apply_scientific_holm_families: over both routes.
ScientificFamily(r) ==
    <<IF r[2].workload[2] = 1 THEN "one-pair" ELSE "high-load", Hypothesis(r[2].comparison)>>

\* What main writes of the p-values, beside what each analysis had said itself.
Report(timing, p) ==
    LET tested == {r \in DOMAIN p : ~ Anchor(timing, r)}
        holm   == AdjustFamilies([r \in tested |-> p[r]], [r \in tested |-> ScientificFamily(r)])
        own    == AdjustFamilies(p, [r \in DOMAIN p |-> <<r[1], AnalysisFamily(r[2])>>])
    IN  [r \in DOMAIN p |->
            [family   |-> IF r \in tested THEN ScientificFamily(r) ELSE <<"load-anchor", "descriptive">>,
             p        |-> p[r],
             adjusted |-> IF r \in tested THEN holm[r] ELSE Unit,
             own      |-> own[r]]]

\* The analysis of the modelled campaign, as the analyzer leaves it.
OwnTiming(a) ==
    LET t == Analysis(Payload("client", a))
    IN  [campaign |-> t.campaign, route |-> t.route, schedule |-> t.schedule,
         summary |-> t.summary, effects |-> t.effects,
         build |-> Build, keys |-> Keys, regions |-> EXPECTED_AWS_REGIONS[Route]]

\* Once the campaign is over the operator analyses two of its reports and builds
\* the final one; strict is --require-final-matrix.  An anchor's p-value does not
\* matter and is 1 in the model.
BuildReport(a, b, e, strict) ==
    LET timing == <<OwnTiming(a)>> \o e.timing
        rows   == Effects(timing)
    IN  /\ final = NoReport
        /\ \A r \in Role : At(r, "down")
        /\ port = Unbound
        /\ Accepted(Payload("client", a), Payload("server", b))
        /\ strict => validate_final_evidence_matrix(timing, e.systems, e.pcaps, e.costs)
        /\ \E p \in [{r \in rows : ~ Anchor(timing, r)} -> PValues] :
             final' = Report(timing, [r \in rows |-> IF Anchor(timing, r) THEN Unit ELSE p[r]])
        /\ UNCHANGED vars

allvars == <<vars, final>>
FinalInit == Init /\ final = NoReport

\* bound: the model stops at the final report.
FinalNext ==
    \/ final = NoReport /\ Next /\ UNCHANGED final
    \/ \E a, b \in Start, e \in Archive, strict \in BOOLEAN : BuildReport(a, b, e, strict)

FinalSpec ==
    /\ FinalInit /\ [][FinalNext]_allvars
    /\ WF_allvars(final = NoReport /\ ClientScript /\ UNCHANGED final)
    /\ WF_allvars(final = NoReport /\ ServerScript /\ UNCHANGED final)
-----------------------------------------------------------------------------
(* The adjusted p-values of the report are those of Holm's step-down procedure
   on each family, whatever order the analyses and their rows came in: a row
   is adjusted by the worst of the rows that are at least as significant, each
   multiplied by the number of rows that are not more significant than it. *)
HolmStepDown ==
    \A r \in DOMAIN final :
      LET family == {q \in DOMAIN final : final[q].family = final[r].family}
          Bound(q) == Min({Unit, Cardinality({s \in family : final[s].p >= final[q].p}) * final[q].p})
      IN  final[r].family # <<"load-anchor", "descriptive">> =>
            final[r].adjusted = Max({Bound(q) : q \in {q \in family : final[q].p <= final[r].p}})

(* The report claims no more than the analyses it is made from: joining the
   families of all analyses, and taking the anchors out of them, never makes
   an effect more significant than its own campaign's analysis had it. *)
NoMoreSignificant == \A r \in DOMAIN final : final[r].adjusted >= final[r].own
=============================================================================
